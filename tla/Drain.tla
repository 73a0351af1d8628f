------------------------------- MODULE Drain -------------------------------
(***************************************************************************)
(* Shutting a replica down: the in-flight count and the drain loop of      *)
(* shutdown.rs, the accept loop of listen.rs, and what the requests of     *)
(* gateway/mod.rs do with their guards. Each request has its connection.   *)
(*                                                                         *)
(* A request is counted from dispatch on, which runs once the key has been *)
(* checked (authn.rs) and the body read. Its guard then goes where the     *)
(* work goes: to the pump of a streamed answer, to the task that writes    *)
(* the rows. When serve returns so does main, and the runtime drops every  *)
(* task that is left.                                                      *)
(***************************************************************************)
EXTENDS Naturals, FiniteSets

CONSTANTS
    Requests,
    Budget  \* max_stream_duration, in polls of the drain loop

ASSUME DrainAssumption ==
    /\ IsFiniteSet(Requests)
    /\ Budget \in Nat

VARIABLES
    stage,     \* each request, as its connection sees it
    task,      \* the detached task each left behind
    in_flight, \* Lifecycle::in_flight
    phase,     \* the process
    left,      \* what is left of the drain budget
    overrun,   \* history: the budget expired with requests in flight
    late       \* history: requests first counted after the drain resolved

vars == <<stage, task, in_flight, phase, left, overrun, late>>

(* arriving: its head is read, the key is being checked or the body read;  *)
(* handling: in dispatch; streaming: its body is what a pump sends;        *)
(* answering: the rest of the response is going out.                       *)
Open == {"arriving", "handling", "streaming", "answering"}
Stages == Open \cup {"none", "closed"}
Tasks == {"none", "pumping", "writing", "done", "severed"}
Running == {"pumping", "writing"}

Guarded(r) == stage[r] = "handling" \/ task[r] \in Running

Init ==
    /\ stage = [r \in Requests |-> "none"]
    /\ task = [r \in Requests |-> "none"]
    /\ in_flight = 0
    /\ phase = "serving"
    /\ left = Budget
    /\ overrun = FALSE
    /\ late = {}

process == <<phase, left, overrun>>
Up == phase # "exited"
Goes(r, s) == stage' = [stage EXCEPT ![r] = s]
Spawns(r, t) == task' = [task EXCEPT ![r] = t]
track == in_flight' = in_flight + 1
drop_guard == in_flight' = in_flight - 1

-----------------------------------------------------------------------------
(* A request.                                                              *)

(* The listener accepts until the drain resolves, draining or not.         *)
Accept(r) ==
    /\ phase \in {"serving", "draining"}
    /\ stage[r] = "none"
    /\ Goes(r, "arriving")
    /\ UNCHANGED <<task, in_flight, process, late>>

(* The key is refused, or the body never comes whole.                      *)
Refuse(r) ==
    /\ Up
    /\ stage[r] = "arriving"
    /\ Goes(r, "answering")
    /\ UNCHANGED <<task, in_flight, process, late>>

Dispatch(r) ==
    /\ Up
    /\ stage[r] = "arriving"
    /\ Goes(r, "handling")
    /\ track
    /\ late' = IF phase = "stopped" THEN late \cup {r} ELSE late
    /\ UNCHANGED <<task, process>>

(* An answer that was collected: its rows are a task's, with the guard.    *)
Collected(r) ==
    /\ Up
    /\ stage[r] = "handling"
    /\ Goes(r, "answering")
    /\ Spawns(r, "writing")
    /\ UNCHANGED <<in_flight, process, late>>

\* The guard goes when the handler returns, with the stream still running.
StreamUnguarded(r) ==
    /\ Up
    /\ stage[r] = "handling"
    /\ Goes(r, "streaming")
    /\ Spawns(r, "pumping")
    /\ drop_guard
    /\ UNCHANGED <<process, late>>

(* The pump takes the guard. Nothing is owed for earlier attempts here     *)
(* (Forwarding's StreamOwesNothing), so no second task is left behind.     *)
Streamed(r) ==
    /\ Up
    /\ stage[r] = "handling"
    /\ Goes(r, "streaming")
    /\ Spawns(r, "pumping")
    /\ UNCHANGED <<in_flight, process, late>>

(* An error. What was generated on the way is written by a task that takes *)
(* a guard of its own before the request's is dropped.                     *)
Failed(r) ==
    /\ Up
    /\ stage[r] = "handling"
    /\ Goes(r, "answering")
    /\ \/ drop_guard /\ UNCHANGED task
       \/ Spawns(r, "writing") /\ UNCHANGED in_flight
    /\ UNCHANGED <<process, late>>

PumpEnds(r) ==
    /\ Up
    /\ task[r] = "pumping"
    /\ Spawns(r, "writing")
    /\ stage' = [stage EXCEPT ![r] = IF @ = "streaming" THEN "answering" ELSE @]
    /\ UNCHANGED <<in_flight, process, late>>

Written(r) ==
    /\ Up
    /\ task[r] = "writing"
    /\ Spawns(r, "done")
    /\ drop_guard
    /\ UNCHANGED <<stage, process, late>>

Delivered(r) ==
    /\ Up
    /\ stage[r] = "answering"
    /\ Goes(r, "closed")
    /\ UNCHANGED <<task, in_flight, process, late>>

(* The handler's future is dropped, and its guard with it; a task's stays. *)
HangUp(r) ==
    /\ Up
    /\ stage[r] \in Open
    /\ Goes(r, "closed")
    /\ IF stage[r] = "handling" THEN drop_guard ELSE UNCHANGED in_flight
    /\ UNCHANGED <<task, process, late>>

-----------------------------------------------------------------------------
(* The process.                                                            *)

Sigterm ==
    /\ phase = "serving"
    /\ phase' = "draining"
    /\ UNCHANGED <<stage, task, in_flight, left, overrun, late>>

\* The loop has no deadline.
PollForEver ==
    /\ phase = "draining"
    /\ \/ /\ in_flight = 0
          /\ phase' = "stopped"
          /\ UNCHANGED <<left, overrun>>
       \/ /\ in_flight > 0
          /\ left' = IF left > 0 THEN left - 1 ELSE 0
          /\ UNCHANGED <<phase, overrun>>
    /\ UNCHANGED <<stage, task, in_flight, late>>

(* One turn of the drain loop: nothing in flight, or the budget spent, and *)
(* the signal resolves. The listener is closed and every connection told   *)
(* to finish the request it is on.                                         *)
Poll ==
    /\ phase = "draining"
    /\ \/ /\ in_flight = 0
          /\ phase' = "stopped"
          /\ UNCHANGED <<left, overrun>>
       \/ /\ in_flight > 0 /\ left = 0
          /\ phase' = "stopped"
          /\ overrun' = TRUE
          /\ UNCHANGED left
       \/ /\ in_flight > 0 /\ left > 0
          /\ left' = left - 1
          /\ UNCHANGED <<phase, overrun>>
    /\ UNCHANGED <<stage, task, in_flight, late>>

(* serve waits for the connections, and for nothing else.                  *)
Exit ==
    /\ phase = "stopped"
    /\ \A r \in Requests : stage[r] \notin Open
    /\ phase' = "exited"
    /\ task' = [r \in Requests |-> IF task[r] \in Running THEN "severed" ELSE task[r]]
    /\ UNCHANGED <<stage, in_flight, left, overrun, late>>

-----------------------------------------------------------------------------
Request(r) ==
    \/ Accept(r) \/ Refuse(r) \/ Dispatch(r) \/ Collected(r) \/ Streamed(r)
    \/ Failed(r) \/ PumpEnds(r) \/ Written(r) \/ Delivered(r) \/ HangUp(r)

Next == (\E r \in Requests : Request(r)) \/ Sigterm \/ Poll \/ Exit

(* The drain loop's interval fires, whatever its requests do.              *)
Spec == Init /\ [][Next]_vars /\ WF_vars(Poll)

-----------------------------------------------------------------------------
(* The types; the unsigned in-flight count (shutdown.rs) never wraps.      *)
TypeOK ==
    /\ stage \in [Requests -> Stages]
    /\ task \in [Requests -> Tasks]
    /\ in_flight \in 0..Cardinality(Requests)
    /\ phase \in {"serving", "draining", "stopped", "exited"}
    /\ left \in 0..Budget
    /\ overrun \in BOOLEAN
    /\ late \subseteq Requests

(* Until the process exits the count is the number of guards alive: no way *)
(* a request ends leaks one, which would stall every shutdown, and none    *)
(* gives one back twice, which would let a shutdown cut a stream.          *)
CountIsExact ==
    Up => in_flight = Cardinality({r \in Requests : Guarded(r)})

(* A drain that did not overrun its budget severs nobody who was counted   *)
(* before it resolved: neither a stream nor the rows of an answer.         *)
DrainWaits ==
    phase \in {"stopped", "exited"} /\ ~overrun =>
        \A r \in Requests \ late : task[r] \notin Running \cup {"severed"}

(* SIGTERM is followed by the end of the drain, however long a stream, a   *)
(* client or the ledger takes.                                             *)
DrainResolves == phase = "draining" ~> phase \in {"stopped", "exited"}

(* The count of requests in flight is exact and typed, and a drain that    *)
(* resolved in time severs nothing it counted (shutdown.rs).               *)
DrainSafe == TypeOK /\ CountIsExact /\ DrainWaits

=============================================================================
