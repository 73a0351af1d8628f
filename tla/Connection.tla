----------------------------- MODULE Connection -----------------------------
(***************************************************************************)
(* One replica's connection to Redis: the connection every cache command   *)
(* goes through, the one background dial that builds it, the callers that  *)
(* wait for it and time out on it.  A connection is known by its           *)
(* generation.                                                             *)
(***************************************************************************)
EXTENDS Naturals

CONSTANTS
    Callers,      \* tasks running a cache command
    Dials,        \* bound: background dials that have not ended, at once
    MaxGen        \* bound: connections built

ASSUME ConnectionAssumption == MaxGen \in Nat

NoConn == 0       \* conn is None; a generation is 1 or more

VARIABLES
    conn,         \* the generation of the live connection, or NoConn
    conn_gen,     \* the last generation given out
    dialing,      \* the flag
    dial,         \* each background dial: "off", "check", "dial", "clear" or "notify"
    caller,       \* [pc, used, woken] of each caller
    wedged,       \* generations whose socket will never answer again
    blamed,       \* ghost: generations some caller timed out on
    dropped,      \* ghost: generations taken out of use
    replaced      \* ghost: whether a dial ever wrote over a connection in use
connVars == <<conn, conn_gen, dialing, dial, caller, wedged, blamed, dropped, replaced>>

Asking(pc, used, woken) == [pc |-> pc, used |-> used, woken |-> woken]
Rested == Asking("idle", NoConn, FALSE)
CallerAt(c, pc) == caller[c].pc = pc
CallerGoes(c, pc) == caller' = [caller EXCEPT ![c].pc = pc]

-----------------------------------------------------------------------------
(* conn_with_gen: registered with `dialed` first, then a look, then the    *)
(* wait.                                                                   *)
Register(c) ==
    /\ CallerAt(c, "idle")
    /\ caller' = [caller EXCEPT ![c] = Asking("look", NoConn, FALSE)]
    /\ UNCHANGED <<conn, conn_gen, dialing, dial, wedged, blamed, dropped, replaced>>

Look(c) ==
    /\ CallerAt(c, "look")
    /\ caller' = [caller EXCEPT ![c].pc = IF conn = NoConn THEN "start" ELSE "command", ![c].used = conn]
    /\ UNCHANGED <<conn, conn_gen, dialing, dial, wedged, blamed, dropped, replaced>>

(* start_dial: the one that turns the flag starts the dial.                *)
StartDial(c) ==
    /\ CallerAt(c, "start")
    /\ dialing' = TRUE
    /\ IF dialing THEN UNCHANGED dial
       ELSE \E d \in Dials : dial[d] = "off" /\ dial' = [dial EXCEPT ![d] = "check"]
    /\ CallerGoes(c, "parking")
    /\ UNCHANGED <<conn, conn_gen, wedged, blamed, dropped, replaced>>
Park(c) ==
    /\ CallerAt(c, "parking") /\ CallerGoes(c, "waiting")
    /\ UNCHANGED <<conn, conn_gen, dialing, dial, wedged, blamed, dropped, replaced>>

(* Woken, or CONNECT_WAIT is over: whichever, a second look.               *)
Waited(c) ==
    /\ CallerAt(c, "waiting")
    /\ caller' = [caller EXCEPT ![c] = IF conn = NoConn THEN Rested ELSE Asking("command", conn, FALSE)]
    /\ UNCHANGED <<conn, conn_gen, dialing, dial, wedged, blamed, dropped, replaced>>

(* slot_timed: the command is answered, or the deadline passes on the      *)
(* connection it used, or while it was still waiting for one.              *)
Answered(c) ==
    /\ CallerAt(c, "command") /\ caller[c].used \notin wedged
    /\ caller' = [caller EXCEPT ![c] = Rested]
    /\ UNCHANGED <<conn, conn_gen, dialing, dial, wedged, blamed, dropped, replaced>>

TimesOut(c) ==
    /\ CallerAt(c, "command")
    /\ CallerGoes(c, "drop")
    /\ blamed' = blamed \cup {caller[c].used}
    /\ UNCHANGED <<conn, conn_gen, dialing, dial, wedged, dropped, replaced>>
GivesUpWaiting(c) ==
    /\ CallerAt(c, "waiting")
    /\ caller' = [caller EXCEPT ![c] = Rested]
    /\ UNCHANGED <<conn, conn_gen, dialing, dial, wedged, blamed, dropped, replaced>>

Drops(used) == conn # NoConn /\ conn = used
DropConn(c) ==
    /\ CallerAt(c, "drop")
    /\ conn' = IF Drops(caller[c].used) THEN NoConn ELSE conn
    /\ dropped' = IF Drops(caller[c].used) THEN dropped \cup {conn} ELSE dropped
    /\ caller' = [caller EXCEPT ![c] = Rested]
    /\ UNCHANGED <<conn_gen, dialing, dial, wedged, blamed, replaced>>

-----------------------------------------------------------------------------
(* The dial, in a task of its own.                                         *)
DialGoes(d, pc) == dial' = [dial EXCEPT ![d] = pc]
DialChecks(d) ==
    /\ dial[d] = "check"
    /\ DialGoes(d, IF conn = NoConn THEN "dial" ELSE "clear")
    /\ UNCHANGED <<conn, conn_gen, dialing, caller, wedged, blamed, dropped, replaced>>

DialSucceeds(d) ==
    /\ dial[d] = "dial" /\ conn_gen < MaxGen
    /\ conn_gen' = conn_gen + 1
    /\ conn' = conn_gen + 1
    /\ replaced' = (replaced \/ conn # NoConn)
    /\ DialGoes(d, "clear")
    /\ UNCHANGED <<dialing, caller, wedged, blamed, dropped>>
DialFails(d) ==
    /\ dial[d] = "dial"
    /\ DialGoes(d, "clear")
    /\ UNCHANGED <<conn, conn_gen, dialing, caller, wedged, blamed, dropped, replaced>>

DialClears(d) ==
    /\ dial[d] = "clear"
    /\ dialing' = FALSE
    /\ DialGoes(d, "notify")
    /\ UNCHANGED <<conn, conn_gen, caller, wedged, blamed, dropped, replaced>>

(* Whom a notification reaches: a caller registers before it looks.        *)
RegisteredOnceWaiting == {"waiting"}
Registered == {"look", "start", "parking", "waiting"}
(* notify_waiters: everyone registered, and nobody who registers later.    *)
DialNotifies(d) ==
    /\ dial[d] = "notify"
    /\ DialGoes(d, "off")
    /\ caller' = [c \in Callers |-> IF caller[c].pc \in Registered
                                    THEN [caller[c] EXCEPT !.woken = TRUE] ELSE caller[c]]
    /\ UNCHANGED <<conn, conn_gen, dialing, wedged, blamed, dropped, replaced>>

(* The socket stops answering.                                             *)
Wedges ==
    /\ conn # NoConn /\ wedged' = wedged \cup {conn}
    /\ UNCHANGED <<conn, conn_gen, dialing, dial, caller, blamed, dropped, replaced>>

-----------------------------------------------------------------------------
ConnInit ==
    /\ conn = NoConn /\ conn_gen = 0 /\ dialing = FALSE /\ dial = [d \in Dials |-> "off"]
    /\ caller = [c \in Callers |-> Rested] /\ wedged = {} /\ blamed = {} /\ dropped = {}
    /\ replaced = FALSE
CallerStep(c) ==
    \/ Register(c) \/ Look(c) \/ StartDial(c) \/ Park(c) \/ Waited(c) \/ Answered(c) \/ TimesOut(c)
    \/ GivesUpWaiting(c) \/ DropConn(c)
DialStep(d) == DialChecks(d) \/ DialSucceeds(d) \/ DialFails(d) \/ DialClears(d) \/ DialNotifies(d)
ConnNext ==
    \/ \E c \in Callers : CallerStep(c)
    \/ \E d \in Dials : DialStep(d)
    \/ Wedges
ConnSpec == ConnInit /\ [][ConnNext]_connVars

-----------------------------------------------------------------------------
(* A connection leaves use only because a command timed out on that very   *)
(* connection: callers giving up on a dead one destroy no newer one, and   *)
(* no dial writes over one in use.                                         *)
OnlyTheBlamedDropped == dropped \subseteq blamed /\ ~ replaced

(* Nobody waits for a dial that is not there: a caller that found no       *)
(* connection has a dial under way, or has been told that one ended.       *)
NoLostWakeup == \A c \in Callers : caller[c].pc \in {"parking", "waiting"} /\ ~ caller[c].woken =>
        \E d \in Dials : dial[d] # "off"

(* The connection to Redis heals: what is dropped was at fault, and nobody *)
(* is left waiting for a dial that has ended.                              *)
ConnectionHeals == OnlyTheBlamedDropped /\ NoLostWakeup
=============================================================================
