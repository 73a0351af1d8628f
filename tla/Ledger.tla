------------------------------- MODULE Ledger -------------------------------
(***************************************************************************)
(* The usage ledger and the spend counters that stand for it.  A request   *)
(* is let through on the counters as they were when it was planned, and is *)
(* paid for when it has been answered, by one statement that appends the   *)
(* row and debits the key (for life), its principal and its route (for the *)
(* month).  now() is the statement's start, so a debit begun before the    *)
(* month turned may be applied after the new month's first.  A replica of  *)
(* the previous release appends rows without moving the monthly counters;  *)
(* a pass repairs them one row at a time.  The reports read the ledger.    *)
(***************************************************************************)
EXTENDS Integers, Sequences, FiniteSets, FiniteSetsExt

CONSTANTS
    Workers,     \* requests that may be in flight at once
    Calls,       \* what a call may turn out to be: [model, flat, served, price]
    Limit,       \* Meters -> the cap, or NoLimit
    HardStop,    \* the principal's hard_stop_multiple
    MonthLength, \* ticks in a month
    Length,      \* rolling window -> its length in ticks
    References,  \* points reference prices
    MaxRows, MaxPrevious, MaxNow  \* bounds of the instance: rows, of them the previous release's, ticks

Meters == {"key", "principal", "route"}
Monthly == {"principal", "route"}
NoLimit == -1
NoMonth == -1
Rolling == DOMAIN Length

(* Prices are whole numbers and calls of finitely many kinds; "month" is   *)
(* the calendar's, and no rolling window.                                  *)
ASSUME LedgerConstants ==
    /\ MonthLength \in Nat \ {0} /\ HardStop \in Nat /\ MaxRows \in Nat /\ MaxPrevious \in Nat /\ MaxNow \in Nat
    /\ Limit \in [Meters -> Nat \cup {NoLimit}]
    /\ IsFiniteSet(Workers) /\ IsFiniteSet(Calls) /\ Calls # {} /\ \A call \in Calls : call.price \in Nat
    /\ IsFiniteSet(Rolling) /\ Rolling # {} /\ "month" \notin Rolling /\ \A w \in Rolling : Length[w] \in Nat
    /\ References \subseteq Nat

VARIABLES
    now,      \* the database's clock
    rows,     \* usage_event, in the order the rows were committed
    counter,  \* spent_usd and spent_month of each meter
    work,     \* each request in flight: how far it is, and what it read
    pass      \* the reconcile pass: the rows it has left, the one it holds

ledgerVars == <<now, rows, counter, work, pass>>

MonthOf(t) == t \div MonthLength
MonthStart(t) == MonthOf(t) * MonthLength

SumOver(S, f) == MapThenSumSet(LAMBDA x : f[x], S)
Cost == [i \in DOMAIN rows |-> rows[i].cost]
Since(t) == {i \in DOMAIN rows : rows[i].at >= t}

(* A call on a flat-rate seat costs nothing; one nobody was served earns   *)
(* no list price.                                                          *)
UsageWrite(call, by) ==
    [cost |-> IF call.flat THEN 0 ELSE call.price, list |-> IF call.served THEN call.price ELSE 0,
     served |-> call.served, model |-> call.model, by |-> by]

(***************************************************************************)
(* The caps.                                                               *)
(***************************************************************************)
Wall(m) == Limit[m] * (IF m = "principal" /\ HardStop > 1 THEN HardStop ELSE 1)

Pressure(m, spent) ==
    CASE Limit[m] = NoLimit -> "normal"
      [] Limit[m] # NoLimit /\ (Limit[m] <= 0 \/ spent >= Wall(m)) -> "exhausted"
      [] Limit[m] > 0 /\ spent < Wall(m) /\ 10 * spent >= 8 * Limit[m] -> "constrained"
      [] OTHER -> "normal"

(* A month that has rolled over reads as zero until something is written.  *)
Spend(m) == IF m = "key" \/ counter[m].month = MonthOf(now) THEN counter[m].spent ELSE 0

-----------------------------------------------------------------------------
LedgerInit ==
    /\ now = 0
    /\ rows = <<>>
    /\ counter = [m \in Meters |-> [spent |-> 0, month |-> NoMonth]]
    /\ work = [w \in Workers |-> [pc |-> "idle"]]
    /\ pass = [pc |-> "idle"]

(* Time passes; requests in flight and statements under way see it pass.   *)
Tick ==
    /\ now < MaxNow
    /\ now' = now + 1
    /\ UNCHANGED <<rows, counter, work, pass>>

(* policy_for reads the route with its spend, then the key's and the       *)
(* principal's spend in a second query.                                    *)
ReadRoute(w) ==
    /\ work[w].pc = "idle"
    /\ Len(rows) < MaxRows
    /\ work' = [work EXCEPT ![w] = [pc |-> "planning", full |-> Pressure("route", Spend("route")) = "exhausted"]]
    /\ UNCHANGED <<now, rows, counter, pass>>

(* A spend figure kept from when the process first saw the caller.         *)
DecideOnStale(w) ==
    /\ work[w].pc = "planning"
    /\ LET exhausted == \E m \in Meters : Pressure(m, 0) = "exhausted"
       IN work' = [work EXCEPT ![w] = [pc |-> IF exhausted THEN "idle" ELSE "serving"]]
    /\ UNCHANGED <<now, rows, counter, pass>>

(* spend_for, then decide: a request past any cap's wall is refused.       *)
Decide(w) ==
    /\ work[w].pc = "planning"
    /\ LET exhausted == \/ work[w].full
                        \/ \E m \in {"key", "principal"} : Pressure(m, Spend(m)) = "exhausted"
       IN work' = [work EXCEPT ![w] = [pc |-> IF exhausted THEN "idle" ELSE "serving"]]
    /\ UNCHANGED <<now, rows, counter, pass>>

(* The answer is in, and its row's statement begins: now() is fixed here.  *)
Begin(w) ==
    /\ work[w].pc = "serving"
    /\ \E call \in Calls : work' = [work EXCEPT ![w] =
                               [pc |-> "writing", at |-> now, row |-> UsageWrite(call, "gateway")]]
    /\ UNCHANGED <<now, rows, counter, pass>>

DebitedByEquality(c, at, cost) ==
    [spent |-> IF c.month = MonthOf(at) THEN c.spent + cost ELSE cost, month |-> MonthOf(at)]

(* The monthly half of a debit: the month only moves forward.              *)
Debited(c, at, cost) ==
    [spent |-> IF c.month >= MonthOf(at) THEN c.spent + cost ELSE cost,
     month |-> IF c.month >= MonthOf(at) THEN c.month ELSE MonthOf(at)]

Stamped(row, at) ==
    [cost |-> row.cost, list |-> row.list, served |-> row.served, model |-> row.model, by |-> row.by,
     at |-> at, done |-> now]
Append1(row, at) == rows' = Append(rows, Stamped(row, at))

(* The meter whose row the reconcile pass has locked.                      *)
Holding == IF pass.pc \in {"locked", "summed"} THEN {pass.row} ELSE {}

(* record_usage commits: the row and the three debits are one fact, and    *)
(* each meter's row lock has to be free.                                   *)
RecordUsage(w) ==
    /\ work[w].pc = "writing"
    /\ Holding = {}
    /\ Len(rows) < MaxRows
    /\ Append1(work[w].row, work[w].at)
    /\ counter' = [m \in Meters |->
                      IF m = "key" THEN [counter[m] EXCEPT !.spent = @ + work[w].row.cost]
                                   ELSE Debited(counter[m], work[w].at, work[w].row.cost)]
    /\ work' = [work EXCEPT ![w] = [pc |-> "idle"]]
    /\ UNCHANGED <<now, pass>>

(* The write failed: logged, and neither the row nor a debit happened.     *)
RecordFails(w) ==
    /\ work[w].pc = "writing"
    /\ work' = [work EXCEPT ![w] = [pc |-> "idle"]]
    /\ UNCHANGED <<now, rows, counter, pass>>

(* A replica of the previous release: the row and the key's debit only.    *)
PreviousRelease ==
    /\ Len(rows) < MaxRows
    /\ Cardinality({i \in DOMAIN rows : rows[i].by = "previous"}) < MaxPrevious
    /\ \E call \in Calls : LET row == UsageWrite(call, "previous")
                           IN /\ Append1(row, now)
                              /\ counter' = [counter EXCEPT !["key"].spent = @ + row.cost]
    /\ UNCHANGED <<now, work, pass>>

(***************************************************************************)
(* reconcile_monthly_spend: principals, then routes; budgeted rows only;   *)
(* one transaction per row, which fixes its now() before it waits for the  *)
(* row's lock and sums the ledger after it has it.                         *)
(***************************************************************************)
Budgeted == LET listed(m) == IF Limit[m] # NoLimit THEN <<m>> ELSE <<>> IN listed("principal") \o listed("route")

ReconcileStarts ==
    /\ pass.pc = "idle"
    /\ Budgeted # <<>>
    /\ pass' = [pc |-> "listed", left |-> Budgeted]
    /\ UNCHANGED <<now, rows, counter, work>>

ReconcileBegins ==
    /\ pass.pc = "listed"
    /\ pass' = [pc |-> "begun", at |-> now, row |-> Head(pass.left), left |-> Tail(pass.left)]
    /\ UNCHANGED <<now, rows, counter, work>>

MonthSum(t) == SumOver(Since(MonthStart(t)), Cost)

ReconcileLocks ==
    /\ pass.pc = "begun"
    /\ pass' = [pc |-> "locked", at |-> pass.at, row |-> pass.row, left |-> pass.left]
    /\ UNCHANGED <<now, rows, counter, work>>

(* The rewrite takes its snapshot, and the sum with it, once it has begun; *)
(* what is written afterwards is that sum.                                 *)
ReconcileSums ==
    /\ pass.pc = "locked"
    /\ pass' = [pc |-> "summed", at |-> pass.at, row |-> pass.row, left |-> pass.left, sum |-> MonthSum(pass.at)]
    /\ UNCHANGED <<now, rows, counter, work>>

ReconcileRewrites ==
    /\ pass.pc = "summed"
    /\ counter' = IF counter[pass.row].month > MonthOf(pass.at) THEN counter
                  ELSE [counter EXCEPT ![pass.row] = [spent |-> pass.sum, month |-> MonthOf(pass.at)]]
    /\ pass' = IF pass.left = <<>> THEN [pc |-> "idle"] ELSE [pc |-> "listed", left |-> pass.left]
    /\ UNCHANGED <<now, rows, work>>

(* Any statement of the pass may fail: it is logged and the next tick      *)
(* starts again from the first row.                                        *)
ReconcileFails ==
    /\ pass.pc # "idle"
    /\ pass' = [pc |-> "idle"]
    /\ UNCHANGED <<now, rows, counter, work>>

Reconcile == ReconcileStarts \/ ReconcileBegins \/ ReconcileLocks \/ ReconcileSums \/ ReconcileRewrites

LedgerNext ==
    \/ Tick
    \/ \E w \in Workers : ReadRoute(w) \/ Decide(w) \/ Begin(w) \/ RecordUsage(w) \/ RecordFails(w)
    \/ PreviousRelease
    \/ Reconcile
    \/ ReconcileFails

LedgerSpec == LedgerInit /\ [][LedgerNext]_ledgerVars

(***************************************************************************)
(* The reports.                                                            *)
(***************************************************************************)
SinceOf(window) == IF window = "month" THEN MonthStart(now) ELSE now - Length[window]
FirstOfNextMonth == MonthStart(now) + MonthLength

FreesAt(window) ==
    IF window = "month" THEN {FirstOfNextMonth}
    ELSE LET inside == {rows[i].at : i \in Since(SinceOf(window))}
         IN IF inside = {} THEN {} ELSE {Min(inside) + Length[window]}

(* Points: each row's list price over the reference, rounded half up.  No  *)
(* reference is no figure, never zero.                                     *)
NoReference == 0
NoPoints == -1
Points(S, ref) ==
    IF ref = NoReference THEN NoPoints ELSE SumOver(S, [i \in S |-> (2 * rows[i].list + ref) \div (2 * ref)])

(* key_usage joins the ledger once, from the earlier of the month's start  *)
(* and the longest rolling window's, and filters each figure out of that.  *)
LongestSince == now - Max({Length[w] : w \in Rolling})
Joined == Since(IF MonthStart(now) < LongestSince THEN MonthStart(now) ELSE LongestSince)

Served(S) == {i \in S : rows[i].served}

KeyUsage(window, ref) ==
    LET inside == {i \in Joined : rows[i].at >= SinceOf(window)}
    IN [cost |-> SumOver(inside, Cost), requests |-> Cardinality(Served(inside)), points |-> Points(inside, ref)]

(* key_usage_by_model: one line for each model used in the window.         *)
ModelUsage(window, ref, model) ==
    LET inside == {i \in Since(SinceOf(window)) : rows[i].model = model}
    IN [cost |-> SumOver(inside, Cost), requests |-> Cardinality(Served(inside)),
        points |-> Points(inside, ref), attempts |-> Cardinality(inside)]

PrincipalPoints(window, ref) ==
    LET inside == Since(SinceOf(window)) IN
    [points |-> Points(inside, ref), total |-> SumOver(inside, Cost),
     unbilled |-> SumOver(inside \ Served(inside), Cost), unserved |-> Cardinality(inside \ Served(inside))]

(* A pool is asked for by its keys, named twice or never used as they may  *)
(* be; the model's rows are all of one key.                                *)
PoolPoints(keys, window, ref) ==
    LET named == {keys[k] : k \in DOMAIN keys}
    IN SumOver(named, [key \in named |-> IF key = "key" THEN Points(Since(SinceOf(window)), ref) ELSE 0])

(* The admin replies: a window's lines by model; the pool's and the        *)
(* principal's points, refused while no reference price is set.            *)
KeyUsageModels(window, ref) ==
    [model \in {rows[i].model : i \in Since(SinceOf(window))} |-> ModelUsage(window, ref, model)]

PrincipalReply(window, ref) == IF ref = NoReference THEN {} ELSE {PrincipalPoints(window, ref)}

PoolReply(keys, window, ref) == IF ref = NoReference THEN {} ELSE {PoolPoints(keys, window, ref)}

PrincipalUsage == [cost |-> MonthSum(now), requests |-> Cardinality(Served(Since(MonthStart(now))))]

-----------------------------------------------------------------------------
(***************************************************************************)
(* Properties.                                                             *)
(***************************************************************************)
ByGateway(S) == {i \in S : rows[i].by = "gateway"}

(* What a cap is checked against is never behind the rows this release has *)
(* written: no debit is lost to a debit begun in the month before, nor to  *)
(* a reconcile pass running beside it.  And no row is counted twice: a     *)
(* counter holds at most what was committed since its month began.         *)
CountersTrackLedger ==
    /\ counter["key"].spent = SumOver(DOMAIN rows, Cost)
    /\ \A m \in Monthly :
          /\ SumOver(ByGateway(Since(MonthStart(now))), Cost) <= Spend(m)
          /\ counter[m].spent <= SumOver({i \in DOMAIN rows : MonthOf(rows[i].done) >= counter[m].month}, Cost)

Dearest == Max({UsageWrite(call, "gateway").cost : call \in Calls})

(* A cap is overshot by no more than the requests in flight when it was    *)
(* reached, month after month, whatever order they are paid for in.        *)
OvershootBounded ==
    \A m \in Meters : Limit[m] > 0 =>
        \A k \in 0 .. MonthOf(now) :
            SumOver({i \in ByGateway(DOMAIN rows) : m = "key" \/ MonthOf(rows[i].at) = k}, Cost)
                <= Wall(m) - 1 + Cardinality(Workers) * Dearest

(* Every report tells the same story of a window: the key's figures are    *)
(* its models' added up and the principal's, points included, since they   *)
(* are rounded request by request; what was paid for and served to nobody  *)
(* is money and no request; and a rolling window keeps every row it counts *)
(* until the instant it says it frees up, and loses one right after.       *)
(* (A report reads the clock and the rows, and no pass changes either, so  *)
(* it is enough to ask between passes.)                                    *)
ReportsAgree ==
    pass.pc = "idle" => \A ref \in References \cup {NoReference} : \A window \in Rolling \cup {"month"} :
        LET key == KeyUsage(window, ref)
            lines == KeyUsageModels(window, ref)
        IN /\ key.cost = SumOver(DOMAIN lines, [model \in DOMAIN lines |-> lines[model].cost])
           /\ \A principal \in PrincipalReply(window, ref) :
                 /\ key.cost = principal.total
                 /\ key.points = principal.points
                 /\ key.points = SumOver(DOMAIN lines, [model \in DOMAIN lines |-> lines[model].points])
                 /\ key.requests + principal.unserved = SumOver(DOMAIN lines, [model \in DOMAIN lines |-> lines[model].attempts])
           /\ PoolReply(<<"key", "unused", "key">>, window, ref) = IF ref = NoReference THEN {} ELSE {key.points}
           /\ ref = NoReference => key.points = NoPoints /\ \A model \in DOMAIN lines : lines[model].points = NoPoints
           /\ window = "month" => key.cost = PrincipalUsage.cost /\ key.requests = PrincipalUsage.requests
           /\ \A f \in FreesAt(window) : window \in Rolling =>
                 /\ \A t \in now .. f : Since(t - Length[window]) = Since(SinceOf(window))
                 /\ Since(f + 1 - Length[window]) # Since(SinceOf(window))

\* The three accounts of what was spent agree: the ledger, the counters that
\* budgets are read from, and the reports.
LedgerAgrees == CountersTrackLedger /\ ReportsAgree
=============================================================================
