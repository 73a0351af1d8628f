------------------------------ MODULE MCLedger ------------------------------
(***************************************************************************)
(* Three parts that share no state, one after the other: the counters, the *)
(* importer and the reporting periods.  Part says which one is being run.  *)
(***************************************************************************)
EXTENDS Ledger, Imports, Periods

VARIABLE part

\* A metered call served, a dearer one nobody was served, one on a flat-rate seat.
MCCalls == {[flat |-> FALSE, served |-> TRUE, price |-> 1, model |-> 1],
            [flat |-> FALSE, served |-> FALSE, price |-> 2, model |-> 2],
            [flat |-> TRUE, served |-> TRUE, price |-> 1, model |-> 2]}
MCLimit == [key |-> 4, principal |-> 1, route |-> NoLimit]
MCLength == [day |-> 1, week |-> 2]
Swap == Permutations(Workers)

\* Calls a1 and a2 of session "a", resumed in file "f" (whose lines lost their
\* session id); b1 of another session, with a1's token counts.
Call(id, session, at, shape, big, slug, model, native, via, metered) ==
    [id |-> id, session |-> session, at |-> at, shape |-> shape, big |-> big, slug |-> slug, model |-> model,
     native |-> native, via |-> via, metered |-> metered]
Line(file, session, call) == [file |-> file, session |-> session, call |-> call]
MCCatalog == <<[id |-> "p/m", upstream |-> "m", tail |-> "m"], [id |-> "p/n", upstream |-> "q", tail |-> "n"],
               [id |-> "p/q", upstream |-> "r", tail |-> "q"]>>
MCAccounts == [seat |-> TRUE]
Claude(via, big, metered, native) ==
    LET a1 == Call("1", "a", 2, "x", big, "m", "p/m", TRUE, via, metered)
        a2 == Call("2", "a", 3, "y", FALSE, "q", "p/n", native, via, metered)
        b1 == Call("3", "b", 6, "x", TRUE, "r", "p/q", TRUE, "direct", FALSE)
    IN [source |-> "claude", calls |-> {a1, a2, b1}, cutoff |-> 5, never |-> 99,
        lines |-> <<Line("a", "a", a1), Line("a", "a", a2), Line("f", "", a1), Line("f", "", a2),
                    Line("b", "b", b1)>>]
\* The small call of a proxied session copied alone into a file of its own.
Copied ==
    LET h == Claude("gateway", TRUE, TRUE, TRUE)
    IN [h EXCEPT !.lines = SelectSeq(@, LAMBDA l : l.file # "f" \/ ~ l.call.big)]
Grok(via) ==
    LET a1 == Call("1", "a", 2, "x", TRUE, "m", "p/m", FALSE, via, TRUE)
        b1 == Call("1", "b", 6, "y", TRUE, "m", "p/m", FALSE, "direct", FALSE)
    IN [source |-> "grok", calls |-> {a1, b1}, cutoff |-> 5, never |-> 99,
        lines |-> <<Line("a", "a", a1), Line("b", "b", b1), Line("a", "a", a1)>>]
MCHistories == {Claude(via, big, metered, native) : via \in {"gateway", "direct"}, big \in BOOLEAN,
                                                    metered \in BOOLEAN, native \in BOOLEAN}
               \cup {Copied, Grok("gateway"), Grok("direct")}

MCDays == <<3, 2>>
MCOffsets == {-1, 1}

\* A part not being run stays where it would start.
LedgerIdle == LedgerInit
ImportIdle == history = Grok("direct") /\ ledger = {} /\ run = [i \in Importers |-> [pc |-> "idle"]] /\ started = MaxRuns
PeriodIdle == asked = DayTicks /\ zone = 1 /\ created = 7
              /\ query = [period |-> "all", from |-> None, to |-> None, days |-> None] /\ other = query

Init ==
    \/ part = "ledger" /\ LedgerInit /\ ImportIdle /\ PeriodIdle
    \/ part = "import" /\ LedgerIdle /\ ImportInit /\ PeriodIdle
    \/ part = "period" /\ LedgerIdle /\ ImportIdle /\ PeriodInit

Next ==
    /\ UNCHANGED part
    /\ \/ part = "ledger" /\ LedgerNext /\ UNCHANGED <<importVars, periodVars>>
       \/ part = "import" /\ ImportNext /\ UNCHANGED <<ledgerVars, periodVars>>
       \/ part = "period" /\ PeriodNext /\ UNCHANGED <<ledgerVars, importVars>>

Spec == Init /\ [][Next]_<<part, ledgerVars, importVars, periodVars>>
=============================================================================
