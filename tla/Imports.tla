------------------------------- MODULE Imports -------------------------------
(***************************************************************************)
(* oag admin usage import: a CLI's own session files are read into the     *)
(* ledger as rows the gateway never saw.  A file says nothing of where the *)
(* calls went, so a session is judged by evidence: a model its provider    *)
(* does not serve, or a gateway row with the same token counts (Claude     *)
(* Code), or the gateway having served the provider at the time (Grok).    *)
(* Rows are written in batches outside any transaction, by runs that may   *)
(* be killed, repeated, or race each other, and may be reverted.           *)
(***************************************************************************)
EXTENDS Integers, Sequences, FiniteSets, FiniteSetsExt, SequencesExt

CONSTANTS
    Histories,   \* what may have happened: [source, calls, lines]
    Accounts,    \* credentials an import may be attributed to: name -> flat rate?
    Catalog,     \* the provider's models in catalogue order: [id, upstream, tail]
    LedgerSlack, \* LEDGER_SLACK
    WriteBatch,  \* WRITE_BATCH
    MaxRuns      \* bound: imports and reverts started

Importers == {1, 2}
NoAccount == "none"

VARIABLES
    history,   \* the calls made, and the session files they left
    ledger,    \* usage_event rows with an origin
    run,       \* each import command under way
    started    \* commands started so far

importVars == <<history, ledger, run, started>>

(***************************************************************************)
(* A call is [id, session, at, shape, big, slug, model, native, via]: via  *)
(* is "gateway", "direct" or "elsewhere" (a gateway with another ledger).  *)
(* A line is [file, session, call]; a session of "" is a line without one. *)
(***************************************************************************)
Global(source) == source = "claude"

(* Lines fold into sessions by their session id, or their file's name, and *)
(* into messages by id: the last line read wins.                           *)
SessionOf(line) == IF line.session = "" THEN line.file ELSE line.session

Sessions(lines) == {SessionOf(lines[i]) : i \in DOMAIN lines}

Messages(lines, session) ==
    LET mine == {i \in DOMAIN lines : SessionOf(lines[i]) = session}
    IN {lines[i].call : i \in {i \in mine : \A j \in mine : lines[j].call.id = lines[i].call.id => j <= i}}

WindowOf(messages) == [from |-> Min({m.at : m \in messages}), to |-> Max({m.at : m \in messages})]

(***************************************************************************)
(* judge.  The ledger index holds the rows the gateway itself served.      *)
(***************************************************************************)
GatewayRows == {r \in ledger : r.origin = "gateway"}

Near(w, t) == w.from - LedgerSlack <= t /\ t <= w.to + LedgerSlack

SeenBetween(m, w) == \E r \in GatewayRows : r.shape = m.shape /\ Near(w, r.at)
ServedBetween(w) == \E r \in GatewayRows : r.provider /\ Near(w, r.at)

Judge(source, messages, before) ==
    LET w == WindowOf(messages) IN
    CASE w.to >= before -> "after cutoff"
      [] w.to < before /\ source = "claude" /\ \E m \in messages : ~m.native -> "foreign model"
      [] w.to < before /\ source = "claude" /\ \A m \in messages : m.native ->
            IF \E m \in messages : m.big /\ SeenBetween(m, w) THEN "already in ledger" ELSE "import"
      [] w.to < before /\ source = "grok" -> IF ServedBetween(w) THEN "gateway active" ELSE "import"

(* Catalogue names: a spelling two models answer to prices neither.        *)
Answering(slug) == {k \in DOMAIN Catalog : slug \in {Catalog[k].upstream, Catalog[k].id, Catalog[k].tail}}
Price(slug) == IF Cardinality(Answering(slug)) = 1 THEN {Catalog[k].id : k \in Answering(slug)} ELSE {}

(* A row's identity: the message, and the session where the message's id   *)
(* is not known to be unique outside it.                                   *)
SourceRefWithSession(source, session, m) == <<source, session, m.id>>
SourceRef(source, session, m) == IF Global(source) THEN <<source, m.id>> ELSE <<source, session, m.id>>

Pending(source, session, m) ==
    [ref |-> SourceRef(source, session, m), at |-> m.at, shape |-> m.shape, listed |-> Price(m.slug), call |-> m]

PlannedRows(before) ==
    LET lines == history.lines
        taken == {s \in Sessions(lines) : Judge(history.source, Messages(lines, s), before) = "import"}
    IN UNION {{Pending(history.source, s, m) : m \in Messages(lines, s)} : s \in taken}

(***************************************************************************)
(* Commands.                                                               *)
(***************************************************************************)
GatewayServed(h) ==
    {[origin |-> "gateway", at |-> c.at, shape |-> c.shape, provider |-> TRUE, call |-> c] :
        c \in {c \in h.calls : c.via = "gateway" /\ c.metered}}

(***************************************************************************)
(* What may be relied on in a history.  Every line is of a call that was   *)
(* made; a call's slug is a spelling of the model that answered, if it is  *)
(* any catalogued model's.  Claude Code's message ids are the provider's   *)
(* own and name one call wherever they stand; every Grok record carries    *)
(* its session's id.                                                       *)
(***************************************************************************)
Sayable(h) ==
    /\ h.source \in {"claude", "grok"}
    /\ h.cutoff \in Int /\ h.never \in Int
    /\ Len(h.lines) \in Nat /\ DOMAIN h.lines = 1 .. Len(h.lines)
    /\ \A i \in DOMAIN h.lines : h.lines[i].call \in h.calls
    /\ \A c \in h.calls :
          c.at \in Int /\ (Answering(c.slug) # {} => \E k \in Answering(c.slug) : Catalog[k].id = c.model)
    /\ h.source = "claude" => \A i, j \in DOMAIN h.lines :
          h.lines[i].call.id = h.lines[j].call.id => h.lines[i].call = h.lines[j].call
    /\ h.source = "grok" => \A i \in DOMAIN h.lines : SessionOf(h.lines[i]) = h.lines[i].call.session

ASSUME ImportAssumption ==
    /\ WriteBatch \in Nat \ {0} /\ LedgerSlack \in Nat
    /\ IsFiniteSet(DOMAIN Catalog)
    /\ \A h \in Histories : Sayable(h)

ImportInit ==
    /\ history \in Histories
    /\ ledger = GatewayServed(history)
    /\ run = [i \in Importers |-> [pc |-> "idle"]]
    /\ started = 0

(* import: the files are scanned, the ledger read, and the plan drawn up.  *)
Import(i) ==
    /\ run[i].pc = "idle"
    /\ started < MaxRuns
    /\ started' = started + 1
    /\ \E account \in {NoAccount} \cup DOMAIN Accounts, before \in {history.cutoff, history.never} :
          run' = [run EXCEPT ![i] = [pc |-> "writing", account |-> account, before |-> before,
                                     left |-> SetToSeq(PlannedRows(before))]]
    /\ UNCHANGED <<history, ledger>>

Booked(row, account) ==
    [origin |-> history.source, ref |-> row.ref, at |-> row.at, shape |-> row.shape, provider |-> FALSE,
     account |-> account, call |-> row.call, listed |-> row.listed,
     free |-> account # NoAccount /\ account \in {a \in DOMAIN Accounts : Accounts[a]}]

(* ON CONFLICT DO NOTHING: a row whose source_ref is there is left alone.  *)
Insert(batch, account) ==
    ledger \cup {Booked(row, account) : row \in {row \in batch :
                     \A r \in ledger : r.origin = "gateway" \/ r.ref # row.ref}}

WriteOne(i) ==
    /\ run[i].pc = "writing"
    /\ run[i].left # <<>>
    /\ LET n == Min({WriteBatch, Len(run[i].left)})
           batch == {run[i].left[k] : k \in 1 .. n}
       IN /\ ledger' = Insert(batch, run[i].account)
          /\ run' = [run EXCEPT ![i].left = SubSeq(@, n + 1, Len(@))]
    /\ UNCHANGED <<history, started>>

Finish(i) ==
    /\ run[i].pc = "writing"
    /\ run[i].left = <<>>
    /\ run' = [run EXCEPT ![i] = [pc |-> "done", before |-> @.before]]
    /\ UNCHANGED <<history, ledger, started>>

(* The command is killed, or a batch fails: what was written stays.        *)
Dies(i) ==
    /\ run[i].pc = "writing"
    /\ run' = [run EXCEPT ![i] = [pc |-> "idle"]]
    /\ UNCHANGED <<history, ledger, started>>

(* revert: one origin, one account or all of it.  Whatever imports had     *)
(* finished have to be run again.                                          *)
Revert ==
    /\ started < MaxRuns
    /\ started' = started + 1
    /\ \E account \in {NoAccount} \cup DOMAIN Accounts :
          ledger' = {r \in ledger : r.origin = "gateway" \/ (account # NoAccount /\ r.account # account)}
    /\ run' = [i \in Importers |-> IF run[i].pc = "done" THEN [pc |-> "idle"]
                                   ELSE IF run[i].pc = "writing" THEN [run[i] EXCEPT !.pc = "overtaken"] ELSE run[i]]
    /\ UNCHANGED history

(* An import a revert overtook goes on writing.                            *)
WriteOvertaken(i) ==
    /\ run[i].pc = "overtaken"
    /\ ledger' = Insert({run[i].left[k] : k \in 1 .. Min({WriteBatch, Len(run[i].left)})}, run[i].account)
    /\ LET todo == run[i].left
       IN run' = [run EXCEPT ![i] = IF Len(todo) <= WriteBatch THEN [pc |-> "idle"]
                                    ELSE [run[i] EXCEPT !.left = SubSeq(todo, WriteBatch + 1, Len(todo))]]
    /\ UNCHANGED <<history, started>>

ImportNext ==
    \/ \E i \in Importers : Import(i) \/ WriteOne(i) \/ Finish(i) \/ Dies(i) \/ WriteOvertaken(i)
    \/ Revert

ImportSpec == ImportInit /\ [][ImportNext]_importVars

-----------------------------------------------------------------------------
Imported == {r \in ledger : r.origin # "gateway"}

(* Every session that holds the call has a large message the gateway       *)
(* metered.  One that does not, as where a file without session ids holds  *)
(* a copy of the small calls alone, cannot be told from a direct session.  *)
Recognisable(c) ==
    \/ history.source = "grok"
    \/ \A s \in Sessions(history.lines) : c \in Messages(history.lines, s) =>
          \E d \in Messages(history.lines, s) : d.big /\ d.via = "gateway" /\ d.metered

(* No call is in the ledger twice: not by being in two files or under two  *)
(* sessions, not by an import killed half way and run again, by two runs   *)
(* at once or on another account; and not next to the row the gateway      *)
(* wrote for it, as long as some message of each session that holds it is  *)
(* large enough to be recognised.                                          *)
CalledOnce ==
    /\ \A r, s \in Imported : r.call = s.call => r = s
    /\ \A r \in Imported : r.call.via = "gateway" /\ r.call.metered => ~Recognisable(r.call)
    /\ \A r \in Imported : r.call.native \/ history.source = "grok"

(* An import that ran to its end has booked every call of every session it *)
(* took, whoever else was importing: two turns that share a prompt id are  *)
(* two rows.  What a row is priced as is the model that answered.          *)
ImportComplete ==
    /\ \A i \in Importers : run[i].pc = "done" =>
          \A row \in PlannedRows(run[i].before) : \E r \in Imported : r.call = row.call
    /\ \A r \in Imported : r.listed \subseteq {r.call.model}

\* An import, however often it is run or cut short, leaves every call that went past
\* the gateway in the ledger once, at its model's price.
ImportsExact == CalledOnce /\ ImportComplete
=============================================================================
