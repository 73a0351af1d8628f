-------------------------------- MODULE Streaming --------------------------------
(***************************************************************************)
(* One answer on its way from the upstream to the client: `pump` for a      *)
(* streamed one, `collect` for a whole body and `collect_stream` for an     *)
(* upstream that streams though the client wants a body (gateway/sse.rs),   *)
(* with the codecs of Dialects on both sides.                               *)
(*                                                                          *)
(* The upstream is external: it plays any answer its dialect can express,   *)
(* and may stall, ping, break a frame across reads, fail in band or close   *)
(* early.  The client takes what it is sent, stops reading or hangs up.     *)
(***************************************************************************)
EXTENDS Dialects, FiniteSets

CONSTANTS MaxItems,   \* bound: items of an answer
          MaxFrags,   \* bound: fragments of an item
          Idle,       \* `Deadlines.idle`, in ticks
          MaxAge      \* `Deadlines.max`, in ticks

ASSUME StreamBounds == {MaxItems, MaxFrags, Idle, MaxAge} \subseteq Nat \ {0}

VARIABLES pair,    \* [up, cl: the dialects; rewrites: tool names were rewritten; mode]
          wire,    \* the upstream: [pc, items, word]
          acc,     \* the accumulator
          evs,     \* the events a collected answer is rendered from
          st,      \* the client's renderer
          pc,      \* "read", "send", "close", "last", "done" or "failed"
          tail,    \* `pending` is not empty: a frame has arrived in part
          out,     \* the frames of the send in progress
          sent,    \* the frames the client has taken, those passed through verbatim left out
          gone,    \* `client_gone`
          inband,  \* `in_band`: an error event came inside the stream
          error,   \* the outcome's `error` is set
          waited, lived,   \* ticks since this wait began, and since the start
          mangled  \* history: which frame of our own was put inside another one

streamVars == <<pair, wire, acc, evs, st, pc, tail, out, sent, gone, inband, error, waited, lived,
                mangled>>

Upstreams == {"anthropic", "chat", "responses", "gemini", "converse"}
Clients == {"anthropic", "chat", "responses", "gemini"}

\* Only the Codex adapter streams whatever the client asked for, and it speaks Responses.
\* Rewritten names matter here only where the dialects agree.
Pairs == {p \in [up : Upstreams, cl : Clients, rewrites : BOOLEAN,
                 mode : {"pump", "collect", "gather"}] :
              /\ p.mode = "gather" => p.up = "responses"
              /\ p.rewrites => p.up = p.cl}

\* Matching dialects, and no name to restore; Converse's framing is not SSE and
\* no client speaks it.
EgressFor(p) == IF p.up = p.cl /\ ~p.rewrites THEN "passthrough" ELSE p.cl
Passthrough == EgressFor(pair) = "passthrough"

--------------------------------------------------------------------------------
(* The upstream.  Which frames may come next, and the answer they belong to.   *)

Sequential(u) == u \in {"anthropic", "responses", "converse"}
Kinds(u) == {"text", "thinking", "call"} \cup (IF u \in {"chat", "responses"} THEN {"refusal"} ELSE {})
CallsOf(items) == OfKind(items, {"call"})
LastOpen(w) == w.items # <<>> /\ Last(w.items).open

\* An answer says something or refuses; a chat message speaks before it calls, and
\* two text items in a row are one.
MayFollow(u, items, kind) ==
    /\ Len(items) < MaxItems
    /\ kind = "refusal" => OfKind(items, {"text", "call", "refusal"}) = <<>>
    /\ kind \in {"text", "call"} => OfKind(items, {"refusal"}) = <<>>
    /\ (u = "chat" /\ kind # "call") => CallsOf(items) = <<>>
    /\ (items # <<>> /\ kind \in {"text", "thinking"}) => Last(items).kind # kind

Item(kind, frags, open) == [kind |-> kind, name |-> "f", frags |-> frags, open |-> open]
Words(u, items) ==
    {"stop", "length", "filter"}
        \cup (IF u \in {"anthropic", "converse"} THEN {"sequence"} ELSE {})
        \cup (IF u \in {"anthropic", "converse", "chat"} /\ CallsOf(items) # <<>> THEN {"tool"} ELSE {})
\* A dialect with a word for it says so when it ends on a call.
EndWords(u, items) ==
    IF "tool" \in Words(u, items) /\ u # "chat" THEN Words(u, items) \ {"stop"} ELSE Words(u, items)

\* A frame, and the answer with what the frame says.
Adding(w, f, items) == [f |-> f, w |-> [w EXCEPT !.items = items]]
OpenFrames(u, w) ==
    {Adding(w, [Frame("open") EXCEPT !.n = Len(w.items) + 1, !.kind = kind, !.name = "f",
                                   !.index = Len(CallsOf(w.items)) + 1],
          Append(w.items, Item(kind, 0, TRUE))) :
     kind \in {k \in Kinds(u) : Sequential(u) /\ ~LastOpen(w) /\ MayFollow(u, w.items, k)}}
DeltaFrames(w) ==
    {Adding(w, [Frame("delta") EXCEPT !.n = m, !.kind = w.items[m].kind, !.x = <<m, w.items[m].frags + 1>>,
                                    !.index = Cardinality({i \in 1..m : w.items[i].kind = "call"})],
          [w.items EXCEPT ![m].frags = @ + 1]) :
     m \in {i \in 1..Len(w.items) :
                /\ w.items[i].open /\ w.items[i].frags < MaxFrags
                /\ (w.items[i].kind = "call" \/ i = Len(w.items))}}
CloseFrames(u, w) ==
    IF Sequential(u) /\ LastOpen(w) /\ Last(w.items).frags > 0
    THEN {Adding(w, [Frame("close") EXCEPT !.n = Len(w.items), !.kind = Last(w.items).kind, !.name = "f"],
               [w.items EXCEPT ![Len(w.items)].open = FALSE])}
    ELSE {}
\* A dialect without blocks: an item begins with its first fragment, and only a call of
\* a chat message may begin without one.
StartFrames(u, w) ==
    {Adding(w, [Frame(IF b.kind = "call" THEN "open" ELSE "delta") EXCEPT
                  !.n = Len(w.items) + 1, !.kind = b.kind, !.name = "f", !.index = Len(CallsOf(w.items)) + 1,
                  !.x = IF b.frags = 0 THEN <<>> ELSE <<Len(w.items) + 1, 1>>],
          Append(w.items, Item(b.kind, b.frags, u # "gemini" \/ b.kind # "call"))) :
     b \in {b \in [kind : Kinds(u), frags : {0, 1}] :
               /\ ~Sequential(u) /\ MayFollow(u, w.items, b.kind)
               /\ b.frags = 0 => u = "chat" /\ b.kind = "call"}}
MoreFrames(u, w) == OpenFrames(u, w) \cup DeltaFrames(w) \cup CloseFrames(u, w) \cup StartFrames(u, w)

\* The answer may end where every item has a fragment.  Chat and Gemini may finish on the
\* chunk that carries the last one.
Endable(items) == items # <<>> /\ \A i \in 1..Len(items) : items[i].frags > 0
EndFrames(u, t) ==
    {[f |-> [t.f EXCEPT !.word = word, !.refused = Refused(t.w.items)],
      w |-> [t.w EXCEPT !.pc = "finished", !.word = word]] :
     word \in {v \in EndWords(u, t.w.items) : Endable(t.w.items)}}
FinishFrames(u, w) ==
    IF Sequential(u) THEN {t \in EndFrames(u, Adding(w, Frame("finish"), w.items)) : ~LastOpen(w)}
    ELSE UNION {EndFrames(u, t) : t \in MoreFrames(u, w) \cup {Adding(w, Frame("finish"), w.items)}}

NextFrames(u, w) ==
    CASE w.pc = "new" -> IF Sequential(u) THEN {[f |-> Frame("start"), w |-> [w EXCEPT !.pc = "answer"]]}
                         ELSE MoreFrames(u, w)
      [] w.pc = "answer" ->
             MoreFrames(u, w) \cup FinishFrames(u, w)
                 \cup {[f |-> Frame("error"), w |-> [w EXCEPT !.pc = "over"]], [f |-> Frame("ping"), w |-> w]}
      [] w.pc = "finished" ->
             IF u \in {"chat", "converse"} THEN {[f |-> Frame("usage"), w |-> [w EXCEPT !.pc = "over"]]} ELSE {}
      [] w.pc = "over" -> {}

\* What the upstream has billed once its answer is whole.
Billed == wire.word # "" /\ (wire.pc = "over" \/ pair.up \notin {"chat", "converse"})

--------------------------------------------------------------------------------
(* The pump. *)

StreamInit ==
    /\ pair \in Pairs
    /\ wire = [pc |-> IF Sequential(pair.up) THEN "new" ELSE "answer", items |-> <<>>, word |-> ""]
    /\ acc = Fresh /\ evs = <<>> /\ st = NewState
    /\ pc = "read" /\ tail = FALSE /\ out = <<>> /\ sent = <<>>
    /\ gone = FALSE /\ inband = FALSE /\ error = FALSE
    /\ waited = 0 /\ lived = 0 /\ mangled = ""

\* The loop is left with an error: `pump` closes, `collect_stream` returns it.
Abandon == error' = TRUE /\ pc' = IF pair.mode = "pump" THEN "close" ELSE "failed"

Around == IF lived >= MaxAge THEN Abandon /\ waited' = waited
          ELSE error' = error /\ pc' = "read" /\ waited' = 0

\* After a chunk: send what there is to send, unless the client is gone.
Forward(frames) ==
    IF frames # <<>> /\ ~gone
    THEN out' = frames /\ pc' = "send" /\ UNCHANGED <<error, waited>>
    ELSE out' = <<>> /\ Around

\* `fold_payloads` and `collect_payloads`: account first, then forward.
FoldPayloads(f) ==
    LET told == ParseEvent(pair.up, f, acc)
    IN  /\ acc' = ObserveAll(Remember(pair.up, f, acc), told)
        /\ IF pair.mode = "gather"
           THEN /\ evs' = evs \o told
                /\ Around /\ UNCHANGED <<st, out, inband>>
           ELSE LET r == RenderAll(pair.cl, told, st)
                IN  /\ inband' = (inband \/ \E j \in 1..Len(told) : told[j].e = "error")
                    /\ evs' = evs
                    /\ st' = IF Passthrough THEN st ELSE r.st
                    /\ Forward(IF Passthrough THEN <<Raw(f)>> ELSE r.out)
ReadsFrame ==
    /\ pc = "read" /\ pair.mode # "collect"
    /\ \E t \in NextFrames(pair.up, wire) :
           /\ wire' = t.w /\ FoldPayloads(t.f)
    /\ tail' = FALSE
    /\ UNCHANGED <<pair, sent, gone, lived, mangled>>

\* A read that ends inside a frame: nothing to fold, and only verbatim bytes go out.
ReadsPart ==
    /\ pc = "read" /\ pair.mode # "collect" /\ ~tail
    /\ NextFrames(pair.up, wire) # {}
    /\ tail' = TRUE
    /\ IF pair.mode = "pump" THEN Forward(IF Passthrough THEN <<Torn>> ELSE <<>>)
       ELSE Around /\ out' = out
    /\ UNCHANGED <<pair, wire, acc, evs, st, sent, gone, inband, lived, mangled>>

\* The body ends: after the answer, or too early.
ReadEnds ==
    /\ pc = "read" /\ pair.mode # "collect"
    /\ pc' = "close"
    /\ UNCHANGED <<pair, wire, acc, evs, st, tail, out, sent, gone, inband, error, waited, lived, mangled>>

\* The read fails, the upstream has been silent for too long, or the frame it has
\* begun passes MAX_PENDING: the pending bytes of that one are thrown away.
ReadFails ==
    /\ pc = "read" /\ pair.mode # "collect"
    /\ Abandon
    /\ UNCHANGED <<pair, wire, acc, evs, st, tail, out, sent, gone, inband, waited, lived, mangled>>
IdleTimesOut ==
    /\ pc = "read" /\ pair.mode # "collect" /\ waited >= Idle
    /\ Abandon
    /\ UNCHANGED <<pair, wire, acc, evs, st, tail, out, sent, gone, inband, waited, lived, mangled>>
RunsAway ==
    /\ pc = "read" /\ pair.mode # "collect" /\ tail
    /\ Abandon
    /\ tail' = IF pair.mode = "pump" THEN FALSE ELSE tail
    /\ UNCHANGED <<pair, wire, acc, evs, st, out, sent, gone, inband, waited, lived, mangled>>

\* Time passes, whatever the pump is doing.
TimePasses ==
    /\ pc \notin {"done", "failed"}
    /\ lived' = IF lived < MaxAge THEN lived + 1 ELSE lived
    /\ waited' = IF pc = "read" /\ waited < Idle THEN waited + 1 ELSE waited
    /\ UNCHANGED <<pair, wire, acc, evs, st, pc, tail, out, sent, gone, inband, error, mangled>>

\* A keepalive goes out into silence, to a client that is there, with no frame half
\* way; the idle deadline stays where it was.  The client takes it or is given up.
KeepaliveDue == pc = "read" /\ pair.mode = "pump" /\ ~gone /\ waited > 0 /\ ~tail
SendsKeepalive ==
    /\ KeepaliveDue
    /\ gone' \in BOOLEAN
    /\ mangled' = IF Passthrough /\ tail THEN "keepalive" ELSE mangled
    /\ UNCHANGED <<pair, wire, acc, evs, st, pc, tail, out, sent, inband, error, waited, lived>>

\* The client takes the frames, or it has hung up or stopped reading for
\* `client_write`: then the upstream is drained for its usage all the same.
\* The ceiling is looked at on this side of the wait as well.
SendTaken ==
    /\ pc = "send"
    /\ sent' = IF Passthrough THEN sent ELSE sent \o out
    /\ out' = <<>>
    /\ Around
    /\ UNCHANGED <<pair, wire, acc, evs, st, tail, gone, inband, lived, mangled>>
SendFails ==
    /\ pc = "send"
    /\ gone' = TRUE /\ out' = <<>>
    /\ Around
    /\ UNCHANGED <<pair, wire, acc, evs, st, tail, sent, inband, lived, mangled>>
\* After the loop.  A partial frame stays partial; what the client is owed depends
\* on whether the answer reached its own end, not on how the loop was left.
Complete == acc.stop # ""
OwedError == ~Complete /\ ~gone /\ ~inband
OwedDone == Complete /\ ~gone /\ EgressFor(pair) = "chat"
ErrorFrame ==
    IF Passthrough THEN Render(pair.cl, Failure, NewState).out ELSE Render(pair.cl, Failure, st).out
Closes ==
    /\ pc = "close" /\ pair.mode = "pump"
    /\ error' = (error \/ inband \/ ~Complete)
    /\ out' = (IF OwedError THEN ErrorFrame ELSE <<>>) \o (IF OwedDone THEN <<Done>> ELSE <<>>)
    /\ pc' = IF out' = <<>> THEN "done" ELSE "last"
    /\ UNCHANGED <<pair, wire, acc, evs, st, tail, sent, gone, inband, waited, lived, mangled>>
LastTaken ==
    /\ pc = "last" /\ pc' = "done"
    /\ sent' = sent \o out /\ out' = <<>>
    /\ mangled' = IF Passthrough /\ tail THEN "error" ELSE mangled
    /\ UNCHANGED <<pair, wire, acc, evs, st, tail, gone, inband, error, waited, lived>>
LastFails ==
    /\ pc = "last" /\ pc' = "done" /\ out' = <<>>
    /\ UNCHANGED <<pair, wire, acc, evs, st, tail, sent, gone, inband, error, waited, lived, mangled>>

--------------------------------------------------------------------------------
(* Answers the client gets as one body. *)

\* `collect_stream` at the end of the stream: an error event, or no stop, is a failure
\* that leaves the accumulator with the caller; otherwise the events are rendered.
GatheredFails == (\E j \in 1..Len(evs) : evs[j].e = "error") \/ ~Complete
GatherCloses ==
    /\ pc = "close" /\ pair.mode = "gather"
    /\ IF GatheredFails
       THEN pc' = "failed" /\ error' = TRUE /\ sent' = sent
       ELSE pc' = "done" /\ error' = error /\ sent' = RenderCollected(pair.cl, evs)
    /\ UNCHANGED <<pair, wire, acc, evs, st, tail, out, gone, inband, waited, lived, mangled>>

\* `collect`: the upstream writes its whole answer first.
BodyGrows ==
    /\ pc = "read" /\ pair.mode = "collect"
    /\ \E t \in NextFrames(pair.up, wire) : t.f.k \notin {"error", "ping"} /\ wire' = t.w
    /\ UNCHANGED <<pair, acc, evs, st, pc, tail, out, sent, gone, inband, error, waited, lived, mangled>>
BodyFails ==
    /\ pc = "read" /\ pair.mode = "collect"
    /\ pc' = "failed" /\ error' = TRUE
    /\ UNCHANGED <<pair, wire, acc, evs, st, tail, out, sent, gone, inband, waited, lived, mangled>>

\* `collect_with`, then `json_response`.
Collects ==
    /\ pc = "read" /\ pair.mode = "collect" /\ Billed
    /\ LET told == ReadBody(pair.up, wire.items, wire.word)
       IN  /\ evs' = told
           /\ acc' = ObserveAll(Fresh, told)
           /\ sent' = IF Passthrough THEN <<Raw(Frame("body"))>> ELSE RenderCollected(pair.cl, told)
    /\ pc' = "done"
    /\ UNCHANGED <<pair, wire, st, tail, out, gone, inband, error, waited, lived, mangled>>

StreamNext ==
    \/ ReadsFrame \/ ReadsPart \/ ReadEnds \/ ReadFails \/ IdleTimesOut
    \/ RunsAway \/ TimePasses \/ SendsKeepalive \/ SendTaken \/ SendFails \/ Closes \/ LastTaken
    \/ LastFails \/ GatherCloses \/ BodyGrows \/ BodyFails \/ Collects
    \/ (pc \in {"done", "failed"} /\ UNCHANGED streamVars)
StreamSpec == StreamInit /\ [][StreamNext]_streamVars

--------------------------------------------------------------------------------
(* What the client can tell from what it has taken. *)

Endings == SelectSeq(sent, LAMBDA f : f.c \in {"final", "failed"})
HasEnding(c) == \E j \in 1..Len(sent) : sent[j].c = c
Ending == CHOOSE f \in ToSet(sent) : f.c = "final"

\* The fragments of each call, in the order the calls were announced, and of one kind
\* of text.
HeardCalls ==
    LET heads == SelectSeq(sent, LAMBDA f : f.c \in {"open", "part"} /\ f.kind = "call")
        body(h) == SelectSeq(sent, LAMBDA f : f.c = "delta" /\ f.i = h.i)
    IN [j \in 1..Len(heads) |->
            IF heads[j].c = "part" THEN heads[j].xs
            ELSE FlattenSeq([k \in 1..Len(body(heads[j])) |-> body(heads[j])[k].xs])]
HeardOf(kind) ==
    LET of == SelectSeq(sent, LAMBDA f : f.c \in {"part", "delta"} /\ f.kind = kind)
    IN FlattenSeq([j \in 1..Len(of) |-> of[j].xs])

Spoken(kinds) ==
    LET ns == OfKind(wire.items, kinds)
    IN FlattenSeq([j \in 1..Len(ns) |-> Frags(wire.items, ns[j])])
\* A Responses stream's refusal deltas are not read.
TextKinds == IF pair.up = "responses" /\ pair.mode # "collect" THEN {"text"} ELSE {"text", "refusal"}

\* `parse_event` and `render_event` address calls differently in every dialect: by id, by
\* index, by order or whole.  For every pair of dialects, streamed, gathered or collected,
\* each call reaches the client once, in order, with its own arguments and no one else's;
\* so do the text and the reasoning; and a client told that the answer ended has all of it.
ContentArrives ==
    ~Passthrough =>
        LET calls == CallsOf(wire.items)
        IN /\ Len(HeardCalls) <= Len(calls)
           /\ \A j \in 1..Len(HeardCalls) : IsPrefix(HeardCalls[j], Frags(wire.items, calls[j]))
           /\ IsPrefix(HeardOf("text"), Spoken(TextKinds))
           /\ IsPrefix(HeardOf("thinking"), Spoken({"thinking"}))
           /\ HasEnding("final") =>
                  /\ wire.word # ""
                  /\ HeardCalls = [j \in 1..Len(calls) |-> Frags(wire.items, calls[j])]
                  /\ HeardOf("text") = Spoken(TextKinds)
                  /\ HeardOf("thinking") = Spoken({"thinking"})

OpenAt(j, i) == \E k \in 1..(j - 1) : /\ sent[k].c = "open" /\ sent[k].i = i
                                      /\ \A l \in (k + 1)..(j - 1) : ~(sent[l].c = "close" /\ sent[l].i = i)
KindAt(i) == sent[CHOOSE k \in 1..Len(sent) : sent[k].c = "open" /\ sent[k].i = i].kind

\* The renderers of Anthropic and Responses open and close a block around every delta
\* (`RenderState`): no index is opened twice, a delta or a close finds its block open and
\* a delta of a call finds a call's block, and no block is left open in an answer that ended.
BlocksWellFormed ==
    (pair.cl \in {"anthropic", "responses"} /\ pair.mode = "pump" /\ ~Passthrough) =>
        /\ \A j \in 1..Len(sent) :
               /\ sent[j].c = "open" => \A k \in 1..(j - 1) : ~(sent[k].c = "open" /\ sent[k].i = sent[j].i)
               /\ sent[j].c \in {"delta", "close"} => OpenAt(j, sent[j].i)
               /\ sent[j].c = "delta" =>
                      (IF pair.cl = "anthropic" THEN (sent[j].kind = "call") <=> (KindAt(sent[j].i) = "call")
                       ELSE sent[j].kind = KindAt(sent[j].i))
               /\ sent[j].c = "begin" => j = 1
        /\ HasEnding("final") => \A j \in 1..Len(sent) :
                                     sent[j].c = "open" => ~OpenAt(Len(sent) + 1, sent[j].i)

\* `pump` ends a translated stream once: with the answer's own end, followed by `[DONE]`
\* for a Chat Completions client, or with one error frame, whichever of the watchdogs,
\* the upstream's own error or a close ended it, and never with both.
OneEnding ==
    (pair.mode = "pump" /\ ~Passthrough) =>
        /\ Len(Endings) <= 1
        /\ HasEnding("done") => (pair.cl = "chat" /\ Last(sent).c = "done" /\ HasEnding("final"))
        /\ (pc = "done" /\ Endings = <<>>) => error \/ gone
        /\ (pc = "done" /\ HasEnding("failed")) => error
        /\ (HasEnding("final") /\ HasEnding("failed")) => FALSE

\* The client is told the true reason in its own words, and the true bill: an answer cut
\* short is not shown as whole, one that calls a tool says so where the dialect can, and
\* the tokens are the upstream's (but for a Chat Completions stream, whose usage comes after).
EndingIsTrue ==
    (HasEnding("final") /\ ~Passthrough) =>
        LET cut == wire.word = "length"
            denied == wire.word = "filter" \/ (Refused(wire.items) /\ ~cut)
            calls == wire.word \in {"stop", "tool"} /\ CallsOf(wire.items) # <<>> /\ ~denied
        IN  /\ cut <=> Ending.reason \in {"max_tokens", "length", "MAX_TOKENS", "max_output_tokens"}
            /\ denied <=> Ending.reason \in {"refusal", "content_filter", "SAFETY"}
            /\ (calls /\ pair.cl \in {"anthropic", "chat"}) => Ending.reason \in {"tool_use", "tool_calls"}
            /\ (pair.up = "chat" /\ pair.mode = "pump") \/ Ending.usage = Bill

\* What the ledger is given is the upstream's bill, once the upstream has sent it, whether
\* or not the client stayed to the end: `fold_payloads` accounts before `pump` forwards.
BillReachesLedger ==
    (Billed /\ (pair.mode = "collect" => pc = "done")) => acc.usage = Bill

\* `collect`'s accumulator ends "in the same state a streamed response would have reached":
\* the quality gate's verdict on an answer does not depend on how it was read (but for the
\* refusal of a Responses stream).
ReadEitherWay ==
    (wire.word # "" /\ Billed /\ pair.mode # "collect"
         /\ ~(pair.up = "responses" /\ Refused(wire.items))) =>
        LET body == ObserveAll(Fresh, ReadBody(pair.up, wire.items, wire.word))
        IN  /\ QualityGate(acc) = QualityGate(body)
            /\ acc.stop = body.stop
            /\ [j \in 1..Len(acc.bufs) |-> acc.bufs[j].xs] = [j \in 1..Len(body.bufs) |-> body.bufs[j].xs]

\* A keepalive never lands inside a frame that has gone out in part.
KeepaliveKeepsFramesWhole == mangled # "keepalive"

\* The client is given the upstream's answer, all of it and in order, and the accumulator
\* the same one whether the answer was streamed or collected.
AnswerArrives == ContentArrives /\ ReadEitherWay

\* What a client is sent can be read: blocks that open and close, one ending, the true
\* one, and keepalives between frames.
StreamReadable == BlocksWellFormed /\ OneEnding /\ EndingIsTrue /\ KeepaliveKeepsFramesWhole
================================================================================
