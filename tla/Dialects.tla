-------------------------------- MODULE Dialects --------------------------------
(***************************************************************************)
(* The codecs of oag-proto for answers: each upstream dialect's reader     *)
(* (`parse_event`, `parse_response`), the accumulator both paths fold into, *)
(* each client dialect's renderer (`render_event`) and the hub and its      *)
(* converters for answers that are not streamed.                            *)
(*                                                                          *)
(* An answer is a sequence of items: text, thinking, a refusal or a tool    *)
(* call.  A fragment is <<n, j>>, the j-th piece of item n, so a fragment   *)
(* that ends up in the wrong place can be told.  A token count is 0 or the  *)
(* true one (1), for the prompt and for the output.                         *)
(***************************************************************************)
EXTENDS Naturals, SequencesExt

NoId == <<"", 0>>          \* no tool call: `None`, and the empty id
NoIndex == 99              \* no open block: `None`

NoUse == [in |-> 0, out |-> 0]
Prompt == [in |-> 1, out |-> 0]
Output == [in |-> 0, out |-> 1]
Bill == [in |-> 1, out |-> 1]

MaxOf(a, b) == IF a > b THEN a ELSE b
Merge(u, v) == [in |-> MaxOf(u.in, v.in), out |-> MaxOf(u.out, v.out)]

--------------------------------------------------------------------------------
(* Canonical events. *)

Event(e) == [e |-> e, id |-> NoId, x |-> <<>>, usage |-> NoUse, reason |-> ""]
Start(u) == [Event("start") EXCEPT !.usage = u]
Text(x) == [Event("text") EXCEPT !.x = x]
Thinking(x) == [Event("thinking") EXCEPT !.x = x]
CallStart(id) == [Event("call") EXCEPT !.id = id]
CallDelta(id, x) == [Event("delta") EXCEPT !.id = id, !.x = x]
CallEnd(id) == [Event("end") EXCEPT !.id = id]
UsageIs(u) == [Event("usage") EXCEPT !.usage = u]
Stop(r, u) == [Event("stop") EXCEPT !.reason = r, !.usage = u]
Failure == Event("error")

--------------------------------------------------------------------------------
(* The accumulator. *)

Fresh == [usage |-> NoUse, text |-> FALSE, bufs |-> <<>>, open |-> NoId,
          refusal |-> FALSE, held |-> "", stop |-> ""]

CallIds(acc) == [j \in 1..Len(acc.bufs) |-> acc.bufs[j].id]
LastCall(acc) == IF acc.bufs = <<>> THEN NoId ELSE Last(acc.bufs).id

\* The first entry of s with this id, 0 for none: every lookup by id in these
\* lists takes the first.
At(s, id) == IF \E j \in 1..Len(s) : s[j].id = id
             THEN CHOOSE j \in 1..Len(s) : s[j].id = id /\ \A i \in 1..(j - 1) : s[i].id # id
             ELSE 0
Without(s, id) == IF At(s, id) = 0 THEN s ELSE RemoveAt(s, At(s, id))

ObserveAssigning(acc, ev) ==
    IF ev.e \in {"start", "usage", "stop"}
    THEN [acc EXCEPT !.usage = ev.usage, !.stop = IF ev.e = "stop" THEN ev.reason ELSE @]
    ELSE IF ev.e \in {"text", "thinking"} THEN [acc EXCEPT !.text = TRUE]
    ELSE IF ev.e = "call"
    THEN [acc EXCEPT !.bufs = Append(@, [id |-> ev.id, xs |-> <<>>]), !.open = ev.id]
    ELSE IF ev.e = "delta" /\ At(acc.bufs, ev.id) # 0
    THEN [acc EXCEPT !.bufs[At(acc.bufs, ev.id)].xs = Append(@, ev.x)]
    ELSE IF ev.e = "end" THEN [acc EXCEPT !.open = NoId]
    ELSE acc
Observe(acc, ev) ==
    CASE ev.e \in {"start", "usage"} -> [acc EXCEPT !.usage = Merge(@, ev.usage)]
      [] ev.e = "stop" -> [acc EXCEPT !.usage = Merge(@, ev.usage), !.stop = ev.reason]
      [] ev.e \in {"text", "thinking"} -> [acc EXCEPT !.text = TRUE]
      [] ev.e = "call" ->
             [acc EXCEPT !.bufs = Append(@, [id |-> ev.id, xs |-> <<>>]), !.open = ev.id]
      [] ev.e = "delta" ->
             IF At(acc.bufs, ev.id) = 0 THEN acc
             ELSE [acc EXCEPT !.bufs[At(acc.bufs, ev.id)].xs = Append(@, ev.x)]
      [] ev.e = "end" -> [acc EXCEPT !.open = NoId]
      [] ev.e = "error" -> acc
ObserveAll(acc, evs) ==
    LET after[k \in 0..Len(evs)] == IF k = 0 THEN acc ELSE Observe(after[k - 1], evs[k])
    IN after[Len(evs)]

\* Whether fragments parse as JSON together: they do unless two calls' are mixed.
Whole(xs) == Len(xs) < 2 \/ xs[1][1] = xs[Len(xs)][1]
\* `quality_gate`.
QualityGate(acc) ==
    CASE ~acc.text /\ acc.bufs = <<>> -> "empty"
      [] acc.stop = "refusal" -> "refusal"
      [] acc.stop = "max_tokens" -> "truncated"
      [] OTHER -> IF \E j \in 1..Len(acc.bufs) : acc.bufs[j].xs # <<>> /\ ~Whole(acc.bufs[j].xs)
                  THEN "malformed" ELSE "none"

--------------------------------------------------------------------------------
(* Frames from an upstream.  `n` is the item, `x` its fragment, `index` its    *)
(* place among the calls, `word` how the dialect says that it has finished,    *)
(* `refused` whether the finished answer holds a refusal.                      *)

Frame(k) == [k |-> k, n |-> 0, kind |-> "", name |-> "", x |-> <<>>, index |-> 0,
             word |-> "", refused |-> FALSE]
WireId(f) == <<f.name, f.n>>

\* `parse_stop_reason` of Anthropic and of Converse.
StopReason(word) ==
    CASE word = "length" -> "max_tokens"
      [] word = "tool" -> "tool_use"
      [] word = "filter" -> "refusal"
      [] word = "sequence" -> "stop_sequence"
      [] OTHER -> "end_turn"

\* A close does not say which kind of block it closes: only a call that is open
\* is ended (ParseAnthropicLast: the last call, open or not).
ParseAnthropicBy(f, acc, ended) ==
    CASE f.k = "start" -> <<Start(Prompt)>>
      [] f.k = "open" /\ f.kind = "call" -> <<CallStart(WireId(f))>>
      [] f.k = "delta" /\ f.kind = "text" -> <<Text(f.x)>>
      [] f.k = "delta" /\ f.kind = "thinking" -> <<Thinking(f.x)>>
      [] f.k = "delta" /\ f.kind = "call" -> <<CallDelta(LastCall(acc), f.x)>>
      [] f.k = "close" /\ ended # NoId -> <<CallEnd(ended)>>
      [] f.k = "finish" -> <<UsageIs(Output), Stop(StopReason(f.word), Output)>>
      [] f.k = "error" -> <<Failure>>
      [] OTHER -> <<>>
ParseAnthropic(f, acc) == ParseAnthropicBy(f, acc, acc.open)

\* `finish_reason`: the word, then what arrived.
FinishReason(word, called, refused) ==
    CASE word = "length" -> "max_tokens"
      [] word = "tool" -> "tool_use"
      [] word = "filter" -> "refusal"
      [] refused -> "refusal"
      [] called -> "tool_use"
      [] OTHER -> "end_turn"

\* `resolve_opened`, then the last call opened (ResolveLast: the last one only).
ResolveLast(f, acc) == LastCall(acc)
Resolve(f, acc) == IF f.index \in 1..Len(acc.bufs) THEN acc.bufs[f.index].id ELSE LastCall(acc)

\* A chunk may open a call, carry its first arguments and finish, all in one; the
\* finish ends every call.
ParseChat(f, acc) ==
    LET known == CallIds(acc)
        said == CASE f.k = "delta" /\ f.kind \in {"text", "refusal"} -> <<Text(f.x)>>
                  [] f.k = "delta" /\ f.kind = "thinking" -> <<Thinking(f.x)>>
                  [] f.k = "open" -> <<CallStart(WireId(f))>>
                         \o (IF f.x = <<>> THEN <<>> ELSE <<CallDelta(WireId(f), f.x)>>)
                  [] f.k = "delta" /\ f.kind = "call" -> <<CallDelta(Resolve(f, acc), f.x)>>
                  [] f.k = "usage" -> <<UsageIs(Bill)>>
                  [] OTHER -> <<>>
        ended == IF f.k = "open" /\ ~Contains(known, WireId(f)) THEN Append(known, WireId(f)) ELSE known
    IN  said \o (IF f.word = "" THEN <<>>
                 ELSE [j \in 1..Len(ended) |-> CallEnd(ended[j])]
                      \o <<Stop(FinishReason(f.word, ended # <<>>,
                                             acc.refusal \/ f.kind = "refusal"), NoUse)>>)

\* Deltas of a refusal are not read.
ParseResponses(f, acc) ==
    CASE f.k = "start" -> <<Start(NoUse)>>
      [] f.k = "open" /\ f.kind = "call" -> <<CallStart(WireId(f))>>
      [] f.k = "delta" /\ f.kind = "text" -> <<Text(f.x)>>
      [] f.k = "delta" /\ f.kind = "thinking" -> <<Thinking(f.x)>>
      [] f.k = "delta" /\ f.kind = "call" -> <<CallDelta(LastCall(acc), f.x)>>
      [] f.k = "close" /\ f.kind = "call" -> <<CallEnd(WireId(f))>>
      [] f.k = "finish" ->
             <<UsageIs(Bill),
               Stop(CASE f.word = "length" -> "max_tokens"
                      [] f.word = "filter" -> "refusal"
                      [] f.refused -> "refusal"
                      [] acc.bufs # <<>> -> "tool_use"
                      [] OTHER -> "end_turn", Bill)>>
      [] f.k = "error" -> <<Failure>>
      [] OTHER -> <<>>

\* `call_id`: the name, and the ordinal to tell calls of one function apart.
CallId(name, ordinal) == <<name, ordinal>>

\* `parse_chunk`: a call arrives whole, and its end with it.
WholeCall(id, xs) == <<CallStart(id)>> \o [j \in 1..Len(xs) |-> CallDelta(id, xs[j])] \o <<CallEnd(id)>>
ParseGemini(f, acc) ==
    LET calls == Len(acc.bufs) + (IF f.k = "open" THEN 1 ELSE 0)
        usage == IF f.word = "" THEN Prompt ELSE Bill
    IN  <<UsageIs(usage)>>
        \o (CASE f.k = "delta" /\ f.kind = "text" -> <<Text(f.x)>>
              [] f.k = "delta" /\ f.kind = "thinking" -> <<Thinking(f.x)>>
              [] f.k = "open" -> WholeCall(CallId(f.name, Len(acc.bufs)), <<f.x>>)
              [] OTHER -> <<>>)
        \o (IF f.word = "" THEN <<>>
            ELSE <<Stop(CASE f.word = "length" -> "max_tokens"
                          [] f.word = "filter" -> "refusal"
                          [] calls > 0 -> "tool_use"
                          [] OTHER -> "end_turn", usage)>>)

\* The stop is held until the usage that follows it.
ParseConverse(f, acc) ==
    CASE f.k = "start" -> <<Start(NoUse)>>
      [] f.k = "finish" -> <<>>
      [] f.k = "usage" -> IF acc.held = "" THEN <<UsageIs(Bill)>> ELSE <<Stop(acc.held, Bill)>>
      [] OTHER -> ParseAnthropic(f, acc)

\* `adapter.parse_event`, and what it leaves in the accumulator itself.
ParseEvent(u, f, acc) ==
    CASE u = "anthropic" -> ParseAnthropic(f, acc)
      [] u = "chat" -> ParseChat(f, acc)
      [] u = "responses" -> ParseResponses(f, acc)
      [] u = "gemini" -> ParseGemini(f, acc)
      [] u = "converse" -> ParseConverse(f, acc)
Remember(u, f, acc) ==
    CASE u = "chat" /\ f.kind = "refusal" -> [acc EXCEPT !.refusal = TRUE]
      [] u = "converse" /\ f.k = "finish" -> [acc EXCEPT !.held = StopReason(f.word)]
      [] u = "converse" /\ f.k = "usage" -> [acc EXCEPT !.held = ""]
      [] OTHER -> acc

--------------------------------------------------------------------------------
(* Frames to a client. *)

Sent(c) == [c |-> c, i |-> NoIndex, kind |-> "", id |-> NoId, xs |-> <<>>, usage |-> NoUse,
            reason |-> ""]
Begin == Sent("begin")
Open(i, kind, id) == [Sent("open") EXCEPT !.i = i, !.kind = kind, !.id = id]
Delta(i, kind, x) == [Sent("delta") EXCEPT !.i = i, !.kind = kind, !.xs = <<x>>]
Close(i) == [Sent("close") EXCEPT !.i = i]
Part(kind, id, xs) == [Sent("part") EXCEPT !.kind = kind, !.id = id, !.xs = xs]
Final(r, u) == [Sent("final") EXCEPT !.reason = r, !.usage = u]
Failed == Sent("failed")
Done == Sent("done")
Raw(f) == [Sent("raw") EXCEPT !.reason = f.k]
Torn == Sent("torn")
\* How each client dialect says why the answer stopped.
ClientWord(c, reason) ==
    CASE c = "anthropic" -> reason
      [] reason = "max_tokens" ->
             (CASE c = "chat" -> "length" [] c = "gemini" -> "MAX_TOKENS" [] c = "responses" -> "max_output_tokens")
      [] reason = "refusal" ->
             (CASE c = "gemini" -> "SAFETY" [] OTHER -> "content_filter")
      [] reason = "tool_use" /\ c = "chat" -> "tool_calls"
      [] OTHER -> (CASE c = "chat" -> "stop" [] c = "gemini" -> "STOP" [] c = "responses" -> "completed")

\* One state for the four renderers; `text` is Anthropic's open text block and
\* Responses' open message, `tools` the calls a renderer knows, [id, i, xs].
NewState == [begun |-> FALSE, text |-> NoIndex, reasoning |-> NoIndex, tools |-> <<>>,
             next |-> 0, usage |-> NoUse, finished |-> FALSE]

Begun(st) == IF st.begun THEN <<>> ELSE <<Begin>>
ClosedNever(i) == <<>>
Closed(i) == IF i = NoIndex THEN <<>> ELSE <<Close(i)>>
ClosedTools(st) == [j \in 1..Len(st.tools) |-> Close(st.tools[j].i)]
Rendered(st, out) == [st |-> st, out |-> out]
Quiet(st, ev) == Rendered([st EXCEPT !.usage = Merge(@, ev.usage)], <<>>)

\* `tool_block`: the block of the call, or of the last call opened.
ToolBlock(st, id) ==
    IF At(st.tools, id) # 0 THEN st.tools[At(st.tools, id)].i
    ELSE IF st.tools = <<>> THEN NoIndex ELSE Last(st.tools).i

\* Text and thinking share the one slot `text`; tools are closed before either.
RenderText(ev, st) ==
    LET new == st.text = NoIndex
        i   == IF new THEN st.next ELSE st.text
    IN Rendered([st EXCEPT !.begun = TRUE, !.tools = <<>>, !.text = i, !.next = IF new THEN @ + 1 ELSE @],
                Begun(st) \o ClosedTools(st) \o (IF new THEN <<Open(i, ev.e, NoId)>> ELSE <<>>)
                    \o <<Delta(i, ev.e, ev.x)>>)
RenderAnthropic(ev, st) ==
    CASE ev.e = "start" ->
             Rendered([st EXCEPT !.begun = TRUE, !.usage = Merge(@, ev.usage)], Begun(st))
      [] ev.e \in {"text", "thinking"} -> RenderText(ev, st)
      [] ev.e = "call" ->
             Rendered([st EXCEPT !.begun = TRUE, !.text = NoIndex, !.next = @ + 1,
                                 !.tools = Append(@, [id |-> ev.id, i |-> st.next, xs |-> <<>>])],
                      Begun(st) \o Closed(st.text) \o <<Open(st.next, "call", ev.id)>>)
      [] ev.e = "delta" ->
             Rendered(st, IF ToolBlock(st, ev.id) = NoIndex THEN <<>>
                          ELSE <<Delta(ToolBlock(st, ev.id), "call", ev.x)>>)
      [] ev.e = "end" ->
             Rendered([st EXCEPT !.tools = Without(@, ev.id)],
                      IF At(st.tools, ev.id) = 0 THEN <<>>
                      ELSE <<Close(st.tools[At(st.tools, ev.id)].i)>>)
      [] ev.e = "usage" -> Quiet(st, ev)
      [] ev.e = "stop" ->
             IF st.finished THEN Rendered(st, <<>>)
             ELSE Rendered([st EXCEPT !.begun = TRUE, !.finished = TRUE, !.text = NoIndex,
                                      !.tools = <<>>, !.usage = Merge(@, ev.usage)],
                           Begun(st) \o Closed(st.text) \o ClosedTools(st)
                               \o <<Final(ClientWord("anthropic", ev.reason), Merge(st.usage, ev.usage))>>)
      [] ev.e = "error" -> Rendered(st, <<Failed>>)

\* `tool_index` gives a call its place the first time it is named.
ToolIndex(st, id) == IF At(st.tools, id) # 0 THEN st.tools[At(st.tools, id)].i ELSE Len(st.tools)
Named(st, id) == IF At(st.tools, id) # 0 THEN st
                 ELSE [st EXCEPT !.tools = Append(@, [id |-> id, i |-> Len(st.tools), xs |-> <<>>])]
RenderChat(ev, st) ==
    LET place == ToolIndex(st, ev.id)
        named == Named(st, ev.id)
    IN CASE ev.e = "start" ->
                Rendered([st EXCEPT !.begun = TRUE, !.usage = Merge(@, ev.usage)], <<Begin>>)
         [] ev.e = "text" ->
                Rendered([st EXCEPT !.begun = TRUE], <<Part("text", NoId, <<ev.x>>)>>)
         [] ev.e = "thinking" -> Rendered(st, <<Part("thinking", NoId, <<ev.x>>)>>)
         [] ev.e = "call" -> Rendered(named, <<Open(place, "call", ev.id)>>)
         [] ev.e = "delta" -> Rendered(named, <<Delta(place, "call", ev.x)>>)
         [] ev.e = "end" -> Rendered(st, <<>>)
         [] ev.e = "usage" -> Quiet(st, ev)
         [] ev.e = "stop" ->
                IF st.finished THEN Rendered(st, <<>>)
                ELSE Rendered([st EXCEPT !.finished = TRUE, !.usage = Merge(@, ev.usage)],
                              <<Final(ClientWord("chat", ev.reason), Merge(st.usage, ev.usage))>>)
         [] ev.e = "error" -> Rendered(st, <<Failed>>)

\* A call goes out whole, when it ends or with the stop.
CallPart(call) == Part("call", call.id, call.xs)
RenderGemini(ev, st) ==
    CASE ev.e \in {"start", "usage"} -> Quiet(st, ev)
      [] ev.e \in {"text", "thinking"} -> Rendered(st, <<Part(ev.e, NoId, <<ev.x>>)>>)
      [] ev.e = "call" ->
             Rendered([st EXCEPT !.tools = Append(@, [id |-> ev.id, i |-> 0, xs |-> <<>>])], <<>>)
      [] ev.e = "delta" ->
             Rendered(IF At(st.tools, ev.id) = 0
                      THEN [st EXCEPT !.tools = Append(@, [id |-> ev.id, i |-> 0, xs |-> <<ev.x>>])]
                      ELSE [st EXCEPT !.tools[At(st.tools, ev.id)].xs = Append(@, ev.x)], <<>>)
      [] ev.e = "end" ->
             IF At(st.tools, ev.id) = 0 THEN Rendered(st, <<>>)
             ELSE Rendered([st EXCEPT !.tools = Without(@, ev.id)],
                           <<CallPart(st.tools[At(st.tools, ev.id)])>>)
      [] ev.e = "stop" ->
             IF st.finished THEN Rendered(st, <<>>)
             ELSE Rendered([st EXCEPT !.finished = TRUE, !.tools = <<>>,
                                      !.usage = Merge(@, ev.usage)],
                           [j \in 1..Len(st.tools) |-> CallPart(st.tools[j])] \o <<Final(ClientWord("gemini", ev.reason), Merge(st.usage, ev.usage))>>)
      [] ev.e = "error" -> Rendered(st, <<Failed>>)

\* Message and reasoning items have a slot each, and opening the one closes the other;
\* both close before a call's item opens, and a call's item closes with its end.
OpenMessage(st) ==
    IF st.text # NoIndex THEN Rendered(st, <<>>)
    ELSE Rendered([st EXCEPT !.begun = TRUE, !.text = st.next, !.reasoning = NoIndex, !.next = @ + 1],
                  Begun(st) \o Closed(st.reasoning) \o <<Open(st.next, "text", NoId)>>)
OpenReasoning(st) ==
    IF st.reasoning # NoIndex THEN Rendered(st, <<>>)
    ELSE Rendered([st EXCEPT !.begun = TRUE, !.reasoning = st.next, !.text = NoIndex, !.next = @ + 1],
                  Begun(st) \o Closed(st.text) \o <<Open(st.next, "thinking", NoId)>>)
RenderToolStart(st, id) ==
    Rendered([st EXCEPT !.begun = TRUE, !.text = NoIndex, !.reasoning = NoIndex, !.next = @ + 1,
                        !.tools = Append(@, [id |-> id, i |-> st.next, xs |-> <<>>])],
             Begun(st) \o Closed(st.reasoning) \o Closed(st.text) \o <<Open(st.next, "call", id)>>)
RenderToolDelta(st, id, x) ==
    Rendered(st, IF At(st.tools, id) = 0 THEN <<>>
                 ELSE <<Delta(st.tools[At(st.tools, id)].i, "call", x)>>)
RenderToolEnd(st, id) ==
    Rendered([st EXCEPT !.tools = Without(@, id)],
             IF At(st.tools, id) = 0 THEN <<>> ELSE <<Close(st.tools[At(st.tools, id)].i)>>)
\* The terminal frame, of an answer or of a failure: the first one is the only one.
Terminate(st, ev, frame) ==
    IF st.finished THEN Rendered(st, <<>>)
    ELSE Rendered([st EXCEPT !.begun = TRUE, !.finished = TRUE, !.text = NoIndex, !.reasoning = NoIndex,
                             !.usage = Merge(@, ev.usage)],
                  Begun(st) \o Closed(st.reasoning) \o Closed(st.text) \o <<frame>>)
RenderResponses(ev, st) ==
    CASE ev.e = "start" ->
             Rendered([st EXCEPT !.begun = TRUE, !.usage = Merge(@, ev.usage)], Begun(st))
      [] ev.e = "text" ->
             LET r == OpenMessage(st) IN Rendered(r.st, r.out \o <<Delta(r.st.text, "text", ev.x)>>)
      [] ev.e = "thinking" ->
             LET r == OpenReasoning(st) IN Rendered(r.st, r.out \o <<Delta(r.st.reasoning, "thinking", ev.x)>>)
      [] ev.e = "call" -> RenderToolStart(st, ev.id)
      [] ev.e = "delta" -> RenderToolDelta(st, ev.id, ev.x)
      [] ev.e = "end" -> RenderToolEnd(st, ev.id)
      [] ev.e = "usage" -> Quiet(st, ev)
      [] ev.e = "stop" -> Terminate(st, ev, Final(ClientWord("responses", ev.reason), Merge(st.usage, ev.usage)))
      [] ev.e = "error" -> Terminate(st, ev, Failed)

Render(c, ev, st) ==
    CASE c = "anthropic" -> RenderAnthropic(ev, st)
      [] c = "chat" -> RenderChat(ev, st)
      [] c = "gemini" -> RenderGemini(ev, st)
      [] c = "responses" -> RenderResponses(ev, st)

RenderAll(c, evs, st) ==
    FoldLeft(LAMBDA r, ev : LET p == Render(c, ev, r.st)
                            IN Rendered(p.st, r.out \o p.out), Rendered(st, <<>>), evs)

--------------------------------------------------------------------------------
(* Answers that are not streamed.  `items` is the whole answer, a sequence of  *)
(* [kind, name, frags].                                                        *)

Frags(items, n) == [j \in 1..items[n].frags |-> <<n, j>>]
OfKind(items, kinds) ==
    LET of[n \in 0..Len(items)] ==
            IF n = 0 THEN <<>> ELSE IF items[n].kind \in kinds THEN Append(of[n - 1], n) ELSE of[n - 1]
    IN of[Len(items)]
Called(items) == OfKind(items, {"call"}) # <<>>
Refused(items) == OfKind(items, {"refusal"}) # <<>>
BodyId(items, n) == <<items[n].name, n>>
Said(items, n) ==
    IF items[n].kind = "call" THEN WholeCall(BodyId(items, n), Frags(items, n))
    ELSE [j \in 1..items[n].frags |->
              IF items[n].kind = "thinking" THEN Thinking(<<n, j>>) ELSE Text(<<n, j>>)]
SaidAll(items, ns) == FlattenSeq([j \in 1..Len(ns) |-> Said(items, ns[j])])

\* The readers of a whole body, `parse_response` of each dialect.
ReadAnthropic(items, word) ==
    <<UsageIs(Bill)>> \o SaidAll(items, [n \in 1..Len(items) |-> n])
        \o <<Stop(StopReason(word), Bill)>>
ReadConverse(items, word) == ReadAnthropic(items, word)
ReadChat(items, word) ==
    <<UsageIs(Bill)>> \o SaidAll(items, OfKind(items, {"text"}))
        \o SaidAll(items, OfKind(items, {"refusal"})) \o SaidAll(items, OfKind(items, {"thinking"}))
        \o SaidAll(items, OfKind(items, {"call"}))
        \o <<Stop(FinishReason(word, Called(items), Refused(items)), Bill)>>
ReadResponses(items, word) ==
    <<UsageIs(Bill)>> \o SaidAll(items, [n \in 1..Len(items) |-> n])
        \o <<Stop(CASE word = "length" -> "max_tokens"
                    [] word = "filter" -> "refusal"
                    [] Refused(items) -> "refusal"
                    [] Called(items) -> "tool_use"
                    [] OTHER -> "end_turn", Bill)>>
Ordinal(items, n) == Len(OfKind(SubSeq(items, 1, n - 1), {"call"}))
ReadGemini(items, word) ==
    LET said(n) == IF items[n].kind = "call"
                   THEN WholeCall(CallId(items[n].name, Ordinal(items, n)), Frags(items, n))
                   ELSE Said(items, n)
    IN  <<UsageIs(Bill)>> \o FlattenSeq([n \in 1..Len(items) |-> said(n)])
            \o <<Stop(CASE word = "length" -> "max_tokens"
                        [] word = "filter" -> "refusal"
                        [] Called(items) -> "tool_use"
                        [] OTHER -> "end_turn", Bill)>>
ReadBody(u, items, word) ==
    CASE u = "anthropic" -> ReadAnthropic(items, word)
      [] u = "converse" -> ReadConverse(items, word)
      [] u = "chat" -> ReadChat(items, word)
      [] u = "responses" -> ReadResponses(items, word)
      [] u = "gemini" -> ReadGemini(items, word)

\* `render_from_events`: events to the blocks of an Anthropic message.
NoBlock == [kind |-> "", id |-> NoId, xs |-> <<>>]
CloseBlock(h) == IF h.open = NoBlock THEN h ELSE [h EXCEPT !.blocks = Append(@, h.open), !.open = NoBlock]
OpenBlock(h, kind, id, xs) ==
    [CloseBlock(h) EXCEPT !.open = [kind |-> kind, id |-> id, xs |-> xs]]
HubStep(h, ev) ==
    CASE ev.e \in {"start", "usage"} -> [h EXCEPT !.usage = Merge(@, ev.usage)]
      [] ev.e \in {"text", "thinking"} ->
             IF h.open.kind = ev.e THEN [h EXCEPT !.open.xs = Append(@, ev.x)]
             ELSE OpenBlock(h, ev.e, NoId, <<ev.x>>)
      [] ev.e = "call" -> OpenBlock(h, "call", ev.id, <<>>)
      [] ev.e = "delta" ->
             IF h.open.kind = "call" /\ h.open.id = ev.id THEN [h EXCEPT !.open.xs = Append(@, ev.x)]
             ELSE OpenBlock(h, "call", ev.id, <<ev.x>>)
      [] ev.e = "end" -> CloseBlock(h)
      [] ev.e = "stop" -> [h EXCEPT !.usage = Merge(@, ev.usage), !.stop = ev.reason]
      [] ev.e = "error" -> h
RenderFromEvents(evs) ==
    LET h == CloseBlock(FoldLeft(HubStep, [blocks |-> <<>>, open |-> NoBlock, usage |-> NoUse,
                                           stop |-> ""], evs))
        calls == SelectSeq(h.blocks, LAMBDA b : b.kind = "call")
    IN  [h EXCEPT !.stop = IF h.stop = "end_turn" /\ calls # <<>> THEN "tool_use" ELSE h.stop]

\* The converters from that message to the client's dialect, as the parts the
\* client finds in its body.
BlockParts(bs) == [j \in 1..Len(bs) |-> Part(bs[j].kind, bs[j].id, bs[j].xs)]
Joined(bs, kind) ==
    LET of == SelectSeq(bs, LAMBDA b : b.kind = kind)
        xs == FlattenSeq([j \in 1..Len(of) |-> of[j].xs])
    IN IF xs = <<>> THEN <<>> ELSE <<Part(kind, NoId, xs)>>
Calls(bs) == BlockParts(SelectSeq(bs, LAMBDA b : b.kind = "call"))
RenderCompletion(h) == Joined(h.blocks, "text") \o Joined(h.blocks, "thinking") \o Calls(h.blocks)
RenderMessageResponse(h) == BlockParts(h.blocks)
RenderResponse(h) == Joined(h.blocks, "thinking") \o Joined(h.blocks, "text") \o Calls(h.blocks)
RenderCollected(c, evs) ==
    LET h == RenderFromEvents(evs)
    IN  (CASE c \in {"anthropic", "gemini"} -> RenderMessageResponse(h)
           [] c = "chat" -> RenderCompletion(h)
           [] c = "responses" -> RenderResponse(h))
        \o <<Final(ClientWord(c, h.stop), h.usage)>>
================================================================================
