-------------------------------- MODULE Requests --------------------------------
(***************************************************************************)
(* The codecs of oag-proto for requests.  A client's body is read by its    *)
(* dialect's `parse_request` into the canonical request, fitted to the      *)
(* model (`for_model`) and written by the upstream dialect's                *)
(* `render_request`, which respells tool names and ids its wire refuses and *)
(* refuses the fields it has no place for.                                  *)
(*                                                                          *)
(* Text is a sequence of pieces, <<>> when blank.  A tool name or id is     *)
(* [stem, style, n]: "plain" is legal on every wire, "dotted" is a legal id *)
(* for Converse only, "odd" and "odder" are legal nowhere and differ from   *)
(* "plain" in characters a wire does not take; n is the suffix it was given. *)
(***************************************************************************)
EXTENDS Integers, SequencesExt, FiniteSets

CONSTANTS Asks,       \* the requests clients make: canonical, before they are spelled
          Levels      \* the sets of levels a model row may list, {} for no list

VARIABLES ask,        \* [from, to: dialects, req: what the client means, listed, model]
          stage,      \* "asked", "read", "written" or "refused"
          read,       \* the canonical request
          body        \* the upstream's body

requestVars == <<ask, stage, read, body>>

None == "absent"
NoBudget == -1
NoName == [stem |-> "", style |-> "none", n |-> 0]
Choice(mode) == [stem |-> mode, style |-> "mode", n |-> 0]   \* `auto`, `required`, `none`; NoName for no choice
RequestDialects == {"anthropic", "chat", "responses", "gemini"}

Block(b, id, name, xs) == [b |-> b, id |-> id, name |-> name, xs |-> xs, bad |-> FALSE]
OfBlock(blocks, b) == SelectSeq(blocks, LAMBDA x : x.b = b)
JoinXs(blocks) == FlattenSeq([j \in 1..Len(blocks) |-> blocks[j].xs])
Concat(ss) == FlattenSeq(ss)
MapSeq(f(_), s) == [j \in 1..Len(s) |-> f(s[j])]
BlocksOf(turns) == Concat([j \in 1..Len(turns) |-> turns[j].blocks])
Distinct(s) == FoldLeft(LAMBDA seen, x : IF Contains(seen, x) THEN seen ELSE Append(seen, x), <<>>, s)

--------------------------------------------------------------------------------
(* Names and ids. *)

Plain(stem) == [stem |-> stem, style |-> "plain", n |-> 0]
LegalName(name) == name.style = "plain"
LegalId(u, id) == id.style = "plain" \/ (u = "converse" /\ id.style = "dotted")

\* `uniquify`: the bare name, or the first suffix from 2 that is free.
Uniquify(base, used) ==
    IF base \notin used THEN base
    ELSE [base EXCEPT !.n = CHOOSE k \in 2..(Cardinality(used) + 2) :
                                /\ [base EXCEPT !.n = k] \notin used
                                /\ \A j \in 2..(k - 1) : [base EXCEPT !.n = j] \in used]

\* `FunctionNameMap::from_request`: every name in order of first mention; legal names keep
\* themselves before any other is respelled.
Originals(req) ==
    Distinct(req.tools \o (IF req.choice.style \in {"mode", "none"} THEN <<>> ELSE <<req.choice>>)
             \o MapSeq(LAMBDA x : x.name, OfBlock(BlocksOf(req.turns), "call")))
NameMap(req) ==
    LET names == Originals(req)
        kept  == {n \in ToSet(names) : LegalName(n)}
        respell(m, n) ==
            IF LegalName(n) THEN m
            ELSE LET w == Uniquify(Plain(n.stem), m.used)
                 IN [used |-> m.used \cup {w}, pairs |-> Append(m.pairs, <<n, w>>)]
    IN FoldLeft(respell, [used |-> kept, pairs |-> <<>>], names).pairs

\* `ToolUseIds::from_request_by`: legal ids are taken before any other is respelled.
IdMap(u, req) ==
    LET named == SelectSeq(BlocksOf(req.turns), LAMBDA x : x.b \in {"call", "result"})
        ids   == Distinct(MapSeq(LAMBDA x : x.id, named))
        respell(m, id) ==
            IF LegalId(u, id) THEN m
            ELSE LET plain == Plain(id.stem)
                     w == IF plain \notin m.used THEN plain
                          ELSE [stem |-> id.stem, style |-> "plain", n |-> 100 + Len(m.pairs)]
                 IN [used |-> m.used \cup {w}, pairs |-> Append(m.pairs, <<id, w>>)]
    IN FoldLeft(respell, [used |-> {i \in ToSet(ids) : LegalId(u, i)}, pairs |-> <<>>], ids).pairs

Wire(map, x) == IF \E j \in 1..Len(map) : map[j][1] = x
                THEN map[CHOOSE j \in 1..Len(map) : map[j][1] = x][2] ELSE x
Restore(map, w) == IF \E j \in 1..Len(map) : map[j][2] = w
                   THEN map[CHOOSE j \in 1..Len(map) : map[j][2] = w][1] ELSE w

RespellsNames(u) == u \in {"chat", "responses", "converse"}
RespellsIds(u) == u \in {"anthropic", "converse"}
Respelled(u, req) ==
    LET names == IF RespellsNames(u) THEN NameMap(req) ELSE <<>>
        ids   == IF RespellsIds(u) THEN IdMap(u, req) ELSE <<>>
        block(x) == [x EXCEPT !.name = IF x.b = "call" THEN Wire(names, @) ELSE @,
                              !.id = IF x.b \in {"call", "result"} THEN Wire(ids, @) ELSE @]
    IN [req EXCEPT !.turns = MapSeq(LAMBDA t : [t EXCEPT !.blocks = MapSeq(block, @)], @),
                   !.tools = MapSeq(LAMBDA n : Wire(names, n), @),
                   !.choice = IF @.style \in {"mode", "none"} THEN @ ELSE Wire(names, @)]

--------------------------------------------------------------------------------
(* Reasoning: an effort, a budget of tokens, or both. *)

Efforts == <<"off", "low", "medium", "high", "xhigh", "max", "ultra">>
Rank(e) == CHOOSE j \in 1..7 : Efforts[j] = e
AsBudget(e) == <<0, 4096, 8192, 16384, 32768, 65536, 65536>>[Rank(e)]
FromBudget(b) == CASE b = 0 -> "off" [] b >= 65536 -> "max" [] b >= 32768 -> "xhigh"
                   [] b >= 16384 -> "high" [] b >= 8192 -> "medium" [] OTHER -> "low"
ThinkingRequest(req) ==
    CASE req.budget > 0 -> [budget |-> req.budget, effort |-> FromBudget(req.budget)]
      [] req.budget <= 0 /\ req.effort \notin {None, "off"} ->
             [budget |-> AsBudget(req.effort), effort |-> req.effort]
      [] OTHER -> [budget |-> NoBudget, effort |-> None]

\* `Effort::for_model`: only `ultra` is fitted, to itself where the dialect can say it and the
\* row lists it, else to the highest level listed below it.
EffortForModel(e, levels, u) ==
    IF e # "ultra" THEN e
    ELSE IF levels = {} THEN "max"
    ELSE IF u \in {"chat", "responses"} /\ "ultra" \in levels THEN "ultra"
    ELSE IF levels \ {"ultra"} = {} THEN "max"
    ELSE CHOOSE l \in levels \ {"ultra"} : \A k \in levels \ {"ultra"} : Rank(k) <= Rank(l)
ForModel(req, levels, u) ==
    IF req.effort = None THEN req
    ELSE LET to == EffortForModel(req.effort, levels, u)
         IN IF to = req.effort THEN req
            ELSE [req EXCEPT !.effort = to,
                             !.budget = IF @ = AsBudget(req.effort) THEN AsBudget(to) ELSE @]

\* `anthropic_budget`: below the answer's own ceiling and not under the least the API takes.
AnthropicBudget(req) ==
    LET asked == ThinkingRequest(req).budget
        room  == IF asked = NoBudget \/ req.max = 0 THEN 0
                 ELSE IF asked < req.max - 1 THEN asked ELSE req.max - 1
    IN IF room >= 1024 THEN room ELSE NoBudget

--------------------------------------------------------------------------------
(* The writers.  A body is a record of what its fields hold; "" marks a field  *)
(* the dialect does not have.                                                  *)

Body(req, msgs) == [msgs |-> msgs, system |-> req.system, tools |-> req.tools, choice |-> req.choice,
                    format |-> req.format, stop |-> req.stop, prev |-> req.prev,
                    max |-> req.max, effort |-> None, budget |-> NoBudget, adaptive |-> FALSE, extra |-> FALSE]

\* Messages as they are; an effort for models of the adaptive generation, a budget before it.
RenderMessage(t) == [role |-> t.role, parts |-> t.blocks]
RenderAnthropicRequest(req, model) ==
    LET r == Respelled("anthropic", req)
        thought == ThinkingRequest(req)
        base == Body([r EXCEPT !.format = None, !.prev = FALSE],
                     MapSeq(RenderMessage, r.turns))
    IN CASE model = "budget" -> [base EXCEPT !.budget = AnthropicBudget(req)]
         [] model = "adaptive" /\ thought.effort # None ->
                [base EXCEPT !.adaptive = TRUE,
                             !.effort = IF thought.effort = "ultra" THEN "max" ELSE thought.effort]
         [] OTHER -> base

\* One message becomes its tool results, a message each, and then the rest of it.
ToolMessage(x) == [role |-> "tool", id |-> x.id, xs |-> x.xs, images |-> <<>>, calls |-> <<>>]
ChatMessage(t) ==
    LET text == JoinXs(OfBlock(t.blocks, "text"))
        rest == [role |-> t.role, id |-> NoName, xs |-> text, images |-> OfBlock(t.blocks, "image"),
                 calls |-> OfBlock(t.blocks, "call")]
    IN MapSeq(ToolMessage, OfBlock(t.blocks, "result"))
           \o (IF text = <<>> /\ rest.images = <<>> /\ rest.calls = <<>> THEN <<>> ELSE <<rest>>)
OpenAIEffort(req) ==
    CASE req.effort # None -> req.effort
      [] req.effort = None /\ req.budget # NoBudget -> FromBudget(req.budget)
      [] OTHER -> None
RenderChatRequest(req) ==
    LET r == Respelled("chat", req)
        system == JoinXs(r.system)
        head == IF system = <<>> THEN <<>>
                ELSE <<[role |-> "system", id |-> NoName, xs |-> system, images |-> <<>>, calls |-> <<>>]>>
    IN [Body([r EXCEPT !.system = <<>>, !.prev = FALSE], head \o Concat(MapSeq(ChatMessage, r.turns)))
            EXCEPT !.effort = OpenAIEffort(req)]

\* Outputs, then the message, then the calls, each an item of its own.
ResponsesItems(t) ==
    LET parts == SelectSeq(t.blocks, LAMBDA x : x.b \in {"text", "image"})
    IN MapSeq(LAMBDA x : [type |-> "output", role |-> None, parts |-> <<x>>], OfBlock(t.blocks, "result"))
           \o (IF parts = <<>> THEN <<>> ELSE <<[type |-> "message", role |-> t.role, parts |-> parts]>>)
           \o MapSeq(LAMBDA x : [type |-> "call", role |-> None, parts |-> <<x>>], OfBlock(t.blocks, "call"))
RenderResponsesRequest(req) ==
    LET r == Respelled("responses", req)
    IN [Body([r EXCEPT !.system = IF @ = <<>> THEN <<>> ELSE <<[@[1] EXCEPT !.xs = JoinXs(r.system)]>>,
                       !.stop = <<>>],
             Concat(MapSeq(ResponsesItems, r.turns)))
            EXCEPT !.effort = OpenAIEffort(req)]

\* A result names the function of the call it answers; there are no ids.
RenderContent(t, calls) ==
    LET called(id) == IF \E j \in 1..Len(calls) : calls[j].id = id
                      THEN calls[CHOOSE j \in 1..Len(calls) : calls[j].id = id].name ELSE id
        part(x) == [x EXCEPT !.name = IF x.b = "result" THEN called(x.id) ELSE @, !.id = NoName, !.bad = FALSE]
    IN [role |-> t.role, parts |-> MapSeq(part, SelectSeq(t.blocks, LAMBDA x : x.b # "thinking"))]
RenderGeminiRequest(req) ==
    LET calls == OfBlock(BlocksOf(req.turns), "call")
    IN [Body([req EXCEPT !.system = IF @ = <<>> THEN <<>> ELSE <<[@[1] EXCEPT !.xs = JoinXs(req.system)]>>,
                         !.prev = FALSE],
             MapSeq(LAMBDA t : RenderContent(t, calls), req.turns))
            EXCEPT !.extra = req.extra,
                   !.budget = IF req.budget # NoBudget THEN req.budget
                              ELSE IF req.effort # None THEN AsBudget(req.effort) ELSE NoBudget]

\* `render_messages` of Converse: blank blocks and thinking go, neighbours of one role are one
\* turn, and the first turn is a user's.
ConverseBlocks(t) ==
    SelectSeq(t.blocks, LAMBDA x : x.b # "thinking" /\ (x.b = "text" => x.xs # <<>>))
Continued == [role |-> "user", parts |-> <<Block("text", NoName, NoName, <<"(continued)">>)>>]
ConverseTurns(turns) ==
    LET add(done, t) ==
            LET parts == ConverseBlocks(t)
            IN IF parts = <<>> THEN done
               ELSE IF done # <<>> /\ Last(done).role = t.role
               THEN [done EXCEPT ![Len(done)].parts = @ \o parts]
               ELSE Append(done, [role |-> t.role, parts |-> parts])
        all == FoldLeft(add, <<>>, turns)
    IN IF all # <<>> /\ Head(all).role = "assistant" THEN <<Continued>> \o all ELSE all

\* A conversation with calls and no tools stands in for them with what was called.
ConverseTools(r) ==
    IF r.tools # <<>> THEN r.tools
    ELSE Distinct(MapSeq(LAMBDA x : x.name, OfBlock(BlocksOf(r.turns), "call")))
RenderConverseRequest(req) ==
    LET r == Respelled("converse", req)
        tools == ConverseTools(r)
    IN Body([r EXCEPT !.system = SelectSeq(@, LAMBDA x : x.xs # <<>>), !.tools = tools,
                      !.choice = IF tools = <<>> THEN NoName ELSE @,
                      !.format = IF @ = "schema" THEN @ ELSE None, !.prev = FALSE,
                      !.stop = SelectSeq(@, LAMBDA s : s # "")],
            ConverseTurns(r.turns))

\* The fields a writer refuses (RefusesNothing: none, and the field is lost).
RefusesNothing(u, req) == {}
Refusals(u, req) ==
    CASE u = "anthropic" -> (IF req.format \in {"object", "schema"} THEN {"format"} ELSE {})
                                \cup (IF req.prev THEN {"prev"} ELSE {})
      [] u \in {"chat", "gemini"} -> IF req.prev THEN {"prev"} ELSE {}
      [] u = "responses" -> IF req.stop # <<>> THEN {"stop"} ELSE {}
      [] u = "converse" ->
             (IF req.prev THEN {"prev"} ELSE {})
                 \cup (IF req.choice = Choice("none") /\ (req.tools # <<>> \/ OfBlock(BlocksOf(req.turns), "call") # <<>>)
                       THEN {"choice"} ELSE {})
                 \cup (IF req.format = "object" THEN {"format"} ELSE {})
Write(u, req, model) ==
    CASE u = "anthropic" -> RenderAnthropicRequest(req, model)
      [] u = "chat" -> RenderChatRequest(req)
      [] u = "responses" -> RenderResponsesRequest(req)
      [] u = "gemini" -> RenderGeminiRequest(req)
      [] u = "converse" -> RenderConverseRequest(req)

--------------------------------------------------------------------------------
(* The readers. *)

Turn(role, blocks) == [role |-> role, blocks |-> blocks]
TextOf(xs) == Block("text", NoName, NoName, xs)
Canonical(b, turns, system) ==
    [turns |-> turns, system |-> system, tools |-> b.tools, choice |-> b.choice, format |-> b.format,
     stop |-> b.stop, prev |-> b.prev, max |-> b.max, effort |-> None, budget |-> NoBudget, extra |-> FALSE]
\* A block joins the last turn if that is the role's, or begins one.
Joins(turns, role, x) ==
    IF turns # <<>> /\ Last(turns).role = role THEN [turns EXCEPT ![Len(turns)].blocks = Append(@, x)]
    ELSE Append(turns, Turn(role, <<x>>))

ParseMessage(m) == Turn(m.role, m.parts)
ParseAnthropicRequest(b) ==
    [Canonical(b, MapSeq(ParseMessage, b.msgs), b.system)
        EXCEPT !.budget = b.budget, !.prev = FALSE, !.format = None,
               !.effort = CASE b.budget # NoBudget -> FromBudget(b.budget)
                            [] b.budget = NoBudget /\ b.adaptive -> IF b.effort = None THEN "medium" ELSE b.effort
                            [] OTHER -> None]

\* `parse_one_message`: system texts go to the front, tool messages into the user's turn.
ParseOneMessage(so, m) ==
    LET text == IF m.xs = <<>> /\ m.images = <<>> THEN <<>> ELSE <<TextOf(m.xs)>>
        blocks == text \o m.images \o m.calls
    IN CASE m.role = "system" -> [so EXCEPT !.system = Append(@, TextOf(m.xs))]
         [] m.role = "tool" ->
                [so EXCEPT !.turns = Joins(@, "user", Block("result", m.id, NoName, m.xs))]
         [] OTHER -> IF blocks = <<>> THEN so ELSE [so EXCEPT !.turns = Append(@, Turn(m.role, blocks))]
ParseChatRequest(b) ==
    LET so == FoldLeft(ParseOneMessage, [system |-> <<>>, turns |-> <<>>], b.msgs)
    IN [Canonical(b, so.turns, so.system) EXCEPT !.effort = b.effort, !.prev = FALSE]

\* `parse_input_item`: a call joins the assistant's turn, an output the user's.
ParseInputItem(turns, item) ==
    CASE item.type = "call" -> Joins(turns, "assistant", item.parts[1])
      [] item.type = "output" -> Joins(turns, "user", [item.parts[1] EXCEPT !.bad = FALSE])
      [] item.type = "message" -> Append(turns, Turn(item.role, item.parts))
ParseResponsesRequest(b) ==
    [Canonical(b, FoldLeft(ParseInputItem, <<>>, b.msgs), SelectSeq(b.system, LAMBDA x : x.xs # <<>>))
        EXCEPT !.effort = b.effort, !.stop = <<>>,
               !.budget = IF b.effort = None THEN NoBudget ELSE AsBudget(b.effort)]

\* `Passthrough::capture`: what the reader has no name for is kept for its own dialect's writer.
Capture(b) == b.extra
\* The name is the identity of a call in this dialect; an empty content is no turn.
ParseContent(m) ==
    LET block(x) == [x EXCEPT !.id = IF x.b \in {"call", "result"} THEN x.name ELSE @,
                              !.name = IF x.b = "result" THEN NoName ELSE @]
    IN Turn(m.role, MapSeq(block, m.parts))
ParseGeminiRequest(b) ==
    LET turns == SelectSeq(MapSeq(ParseContent, b.msgs), LAMBDA t : t.blocks # <<>>)
    IN [Canonical(b, turns, b.system)
            EXCEPT !.prev = FALSE, !.budget = b.budget, !.extra = Capture(b),
                   !.effort = IF b.budget = NoBudget THEN None ELSE FromBudget(b.budget)]
Read(c, b) ==
    CASE c = "anthropic" -> ParseAnthropicRequest(b)
      [] c = "chat" -> ParseChatRequest(b)
      [] c = "responses" -> ParseResponsesRequest(b)
      [] c = "gemini" -> ParseGeminiRequest(b)
      [] c = "converse" -> [Canonical(b, MapSeq(ParseMessage, b.msgs), b.system)
                               EXCEPT !.prev = FALSE]

--------------------------------------------------------------------------------
(* One request.  The client spells what it means as this crate would spell it.  *)

RequestInit ==
    /\ ask \in {a \in [from : RequestDialects, to : RequestDialects \cup {"converse"}, req : Asks,
                       listed : Levels, model : {"budget", "adaptive", "neither"}] :
                    /\ Refusals(a.from, a.req) = {}
                    /\ a.to # "anthropic" => a.model = "neither"}
    /\ stage = "asked" /\ read = None /\ body = None

ReadRequest ==
    /\ stage = "asked" /\ stage' = "read"
    /\ read' = Read(ask.from, Write(ask.from, ask.req, "adaptive"))
    /\ UNCHANGED <<ask, body>>
RenderRequest ==
    /\ stage = "read"
    /\ LET fitted == ForModel(read, ask.listed, ask.to)
       IN IF Refusals(ask.to, fitted) # {} THEN stage' = "refused" /\ body' = body
          ELSE stage' = "written" /\ body' = Write(ask.to, fitted, ask.model)
    /\ UNCHANGED <<ask, read>>

RequestNext == ReadRequest \/ RenderRequest \/ (stage \in {"written", "refused"} /\ UNCHANGED requestVars)

--------------------------------------------------------------------------------
(* Properties. *)

\* What a conversation says: its texts and images by role, its calls, and of each result
\* the calls it can be the answer to.
Essence(req) ==
    LET by(role) == BlocksOf(SelectSeq(req.turns, LAMBDA t : t.role = role))
        calls == OfBlock(BlocksOf(req.turns), "call")
        results == OfBlock(BlocksOf(req.turns), "result")
    IN [said |-> [role \in {"user", "assistant"} |-> JoinXs(OfBlock(by(role), "text"))],
        shown |-> JoinXs(OfBlock(BlocksOf(req.turns), "image")),
        told |-> JoinXs(req.system),
        calls |-> MapSeq(LAMBDA x : x.xs, calls),
        answers |-> MapSeq(LAMBDA r : <<r.xs, {j \in 1..Len(calls) : calls[j].id = r.id}>>, results)]
Unsaid(e) == [e EXCEPT !.said["user"] = SelectSeq(@, LAMBDA x : x # "(continued)")]
Ambiguous == LET names == MapSeq(LAMBDA x : x.name, OfBlock(BlocksOf(ask.req.turns), "call"))
             IN Len(Distinct(names)) # Len(names)

\* A translated request is the request that was made: no text, image, call, result, tool or
\* setting is lost or changed on the way from one dialect to another, and a result still answers
\* the call it answered, unless the request was refused with the field the upstream has no place
\* for.  Gemini has no ids: there, two calls of one function cannot be told apart.
RequestKept ==
    (stage = "written" /\ (Ambiguous => "gemini" \notin {ask.from, ask.to})) =>
        LET heard == Read(ask.to, body)
        IN /\ Unsaid(Essence(heard)) = Essence(ask.req)
           /\ body.stop = ask.req.stop \/ "responses" = ask.from
           /\ body.format = ask.req.format \/ {body.format, ask.req.format} \subseteq {None, "text"}
           /\ body.prev = read.prev
           /\ body.extra = (ask.req.extra /\ ask.from = "gemini" /\ ask.to = "gemini")
           /\ (ask.req.tools # <<>>) => Len(body.tools) = Len(ask.req.tools)
           /\ (body.choice = NoName) <=> (ask.req.choice = NoName \/ (body.tools = <<>> /\ ask.to = "converse"))
           /\ body.choice \in ToSet(body.tools) <=> ask.req.choice \in ToSet(ask.req.tools)

Follows(j) == LET m == body.msgs[j] IN
    \E k \in 1..(j - 1) : /\ \E i \in 1..Len(body.msgs[k].calls) : body.msgs[k].calls[i].id = m.id
                          /\ \A i \in (k + 1)..(j - 1) : body.msgs[i].role = "tool"

\* The wire takes the conversation: Chat Completions wants the results of a turn's calls right
\* after it, one message each; Converse wants turns of alternating roles, a user's first, none
\* empty, and the results in the turn after the calls.
WireAccepts ==
    stage = "written" =>
        /\ ask.to = "chat" =>
               \A j \in 1..Len(body.msgs) : body.msgs[j].role = "tool" => Follows(j)
        /\ ask.to = "converse" =>
               \A j \in 1..Len(body.msgs) :
                   /\ body.msgs[j].role = (IF j % 2 = 1 THEN "user" ELSE "assistant")
                   /\ body.msgs[j].parts # <<>>
                   /\ \A i \in 1..Len(body.msgs[j].parts) :
                          body.msgs[j].parts[i].b = "result" =>
                              j > 1 /\ \E k \in 1..Len(body.msgs[j - 1].parts) :
                                           /\ body.msgs[j - 1].parts[k].b = "call"
                                           /\ body.msgs[j - 1].parts[k].id = body.msgs[j].parts[i].id

\* Respelled names and ids are legal on the wire, differ where the originals differ, and lead
\* back to the name or the id the client used (`restore_in_events`).
SpellingRestorable ==
    stage = "written" =>
        LET names == NameMap(read)
            ids   == IdMap(ask.to, read)
            all   == ToSet(Originals(read))
            allIds == {x.id : x \in {y \in ToSet(BlocksOf(read.turns)) : y.b \in {"call", "result"}}}
        IN /\ RespellsNames(ask.to) =>
                  \A n \in all : /\ LegalName(Wire(names, n)) /\ Restore(names, Wire(names, n)) = n
                                 /\ \A m \in all : Wire(names, m) = Wire(names, n) => m = n
           /\ RespellsIds(ask.to) =>
                  \A n \in allIds : /\ LegalId(ask.to, Wire(ids, n)) /\ Restore(ids, Wire(ids, n)) = n
                                    /\ \A m \in allIds : Wire(ids, m) = Wire(ids, n) => m = n

\* Reasoning that was asked for is asked of the upstream in a form it takes: a budget below the
\* answer's ceiling, a level no higher than the one asked, and `ultra` only of a model that lists
\* it in a dialect that can say it; reasoning that was not asked for is not.
ReasoningFits ==
    stage = "written" =>
        LET e == ask.req.effort
        IN /\ body.budget # NoBudget =>
                  /\ ask.to = "anthropic" => (body.budget >= 1024 /\ body.budget < body.max)
                  /\ body.budget <= (IF e = None THEN 0 ELSE AsBudget(e))
           /\ body.effort # None => (e # None /\ Rank(body.effort) <= Rank(e))
           /\ body.effort = "ultra" => ("ultra" \in ask.listed /\ ask.to \in {"chat", "responses"})
           /\ (ask.to \in {"chat", "responses"} /\ e \notin {None, "off"}) => body.effort # None

\* A request reaches its upstream as it was meant, in the words of a dialect that accepts
\* it, under names that can be told apart on the way back, with reasoning the model takes.
RequestArrives == RequestKept /\ WireAccepts /\ SpellingRestorable /\ ReasoningFits
================================================================================
