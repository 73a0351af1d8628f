----------------------------- MODULE MCStreaming -----------------------------
(* A request on its way out and an answer on its way back, one part a      *)
(* behaviour: a request rendered for its upstream (request), an answer     *)
(* pumped or collected (stream), and the binary frames of Bedrock's        *)
(* streams cut into reads (frames).                                        *)
EXTENDS Streaming, Requests, EventStream

VARIABLE part

\* Conversations: calls with ids and names that need respelling and collide when
\* respelled, results before and after text, blank text, an assistant's first turn.
Spelt(stem, style, n) == [stem |-> stem, style |-> style, n |-> n]
User(xs) == Turn("user", <<TextOf(xs)>>)
Replies(xs) == Turn("assistant", <<TextOf(xs)>>)
Call(id, name, x) == Block("call", id, name, <<x>>)
Result(id, x) == Block("result", id, NoName, <<x>>)
Image(x) == Block("image", NoName, NoName, <<x>>)
Thought(x) == Block("thinking", NoName, NoName, <<x>>)
One == Spelt("i", "plain", 0)
Ids == {<<One, Spelt("j", "plain", 0)>>, <<Spelt("i", "dotted", 0), Spelt("i", "odd", 0)>>,
        <<Spelt("i", "odd", 0), One>>}
Names == {<<Spelt("f", "odd", 0), Spelt("f", "odder", 0)>>, <<Spelt("f", "odd", 0), Spelt("f", "plain", 0)>>,
          <<Spelt("f", "plain", 0), Spelt("f", "plain", 0)>>, <<Spelt("f", "plain", 2), Spelt("f", "odd", 0)>>}
Conversations(i, n) ==
    {<<User(<<"a">>)>>,
     <<Turn("user", <<TextOf(<<"a">>), Image("p"), TextOf(<<"b">>)>>), Replies(<<"c">>), User(<<>>), User(<<"d">>)>>,
     <<Replies(<<"c">>), User(<<"a">>)>>,
     <<User(<<"a">>), Turn("assistant", <<Thought("h"), TextOf(<<"b">>), Call(i[1], n[1], "x")>>),
       Turn("user", <<Result(i[1], "r"), TextOf(<<"c">>)>>)>>,
     <<User(<<"a">>), Turn("assistant", <<Call(i[1], n[1], "x"), Call(i[2], n[2], "y")>>),
       Turn("user", <<TextOf(<<"c">>), Result(i[2], "s"), Result(i[1], "r")>>)>>}
Plainly == [system |-> <<>>, tools |-> <<>>, choice |-> NoName, format |-> None, stop |-> <<>>, prev |-> FALSE,
            max |-> 5000, effort |-> None, budget |-> NoBudget, extra |-> FALSE]
MCAsks ==
    UNION {LET base(c) == [turns |-> c] @@ Plainly
           IN UNION {{[base(c) EXCEPT !.tools = Distinct(n), !.choice = k] : c \in Conversations(i, n),
                                                        k \in {NoName, Choice("auto"), Choice("none"), n[1]}}
                     \cup {[base(c) EXCEPT !.format = f, !.stop = s, !.prev = p,
                                           !.system = <<TextOf(<<"s">>), TextOf(<<"t">>)>>] :
                               c \in Conversations(i, n), f \in {None, "text", "object", "schema"},
                               s \in {<<>>, <<"z">>}, p \in BOOLEAN}
                     \cup {[base(<<User(<<"a">>)>>) EXCEPT !.effort = e, !.max = m] :
                               e \in ToSet(Efforts), m \in {1024, 1025, 5000, 70000}}
                     \cup {[base(c) EXCEPT !.extra = TRUE] : c \in Conversations(i, n)} : i \in Ids}
           : n \in Names}
MCLevels == {{}, {"low", "high"}, {"low", "max", "ultra"}, {"ultra"}}

\* Bedrock messages: headers of every type a reader skips, in front of the one it
\* wants; and preludes that lie about the message's length or its headers'.
H(name, value) == [name |-> name, value |-> value, type |-> 7, length |-> 1]
Other(type) == [name |-> "other", value |-> "", type |-> type, length |-> 1]
Heads == {<<H("event-type", "chunk")>>, <<>>, <<Other(9), H("exception-type", "throttling")>>,
          <<Other(8), Other(0), H("message-type", "error")>>}
Message(heads, payload) == [heads |-> heads, headers |-> BlockLen(heads), payload |-> payload,
                            size |-> BlockLen(heads) + 5, total |-> BlockLen(heads) + 5]
Messages == {Message(h, payload) : h \in Heads, payload \in {"wrapped", "json", "text"}}
Sane == Message(<<>>, "wrapped")
Lying == {[Sane EXCEPT !.total = 1], [Sane EXCEPT !.total = 100], [Sane EXCEPT !.headers = 2]}
MCWires == {<<a, b>> : a, b \in Messages} \cup {<<Sane, bad, c>> : bad \in Lying, c \in Messages}

\* A part that is not being run stays where it may start.
RequestIdle == ask = [from |-> "chat", to |-> "chat", req |-> CHOOSE a \in Asks : TRUE, listed |-> {}, model |-> "neither"]
               /\ stage = "asked" /\ read = None /\ body = None
StreamIdle == pair = (CHOOSE q \in Pairs : TRUE) /\ StreamInit
FrameIdle == line = <<Sane, Sane>> /\ reader = "inner" /\ FrameInit
Init ==
    \/ part = "request" /\ RequestInit /\ StreamIdle /\ FrameIdle
    \/ part = "stream" /\ StreamInit /\ RequestIdle /\ FrameIdle
    \/ part = "frames" /\ FrameInit /\ RequestIdle /\ StreamIdle
Next ==
    /\ UNCHANGED part
    /\ IF part = "request" THEN RequestNext ELSE UNCHANGED requestVars
    /\ IF part = "stream" THEN StreamNext ELSE UNCHANGED streamVars
    /\ IF part = "frames" THEN FrameNext ELSE UNCHANGED frameVars
Spec == Init /\ [][Next]_<<part, requestVars, streamVars, frameVars>>
==============================================================================
