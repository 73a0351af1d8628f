---------------------------- MODULE EventStream ----------------------------
(***************************************************************************)
(* The binary framing of a Bedrock stream: messages with a length up       *)
(* front, cut into reads anywhere, whose headers say what each one is.     *)
(*                                                                         *)
(* The line is a sequence of messages and a position in it is a count of   *)
(* units: a prelude is three and the trailing checksum one; a header is    *)
(* two, its name and its type, and as many as its value is long.  What     *)
(* stands at a position that is not the start of a message, or of a        *)
(* header, is bytes that mean nothing as one.                              *)
(***************************************************************************)
EXTENDS Integers, FiniteSets, Sequences, SequencesExt

CONSTANTS
    Wires,        \* the sequences of messages an upstream may send
    MaxMessage,   \* MAX_MESSAGE_LEN
    MaxPending,   \* MAX_PENDING
    MaxRead       \* bound: the most one read brings

VARIABLES
    line,      \* what is being sent
    reader,    \* "inner" for InvokeModel, "converse" for ConverseStream
    arrived,   \* how much of it has been read
    consumed,  \* how much of that was framed: pending is what is between
    payloads,  \* what take_payloads gave the pump, in order
    ended      \* "no", "body": it ended, "overrun": pending passed its bound
frameVars == <<line, reader, arrived, consumed, payloads, ended>>

Prelude == 3
Overhead == Prelude + 1

(* The format's own widths of a header value, by its type.                 *)
Width(h) ==
    CASE h.type \in {0, 1} -> 0 [] h.type = 2 -> 1 [] h.type = 3 -> 2 [] h.type = 4 -> 4
      [] h.type \in {5, 8} -> 8 [] h.type = 9 -> 16 [] OTHER -> 2 + h.length
(* Where each of several things, one after another, ends.                  *)
Ends(sizes) ==
    LET end[k \in 0..Len(sizes)] == IF k = 0 THEN 0 ELSE end[k - 1] + sizes[k] IN end
HeaderStart(heads, i) == Ends([k \in 1..Len(heads) |-> 2 + Width(heads[k])])[i - 1]
BlockLen(heads) == HeaderStart(heads, Len(heads) + 1)
MessageStart(i) == Ends([k \in 1..Len(line) |-> line[k].size])[i - 1]
WireLength == MessageStart(Len(line) + 1)

-----------------------------------------------------------------------------
(* parse_headers: every type is skipped by its width, read or not, and an  *)
(* unknown one ends the block.                                             *)
SkipUuidAsLong(h) == IF h.type = 9 THEN 8 ELSE Width(h)
Skip(h) == Width(h)
HeadersFrom(heads) ==
    LET from[p \in 0..BlockLen(heads) + 16] ==
            LET here == {i \in DOMAIN heads : HeaderStart(heads, i) = p}
            IN IF here = {} \/ (\E i \in here : heads[i].type > 9) THEN <<>>
               ELSE LET h == heads[CHOOSE i \in here : TRUE] IN <<h>> \o from[p + 2 + Skip(h)]
    IN from[0]
(* The last header of a name is kept, where it is a string.                *)
Kept(heads, name) ==
    LET read == HeadersFrom(heads)
        last == {i \in DOMAIN read : read[i].name = name /\ \A j \in DOMAIN read : j > i => read[j].name # name}
    IN {read[i].value : i \in {i \in last : read[i].type = 7}}
Held(heads, name) == Kept(heads, name) # {}

(* stream_error, exception_event, inner_event and converse_event.          *)
StreamError(m) == "error" \in Kept(m.heads, "message-type")
InnerEvent(m) ==
    IF Held(m.heads, "exception-type") \/ StreamError(m) THEN <<"error">>
    ELSE IF m.payload = "wrapped" THEN <<"event">> ELSE <<>>
ConverseEvent(m) ==
    IF StreamError(m) \/ Held(m.heads, "exception-type") THEN <<"error">>
    ELSE IF Held(m.heads, "event-type") /\ m.payload # "text" THEN <<"event">> ELSE <<>>
EventOf(m) == IF reader = "inner" THEN InnerEvent(m) ELSE ConverseEvent(m)

(* take_messages: every complete message from the front of the buffer; a   *)
(* prelude no message can have stops the reader where it stands.           *)
Plausible(m) == m.total \in Overhead..MaxMessage /\ m.headers <= m.total - Overhead
TakeMessages(upTo) ==
    LET from[p \in consumed..upTo] ==
            LET here == {i \in DOMAIN line : MessageStart(i) = p}
                stops == upTo - p < Prelude \/ here = {} \/ \E i \in here : ~ Plausible(line[i]) \/ upTo - p < line[i].total
            IN IF stops THEN [to |-> p, messages |-> <<>>]
               ELSE LET m == line[CHOOSE i \in here : TRUE]
                        rest == from[p + m.total]
                    IN [to |-> rest.to, messages |-> <<m>> \o rest.messages]
    IN from[consumed]

(* One read of pump_with, or of collect_with.                              *)
ReadsBytes(n) ==
    /\ ended = "no" /\ arrived + n <= WireLength
    /\ LET took == TakeMessages(arrived + n)
           events == [i \in DOMAIN took.messages |-> EventOf(took.messages[i])]
       IN /\ arrived' = arrived + n /\ consumed' = took.to
          /\ payloads' = payloads \o FlattenSeq(events)
          /\ ended' = IF arrived + n - took.to > MaxPending THEN "overrun" ELSE ended
    /\ UNCHANGED <<line, reader>>
BodyEnds ==
    /\ ended = "no" /\ ended' = "body"
    /\ UNCHANGED <<line, reader, arrived, consumed, payloads>>

FrameInit ==
    /\ line \in Wires /\ reader \in {"inner", "converse"}
    /\ arrived = 0 /\ consumed = 0 /\ payloads = <<>> /\ ended = "no"
FrameNext == BodyEnds \/ \E n \in 1..MaxRead : ReadsBytes(n)
FrameSpec == FrameInit /\ [][FrameNext]_frameVars

-----------------------------------------------------------------------------
(* What a message tells the client, from its headers as they were sent.    *)
Says(m, name) == \E i \in DOMAIN m.heads : m.heads[i].name = name
Tells(m) ==
    LET fails == \E i \in DOMAIN m.heads : m.heads[i].name = "message-type" /\ m.heads[i].value = "error"
    IN IF Says(m, "exception-type") \/ fails THEN <<"error">>
       ELSE IF reader = "inner" /\ m.payload = "wrapped" THEN <<"event">>
       ELSE IF reader = "converse" /\ Says(m, "event-type") /\ m.payload # "text" THEN <<"event">>
       ELSE <<>>

(* The prelude says what follows it.                                       *)
Honest(m) == m.total = m.size /\ m.headers = BlockLen(m.heads)

\* Headers are of the format's types, and one that is read is a string and is there
\* once.  A message is within the reader's bound, and where its prelude is not what
\* follows it, it is one that no message can have.
Header == [name : STRING, value : STRING, type : 0..9, length : Nat]
Readable == {"event-type", "exception-type", "message-type"}
ASSUME WireAssumption ==
    /\ MaxRead \in Nat
    /\ \A w \in Wires :
        /\ w \in Seq([heads : Seq(Header), headers : Int, payload : STRING, size : Nat \ {0}, total : Int])
        /\ \A k \in DOMAIN w :
              /\ Plausible(w[k]) <=> Honest(w[k])
              /\ \A i \in DOMAIN w[k].heads : w[k].heads[i].name \in Readable =>
                    /\ w[k].heads[i].type = 7
                    /\ \A j \in DOMAIN w[k].heads : w[k].heads[j].name = w[k].heads[i].name => j = i

(* However a stream is cut into reads, the pump is given what its messages *)
(* say, each once, whole and in order, every one of the messages that have *)
(* arrived and none from behind a prelude that no message can have: and a  *)
(* failure among them is told whatever headers stand before it and         *)
(* whatever its payload is.                                                *)
FramesKept ==
    LET whole == {i \in DOMAIN line : MessageStart(i + 1) <= arrived /\ \A j \in 1..i : Honest(line[j])}
    IN payloads = FlattenSeq([i \in 1..Cardinality(whole) |-> Tells(line[i])])
=============================================================================
