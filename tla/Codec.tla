-------------------------------- MODULE Codec --------------------------------
(***************************************************************************)
(* The message codec both binaries share (crates/proto/src/lib.rs), byte   *)
(* by byte: encode and decode of a body, which is one WebSocket message,   *)
(* and the length-prefixed frame of a QUIC stream.                         *)
(*                                                                         *)
(* A byte is a number below 256, a body a sequence of bytes, and a string  *)
(* the sequence of its UTF-8 bytes.                                        *)
(* The limits are constants, so that strings at and beyond them stay short.*)
(***************************************************************************)
EXTENDS Integers, Sequences, FiniteSetsExt

CONSTANTS
    MAX_CONNECT_TARGET_LEN, MAX_CONNECT_ERR_LEN, MAX_AUTH_TOKEN_LEN, MAX_DATA_PAYLOAD_LEN,
    Messages,   \* messages to encode; the strings in them are UTF-8
    Bodies,     \* bodies to decode
    Tails       \* bytes that may follow a frame on its stream

VARIABLE line   \* one exchange of a message between the two binaries

\* Mutant: the cap of a frame leaves out the stream id.
FrameCapShort == MAX_CONNECT_TARGET_LEN + 3

MAX_FRAME_BODY_LEN == MAX_CONNECT_TARGET_LEN + 7

MAX_MESSAGE_BODY_LEN == MAX_DATA_PAYLOAD_LEN + 9

\* A Message.  `text` is the target, the error, the payload or the token, `n` the bytes
\* of a WindowUpdate; what a type does not have is empty or 0.
Message(type, id, text, n) == [type |-> type, stream_id |-> id, text |-> text, n |-> n]

MessageType == [Connect |-> 1, ConnectOk |-> 2, ConnectErr |-> 3, Data |-> 16, Close |-> 32,
                Reset |-> 33, WindowUpdate |-> 34, Auth |-> 64]

\* An error of encode is an empty body, which decode takes for nothing; one of decode is
\* a message of no type.
Refused == <<>>
Bad == Message("bad", 0, <<>>, 0)

\* The bytes of a buffer, and the numbers that u16 and u32 hold.
Byte == 0..255
U16 == {n \in Nat : n \div 256 < 256}
U32 == {n \in Nat : n \div 16777216 < 256}

be_u16(n) == <<n \div 256, n % 256>>
be_u32(n) == <<n \div 16777216, (n \div 65536) % 256, (n \div 256) % 256, n % 256>>

-----------------------------------------------------------------------------
\* UTF-8, as String guarantees and String::from_utf8 tests it.
Continuation(b) == b \in 128..191

\* The bytes of the character that begins with b; none does with the other bytes.
Width(b) == IF b < 128 THEN 1 ELSE IF b \in 194..223 THEN 2
            ELSE IF b \in 224..239 THEN 3 ELSE IF b \in 240..244 THEN 4 ELSE 0

\* Over-long forms, surrogates and numbers beyond the last character show in the second byte.
Second(b, c) ==
    (b = 224 => c >= 160) /\ (b = 237 => c < 160) /\ (b = 240 => c >= 144) /\ (b = 244 => c < 144)

CharAt(s, i) ==
    /\ Width(s[i]) > 0 /\ i + Width(s[i]) - 1 <= Len(s)
    /\ \A j \in 1..(Width(s[i]) - 1) : Continuation(s[i + j])
    /\ Width(s[i]) > 1 => Second(s[i], s[i + 1])

InChar(s, i) == \E j \in 1..3 : j < i /\ Width(s[i - j]) > j

IsUtf8(s) == \A i \in DOMAIN s : IF Continuation(s[i]) THEN InChar(s, i) ELSE CharAt(s, i)

\* What the Message type admits.
WellFormed(m) ==
    /\ m = Message(m.type, m.stream_id, m.text, m.n) /\ m.type \in DOMAIN MessageType
    /\ m.stream_id \in U32 /\ m.text \in Seq(Byte) /\ m.n \in U32
    /\ m.type \in {"Connect", "ConnectErr", "Auth"} => IsUtf8(m.text)
    /\ m.type \in {"ConnectOk", "Close", "Reset", "WindowUpdate"} => m.text = <<>>
    /\ m.type = "Auth" => m.stream_id = 0
    /\ m.type # "WindowUpdate" => m.n = 0

\* str::floor_char_boundary: the last boundary of a character at or before n.
floor_char_boundary(s, n) ==
    IF n >= Len(s) THEN Len(s)
    ELSE Max({i \in 0..n : ~Continuation(s[i + 1])})

\* An over-long error is cut.
CutError(s) == SubSeq(s, 1, floor_char_boundary(s, MAX_CONNECT_ERR_LEN))

put_str(s, min, max) == IF Len(s) \in min..max THEN be_u16(Len(s)) \o s ELSE Refused

\* encode_into: the type and the stream id, then the fields.
put_head(m) ==
    IF m.type = "Auth" THEN <<MessageType[m.type]>>
    ELSE <<MessageType[m.type]>> \o be_u32(m.stream_id)

encode(m) ==
    LET Str(s) == IF s = Refused THEN Refused ELSE put_head(m) \o s
    IN  CASE m.type = "Connect" -> Str(put_str(m.text, 0, MAX_CONNECT_TARGET_LEN))
          [] m.type = "ConnectErr" -> Str(put_str(CutError(m.text), 0, MAX_CONNECT_ERR_LEN))
          [] m.type = "Auth" -> Str(put_str(m.text, 1, MAX_AUTH_TOKEN_LEN))
          [] m.type = "Data" ->
                IF Len(m.text) > MAX_DATA_PAYLOAD_LEN THEN Refused
                ELSE put_head(m) \o (be_u32(Len(m.text)) \o m.text)
          [] m.type = "WindowUpdate" -> put_head(m) \o be_u32(m.n)
          [] m.type \in {"ConnectOk", "Close", "Reset"} -> put_head(m)

\* frame: [u32 BE body_len][body].
frame(m) == IF encode(m) = Refused THEN Refused ELSE be_u32(Len(encode(m))) \o encode(m)

-----------------------------------------------------------------------------
\* The cursor of decode is a pair of what was read and of what is left; an error reads
\* as Short.
Short == [value |-> -1, text |-> <<>>, rest |-> <<>>]

get_u32(b) ==
    IF Len(b) < 4 THEN Short
    ELSE [value |-> ((b[1] * 256 + b[2]) * 256 + b[3]) * 256 + b[4], text |-> <<>>,
          rest |-> SubSeq(b, 5, Len(b))]

\* `len` bytes of a string or a payload, after their length was read.
Take(b, len) == [value |-> len, text |-> SubSeq(b, 1, len), rest |-> SubSeq(b, len + 1, Len(b))]

get_str(b, min, max) ==
    IF Len(b) < 2 THEN Short
    ELSE LET len == b[1] * 256 + b[2]
             s == Take(SubSeq(b, 3, Len(b)), len)
         IN  IF len \notin min..max \/ Len(b) - 2 < len \/ ~IsUtf8(s.text) THEN Short ELSE s

get_data(b) ==
    LET len == get_u32(b)
    IN  IF len = Short \/ len.value > MAX_DATA_PAYLOAD_LEN \/ Len(len.rest) < len.value THEN Short
        ELSE Take(len.rest, len.value)

\* Mutant: bytes after the message are ignored.
CompleteWithTail(field) == field # Short

\* Every field was there, and no bytes trail.
Complete(field) == field # Short /\ field.rest = <<>>

\* decode: the type, its fields in turn, and nothing after them.
TypeOf(b) == CHOOSE t \in DOMAIN MessageType : MessageType[t] = b[1]

get_id(type, b) ==
    IF type = "Auth" THEN [value |-> 0, text |-> <<>>, rest |-> b] ELSE get_u32(b)

get_field(type, id) ==
    CASE type = "Connect" -> get_str(id.rest, 0, MAX_CONNECT_TARGET_LEN)
      [] type = "ConnectErr" -> get_str(id.rest, 0, MAX_CONNECT_ERR_LEN)
      [] type = "Auth" -> get_str(id.rest, 1, MAX_AUTH_TOKEN_LEN)
      [] type = "Data" -> get_data(id.rest)
      [] type = "WindowUpdate" -> get_u32(id.rest)
      [] type \in {"ConnectOk", "Close", "Reset"} -> id

decode(b) ==
    IF b = <<>> \/ ~\E t \in DOMAIN MessageType : MessageType[t] = b[1] THEN Bad
    ELSE
    LET type == TypeOf(b)
        id == get_id(type, Tail(b))
        field == get_field(type, id)
    IN  IF id = Short \/ ~Complete(field) THEN Bad
        ELSE Message(type, id.value, field.text, IF type = "WindowUpdate" THEN field.value ELSE 0)

Reading(state, m, rest) == [state |-> state, message |-> m, rest |-> rest]

\* read_frame of the bytes `s` that have arrived: the message and what stays on the
\* stream, an error, or "wait" for more.
read_frame(s) ==
    LET len == get_u32(s)
    IN  IF len = Short THEN Reading("wait", Bad, s)
        ELSE IF len.value \notin 1..MAX_FRAME_BODY_LEN THEN Reading("error", Bad, len.rest)
        ELSE IF Len(len.rest) < len.value THEN Reading("wait", Bad, s)
        ELSE LET body == Take(len.rest, len.value)
             IN  Reading(IF decode(body.text) = Bad THEN "error" ELSE "ok",
                         decode(body.text), body.rest)

-----------------------------------------------------------------------------
\* The constants of lib.rs: a length limit fits the field that carries the length, and the
\* caps of a frame and of a message are those of the longest one.
ASSUME LimitsAssumption ==
    /\ MAX_CONNECT_TARGET_LEN \in U16 /\ MAX_DATA_PAYLOAD_LEN \in U32
    /\ MAX_CONNECT_ERR_LEN \in 0..MAX_CONNECT_TARGET_LEN
    /\ MAX_AUTH_TOKEN_LEN \in 0..MAX_CONNECT_TARGET_LEN
    /\ MAX_CONNECT_TARGET_LEN <= MAX_DATA_PAYLOAD_LEN

ASSUME InputsAssumption ==
    /\ \A m \in Messages : WellFormed(m)
    /\ Bodies \subseteq Seq(Byte) /\ Tails \subseteq Seq(Byte)

\* The two carriers of a message.  A WebSocket message is whole or not there.  A QUIC
\* stream arrives byte by byte, and the payload of the splice follows the frame.

\* carrier: "idle", "message" or "stream".  sent: the message encoded, or Bad for a body
\* of another origin.  due, here: the bytes under way and those that have arrived.
\* tail: what the sender writes after the frame.  read: what the receiver has made of it.
Line(carrier, m, due, here, tail) ==
    [carrier |-> carrier, sent |-> m, due |-> due, here |-> here, tail |-> tail,
     read |-> Reading("wait", Bad, <<>>)]

CodecInit == line = Line("idle", Bad, <<>>, <<>>, <<>>)

\* The writer of a WSS session encodes a message, or ends with the error of it.
SendMessage(m) ==
    /\ line' = Line("message", m, <<>>, encode(m), <<>>)

\* A body from elsewhere.
OtherMessage(b) ==
    /\ line' = Line("message", Bad, <<>>, b, <<>>)

ReadMessage ==
    /\ line.carrier = "message"
    /\ line.read.state = "wait"
    /\ line' = [line EXCEPT !.read = Reading("ok", decode(line.here), <<>>)]

\* write_all of a frame, and what the splice writes behind it.
WriteFrame(m, tail) ==
    /\ frame(m) # Refused
    /\ line' = Line("stream", m, frame(m) \o tail, <<>>, tail)

Arrive ==
    /\ line.due # <<>>
    /\ line' = [line EXCEPT !.here = Append(@, Head(line.due)), !.due = Tail(@)]

ReadFrame ==
    /\ line.carrier = "stream"
    /\ line.read.state = "wait"
    /\ read_frame(line.here).state # "wait"
    /\ line' = [line EXCEPT !.read = read_frame(line.here), !.here = read_frame(line.here).rest]

\* The messages that travel on a stream of their own.
Framed(m) == m.type \in {"Connect", "ConnectOk", "ConnectErr", "Auth"}

Begin ==
    /\ line.carrier = "idle"
    /\ \/ \E m \in Messages : SendMessage(m)
       \/ \E b \in Bodies : OtherMessage(b)
       \/ \E m \in Messages, tail \in Tails : Framed(m) /\ WriteFrame(m, tail)

CodecNext == Begin \/ ReadMessage \/ Arrive \/ ReadFrame

CodecSpec == CodecInit /\ [][CodecNext]_line

-----------------------------------------------------------------------------
\* What the receiver is meant to see of a message.
Meant(m) == IF m.type = "ConnectErr" THEN [m EXCEPT !.text = CutError(@)] ELSE m

\* A message is refused exactly when a field is outside its limits.
OverLimit(m) ==
    \/ m.type = "Connect" /\ Len(m.text) > MAX_CONNECT_TARGET_LEN
    \/ m.type = "Auth" /\ Len(m.text) \notin 1..MAX_AUTH_TOKEN_LEN
    \/ m.type = "Data" /\ Len(m.text) > MAX_DATA_PAYLOAD_LEN

\* encode and decode are inverses at every limit: what is not refused decodes to itself
\* (an error to its longest prefix of whole characters) and fits a WebSocket message, and
\* a body that decodes is the only encoding of what it decodes to.
CodecInverse ==
    line.carrier = "message" /\ line.read.state = "ok" =>
        LET got == line.read.message IN
        IF line.sent = Bad THEN got # Bad => encode(got) = line.here
        ELSE IF OverLimit(line.sent) THEN line.here = Refused
        ELSE got = Meant(line.sent) /\ Len(line.here) <= MAX_MESSAGE_BODY_LEN

\* Frames delimit themselves: read_frame returns the control message at whichever byte of
\* the stream it looks, once the frame is there and never before, takes no part of it for
\* an error, and leaves exactly what follows it for the splice.
FramesDelimited ==
    line.carrier = "stream" =>
        IF line.read.state = "wait"
        THEN (read_frame(line.here).state = "wait") <=> (Len(line.here) < Len(frame(line.sent)))
        ELSE /\ line.read.state = "ok" /\ line.read.message = Meant(line.sent)
             /\ line.here \o line.due = line.tail

=============================================================================
