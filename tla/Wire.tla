-------------------------------- MODULE Wire --------------------------------
(***************************************************************************)
(* The bytes of precall-proto: the length-prefixed handshake, the mux      *)
(* frames of MuxCodec, and the RDPGFX PDUs inside a GFXRDP payload; the    *)
(* PDUs session.rs writes by hand; and one direction of a connection, on   *)
(* which bytes arrive one after the other and are read as they come.       *)
(* Numbers stay below 2^31, so the fifth and later bytes of a              *)
(* little-endian number are 0.                                             *)
(***************************************************************************)
EXTENDS Integers, Sequences, SequencesExt

CONSTANTS
  MaxPayload,     \* MAX_MUX_PAYLOAD
  MaxHandshake,   \* MAX_HANDSHAKE_PAYLOAD
  Posts           \* what one side may write: a hello and then messages, each
                  \* of a channel, with PDUs on GFXRDP and bytes on the others

UpTo(most) == {n \in Nat : n <= most}

Byte   == UpTo(255)
Short  == UpTo(65535)
Signed == {n \in Int : -32768 <= n /\ n < 32768}
Number == UpTo(2147483647)

\* GfxPdu; the rectangle is left, top, right, bottom.
Pdu ==
  [kind : {"start"}, frame : Number, time : Number]
    \cup [kind : {"end"}, frame : Number]
    \cup [kind : {"ack"}, depth : Number, frame : Number, total : Number]
    \cup [kind : {"w2s"}, surface : Short, codec : Short, pixel : Byte,
          rect : [1 .. 4 -> Signed], data : Seq(Byte)]

Gfx == 1

\* A channel is one byte; not every byte is a channel.
Message == [channel : {Gfx}, pdus : Seq(Pdu)] \cup [channel : Byte \ {Gfx}, payload : Seq(Byte)]

ASSUME LimitsAssumption == MaxPayload \in Number /\ MaxHandshake \in Number

ASSUME PostsAssumption == Posts \subseteq [hello : Seq(Byte), messages : Seq(Message)]

VARIABLES
  posted,    \* what the writing side wrote
  flying,    \* its bytes that have not arrived
  buffer,    \* bytes that have arrived and are not consumed
  phase,     \* the reader: "hello", "mux", or "failed"
  said,      \* the hello it read
  got        \* the mux frames it read

wireVars == <<posted, flying, buffer, phase, said, got>>

Weight == <<1, 256, 65536, 16777216>>

LE(n, width) == [i \in 1 .. width |-> IF i > 4 THEN 0 ELSE (n \div Weight[i]) % 256]

\* u16::from_le_bytes, u32::from_le_bytes
U16(b) == b[1] + 256 * b[2]
U32(b) == U16(b) + 65536 * b[3] + 16777216 * b[4]

\* Bytes i .. j - 1 counted from 0, as a Rust slice.
Slice(bytes, i, j) == SubSeq(bytes, i + 1, j)

From(bytes, i) == SubSeq(bytes, i + 1, Len(bytes))

\* Two's complement.
I16(n)      == LE(n % 65536, 2)
UnI16(pair) == LET u == U16(pair) IN IF u >= 32768 THEN u - 65536 ELSE u

-----------------------------------------------------------------------------
(* The handshake: u32 length and body *)

\* Nothing is written of a body that is too long.
WriteLimited(body) == IF Len(body) > MaxHandshake THEN <<>> ELSE LE(Len(body), 4) \o body

Took(result, body, rest) == [result |-> result, body |-> body, rest |-> rest]

\* (mutant: a buffered reader, whose buffer goes with it)
ReadBuffered(stream) ==
  LET len == U32(Slice(stream, 0, 4))
  IN  IF Len(stream) < 4 THEN Took("wait", <<>>, stream)
      ELSE IF len > MaxHandshake THEN Took("error", <<>>, stream)
      ELSE IF Len(stream) < 4 + len THEN Took("wait", <<>>, stream)
      ELSE Took("ok", Slice(stream, 4, 4 + len), <<>>)

\* read_exact takes what it needs and leaves the rest in the stream.
ReadLimited(stream) ==
  LET len == U32(Slice(stream, 0, 4))
  IN  IF Len(stream) < 4 THEN Took("wait", <<>>, stream)
      ELSE IF len > MaxHandshake THEN Took("error", <<>>, stream)
      ELSE IF Len(stream) < 4 + len THEN Took("wait", <<>>, stream)
      ELSE Took("ok", Slice(stream, 4, 4 + len), From(stream, 4 + len))

-----------------------------------------------------------------------------
(* MuxCodec *)

\* ChannelId::from_u8
Channels == 1 .. 5

\* Nothing is written of a payload that is too long.
MuxEncode(f) == IF Len(f.payload) > MaxPayload THEN <<>>
                ELSE <<f.channel>> \o LE(Len(f.payload), 4) \o f.payload

Waiting(src) == [result |-> "wait", rest |-> src]
Failing(src) == [result |-> "error", rest |-> src]

Taking(src, len) ==
  [result |-> "frame", rest |-> From(src, 5 + len),
   frame |-> [channel |-> src[1], payload |-> Slice(src, 5, 5 + len)]]

\* (mutant: the header is consumed before the payload is there)
DecodeAdvances(src) ==
  LET len == U32(Slice(src, 1, 5))
  IN  IF Len(src) < 5 THEN Waiting(src)
      ELSE IF len > MaxPayload THEN Failing(src)
      ELSE IF Len(src) < 5 + len THEN Waiting(From(src, 5))
      ELSE IF src[1] \notin Channels THEN Failing(src)
      ELSE Taking(src, len)

MuxDecode(src) ==
  LET len == U32(Slice(src, 1, 5))
  IN  IF Len(src) < 5 THEN Waiting(src)
      ELSE IF len > MaxPayload THEN Failing(src)
      ELSE IF Len(src) < 5 + len THEN Waiting(src)
      ELSE IF src[1] \notin Channels THEN Failing(src)
      ELSE Taking(src, len)

-----------------------------------------------------------------------------
(* RDPGFX PDUs *)

CmdId(p) == CASE p.kind = "w2s" -> 1 [] p.kind = "start" -> 11
              [] p.kind = "end" -> 12 [] p.kind = "ack" -> 13

Body(p) ==
  CASE p.kind = "start" -> LE(p.frame, 4) \o LE(p.time, 4)
    [] p.kind = "end"   -> LE(p.frame, 4)
    [] p.kind = "ack"   -> LE(p.depth, 4) \o LE(p.frame, 4) \o LE(p.total, 4)
    [] p.kind = "w2s"   -> LE(p.surface, 2) \o LE(p.codec, 2) \o <<p.pixel>>
                           \o I16(p.rect[1]) \o I16(p.rect[2]) \o I16(p.rect[3])
                           \o I16(p.rect[4]) \o LE(Len(p.data), 4) \o p.data

\* (mutant: the length does not count the header)
EncodeBodyLen(p) == LE(CmdId(p), 2) \o LE(0, 2) \o LE(Len(Body(p)), 4) \o Body(p)

Encode(p) == LE(CmdId(p), 2) \o LE(0, 2) \o LE(8 + Len(Body(p)), 4) \o Body(p)

EncodedLen(p) ==
  8 + CASE p.kind = "start" -> 8 [] p.kind = "end" -> 4
        [] p.kind = "ack" -> 12 [] p.kind = "w2s" -> 17 + Len(p.data)

Bad == [kind |-> "error"]

\* One body, by command id; too short or unknown is an error.
DecodeBody(cmd, b) ==
  CASE cmd = 11 /\ Len(b) >= 8 ->
         [kind |-> "start", frame |-> U32(Slice(b, 0, 4)), time |-> U32(Slice(b, 4, 8))]
    [] cmd = 12 /\ Len(b) >= 4 -> [kind |-> "end", frame |-> U32(Slice(b, 0, 4))]
    [] cmd = 13 /\ Len(b) >= 12 ->
         [kind |-> "ack", depth |-> U32(Slice(b, 0, 4)), frame |-> U32(Slice(b, 4, 8)),
          total |-> U32(Slice(b, 8, 12))]
    [] cmd = 1 /\ Len(b) >= 17 ->
         LET len == U32(Slice(b, 13, 17))
         IN  IF Len(b) < 17 + len THEN Bad
             ELSE [kind |-> "w2s", surface |-> U16(Slice(b, 0, 2)),
                   codec |-> U16(Slice(b, 2, 4)), pixel |-> b[5],
                   rect |-> [i \in 1 .. 4 |-> UnI16(Slice(b, 3 + 2 * i, 5 + 2 * i))],
                   data |-> Slice(b, 17, 17 + len)]
    [] OTHER -> Bad

\* GfxPdu::decode: the PDU and how many bytes it takes.
Decode(buf) ==
  LET cmd == U16(Slice(buf, 0, 2))
      len == U32(Slice(buf, 4, 8))
  IN  IF Len(buf) < 8 \/ len < 8 \/ Len(buf) < len
      THEN [pdu |-> Bad, used |-> Len(buf)]
      ELSE [pdu |-> DecodeBody(cmd, Slice(buf, 8, len)), used |-> len]

\* GfxPduIter: an error is the last thing it yields.
Pdus(buf) ==
  LET go[n \in 0 .. Len(buf)] ==
        IF n = Len(buf) THEN <<>>
        ELSE LET d == Decode(From(buf, n))
             IN  IF d.pdu = Bad THEN <<Bad>> ELSE <<d.pdu>> \o go[n + d.used]
  IN  go[0]

-----------------------------------------------------------------------------
(* session.rs *)

\* The payload of Connection::send_frame, field by field as it is written:
\* flags of four bytes except in WIRE_TO_SURFACE_1, whose rectangle is four
\* i32 and whose length counts a rectangle of eight bytes; the other lengths
\* leave the header out.
AgentFrame(jpeg, width, height, frame, time) ==
     LE(11, 2) \o LE(0, 4) \o LE(12, 4) \o LE(frame, 4) \o LE(time, 8)
  \o LE(1, 2) \o LE(0, 2) \o LE(8 + 2 + 2 + 1 + 8 + 4 + Len(jpeg), 4)
  \o LE(1, 2) \o LE(241, 2) \o <<32>>
  \o LE(0, 4) \o LE(0, 4) \o LE(width, 4) \o LE(height, 4) \o LE(Len(jpeg), 4) \o jpeg
  \o LE(12, 2) \o LE(0, 4) \o LE(8, 4) \o LE(frame, 4)
  \o LE(13, 2) \o LE(0, 4) \o LE(20, 4) \o LE(0, 4) \o LE(frame, 4) \o LE(1, 4)

-----------------------------------------------------------------------------
(* One direction of a connection *)

Encodes(pdus) == FlattenSeq([i \in DOMAIN pdus |-> Encode(pdus[i])])

Frame(m) ==
  [channel |-> m.channel, payload |-> IF m.channel = Gfx THEN Encodes(m.pdus) ELSE m.payload]

Written(messages) == [i \in DOMAIN messages |-> Frame(messages[i])]

OnTheWire(frames) == FlattenSeq([i \in DOMAIN frames |-> MuxEncode(frames[i])])

\* A hello that cannot be written ends the session before anything is sent.
WireInit ==
  /\ posted \in Posts
  /\ flying = LET hello == WriteLimited(posted.hello)
              IN  IF hello = <<>> THEN <<>> ELSE hello \o OnTheWire(Written(posted.messages))
  /\ buffer = <<>> /\ phase = "hello" /\ said = <<>> /\ got = <<>>

\* TCP delivers any number of bytes at a time; byte by byte, with the reader
\* as late as it likes, gives every buffer it can find.
Arrives ==
  /\ flying # <<>>
  /\ buffer' = Append(buffer, Head(flying)) /\ flying' = Tail(flying)
  /\ UNCHANGED <<posted, phase, said, got>>

ReadsHello ==
  LET r == ReadLimited(buffer) IN
  /\ phase = "hello" /\ r.result # "wait"
  /\ phase' = IF r.result = "ok" THEN "mux" ELSE "failed"
  /\ said' = r.body /\ buffer' = r.rest
  /\ UNCHANGED <<posted, flying, got>>

\* One call of the decoder by Framed; after an error there is none.
Decodes ==
  LET d == MuxDecode(buffer) IN
  /\ phase = "mux" /\ buffer # <<>>
  /\ buffer' = d.rest
  /\ phase' = IF d.result = "error" THEN "failed" ELSE phase
  /\ got' = IF d.result = "frame" THEN Append(got, d.frame) ELSE got
  /\ UNCHANGED <<posted, flying, said>>

WireNext == Arrives \/ ReadsHello \/ Decodes

WireSpec == WireInit /\ [][WireNext]_wireVars

-----------------------------------------------------------------------------
(* Properties *)

\* The messages that were posted and not refused for their length, and those
\* of them before the first on a channel nobody knows.
Fits(m) == Len(Frame(m).payload) <= MaxPayload

Accepted ==
  FlattenSeq([i \in DOMAIN posted.messages |->
                IF Fits(posted.messages[i]) THEN <<posted.messages[i]>> ELSE <<>>])

Strange == {i \in DOMAIN Accepted : Accepted[i].channel \notin Channels}

Readable ==
  IF Strange = {} THEN Accepted
  ELSE SubSeq(Accepted, 1, (CHOOSE i \in Strange : \A j \in Strange : i <= j) - 1)

\* TCP may cut the stream anywhere: the decoder yields the frames that were
\* encoded, in order and whole, never reads ahead of bytes that are missing,
\* stops at the first frame on an unknown channel and at nothing else
\* (codec.rs:46-66).
MuxSplitAnywhere ==
  LET frames == Written(Readable) IN
  /\ IsPrefix(got, frames)
  /\ phase = "failed" => got = frames /\ Strange # {}
  /\ phase = "mux" /\ flying = <<>> /\ MuxDecode(buffer).result = "wait" => got = frames

\* A payload of PDUs decodes to the PDUs it was encoded from, none swallowed by
\* the one before it, and encoded_len agrees with what is written (gfx.rs:92-157).
PdusRoundTrip ==
  \A i \in DOMAIN got : got[i].channel = Gfx =>
    /\ Pdus(got[i].payload) = Readable[i].pdus
    /\ \A k \in DOMAIN Readable[i].pdus :
         Len(Encode(Readable[i].pdus[k])) = EncodedLen(Readable[i].pdus[k])

\* The handshake takes its own bytes and no more: what the peer sends right
\* behind it, in the same segment, is left for the mux decoder that takes over
\* the stream, and no byte is lost or read twice (session.rs:89-99,
\* codec.rs:85-99).
HelloLeavesTheRest ==
  phase # "hello" =>
    /\ said = posted.hello
    /\ OnTheWire(got) \o buffer \o flying = OnTheWire(Written(posted.messages))
=============================================================================
