----------------------------- MODULE WireProofs -----------------------------
(***************************************************************************)
(* What the codecs of precall-proto do to every stream: numbers, PDUs and  *)
(* frames decode to what they were encoded from, and a reader that finds   *)
(* the stream cut anywhere reads what was written.                         *)
(***************************************************************************)
EXTENDS Wire, SequenceFacts

-----------------------------------------------------------------------------
(* Numbers *)

LEMMA Numbers ==
  /\ \A n \in Byte : n \in Nat
  /\ \A n \in Short : n \in Nat
  /\ \A n \in Number : n \in Nat
  /\ \A n \in Nat : n % 256 \in Byte
BY SMT DEF Byte, Short, Number, UpTo

\* What is no longer than a number is one.
LEMMA Smaller == \A m \in Nat, u \in Number : m <= u => m \in Number /\ ~(m > u)
BY SMT DEF Number, UpTo

LEMMA LEShape ==
  ASSUME NEW n \in Nat, NEW width \in Nat
  PROVE  /\ LE(n, width) \in Seq(Byte) /\ Len(LE(n, width)) = width
         /\ DOMAIN LE(n, width) = 1 .. width
<1> DEFINE b == [i \in 1 .. width |-> IF i > 4 THEN 0 ELSE (n \div Weight[i]) % 256]
<1>1. ASSUME NEW i \in 1 .. width PROVE b[i] \in Byte
  <2>1. CASE i > 4
    BY <2>1, SMT DEF Byte, UpTo
  <2>2. CASE i \in {1, 2, 3, 4}
    <3>1. Weight[i] \in {1, 256, 65536, 16777216}
      BY <2>2, SMT DEF Weight
    <3>2. n \div Weight[i] \in Nat
      BY <3>1, SMT
    <3>3. b[i] = (n \div Weight[i]) % 256
      BY <2>2
    <3> HIDE DEF b
    <3> QED
      BY <3>2, <3>3, Numbers, SMT
  <2> QED
    BY <2>1, <2>2
<1>2. b \in Seq(Byte) /\ Len(b) = width /\ DOMAIN b = 1 .. width
  BY <1>1
<1> QED
  BY <1>2, Zenon DEF LE

LEMMA LEBytes ==
  ASSUME NEW n \in Nat
  PROVE  /\ LE(n, 2)[1] = n % 256 /\ LE(n, 2)[2] = (n \div 256) % 256
         /\ LE(n, 4)[1] = n % 256 /\ LE(n, 4)[2] = (n \div 256) % 256
         /\ LE(n, 4)[3] = (n \div 65536) % 256 /\ LE(n, 4)[4] = (n \div 16777216) % 256
<1>1. n \div 1 = n
  OBVIOUS
<1> QED
  BY <1>1, SMT DEF LE, Weight

\* u32::from_le_bytes and u16::from_le_bytes undo to_le_bytes.
LEMMA U32OfLE ==
  ASSUME NEW n \in Number
  PROVE  U32(LE(n, 4)) = n
<1>1. n \in Nat /\ n <= 2147483647
  BY SMT DEF Number, UpTo
<1>2. (n % 256) + 256 * ((n \div 256) % 256) + 65536 * ((n \div 65536) % 256)
        + 16777216 * ((n \div 16777216) % 256) = n
  BY <1>1, SMT
<1> QED
  <2>1. /\ LE(n, 4)[1] = n % 256 /\ LE(n, 4)[2] = (n \div 256) % 256
        /\ LE(n, 4)[3] = (n \div 65536) % 256 /\ LE(n, 4)[4] = (n \div 16777216) % 256
    BY <1>1, LEBytes, SMT
  <2>2. U32(LE(n, 4)) = LE(n, 4)[1] + 256 * LE(n, 4)[2] + 65536 * LE(n, 4)[3] + 16777216 * LE(n, 4)[4]
    BY SMT DEF U32, U16
  <2> QED
    BY <1>2, <2>1, <2>2, SMT

LEMMA U16OfLE ==
  ASSUME NEW n \in Short
  PROVE  U16(LE(n, 2)) = n
<1>1. n \in Nat /\ n < 65536
  BY SMT DEF Short, UpTo
<1>2. (n % 256) + 256 * ((n \div 256) % 256) = n
  BY <1>1, SMT
<1> QED
  <2>1. LE(n, 2)[1] = n % 256 /\ LE(n, 2)[2] = (n \div 256) % 256
    BY <1>1, LEBytes, SMT
  <2>2. U16(LE(n, 2)) = LE(n, 2)[1] + 256 * LE(n, 2)[2]
    BY SMT DEF U16
  <2> QED
    BY <1>2, <2>1, <2>2, SMT

LEMMA I16RoundTrip ==
  ASSUME NEW n \in Signed
  PROVE  UnI16(I16(n)) = n
<1> DEFINE u == n % 65536
<1>1. /\ u \in Nat /\ u < 65536 /\ u = IF n < 0 THEN n + 65536 ELSE n
      /\ n \in Int /\ n < 32768 /\ -32768 <= n
  BY SMT DEF Signed
<1> HIDE DEF u
<1>2. u \in Short
  BY <1>1, SMT DEF Short, UpTo
<1>3. U16(LE(u, 2)) = u
  BY <1>2, U16OfLE
<1> QED
  BY <1>1, <1>3, SMT DEF UnI16, I16, u

-----------------------------------------------------------------------------
(* The readers, wherever the stream is cut *)

LEMMA Slices ==
  ASSUME NEW S, NEW b \in Seq(S), NEW k \in Nat, NEW y \in Seq(S), Piece(b, k, y)
  PROVE  Slice(b, k, k + Len(y)) = y
BY PieceIsSubSeq, Zenon DEF Slice

\* A number written behind the first k bytes is read back.
LEMMA ReadsU32 ==
  ASSUME NEW n \in Number, NEW b \in Seq(Byte), NEW k \in Nat, Piece(b, k, LE(n, 4))
  PROVE  U32(Slice(b, k, k + 4)) = n
<1>1. LE(n, 4) \in Seq(Byte) /\ Len(LE(n, 4)) = 4
  BY LEShape, Numbers
<1>2. Slice(b, k, k + 4) = LE(n, 4)
  BY <1>1, Slices
<1> QED
  BY <1>2, U32OfLE

LEMMA ReadsU16 ==
  ASSUME NEW n \in Short, NEW b \in Seq(Byte), NEW k \in Nat, Piece(b, k, LE(n, 2))
  PROVE  U16(Slice(b, k, k + 2)) = n
<1>1. LE(n, 2) \in Seq(Byte) /\ Len(LE(n, 2)) = 2
  BY LEShape, Numbers
<1>2. Slice(b, k, k + 2) = LE(n, 2)
  BY <1>1, Slices
<1> QED
  BY <1>2, U16OfLE

LEMMA LimitedShape ==
  ASSUME NEW body \in Seq(Byte), Len(body) <= MaxHandshake
  PROVE  /\ WriteLimited(body) \in Seq(Byte)
         /\ Len(WriteLimited(body)) = 4 + Len(body)
         /\ Piece(WriteLimited(body), 0, LE(Len(body), 4))
         /\ Piece(WriteLimited(body), 4, body)
<1> DEFINE n == Len(body)
           len == LE(n, 4)
           e == WriteLimited(body)
<1>1. n \in Nat
  BY LenProperties
<1>2. len \in Seq(Byte) /\ Len(len) = 4
  BY <1>1, LEShape
<1>3. ~(n > MaxHandshake)
  BY <1>1, LimitsAssumption, Numbers
<1>4. Cut(e, len, body)
  BY <1>3, Zenon DEF WriteLimited, Cut
<1> HIDE DEF e, len
<1>5. Piece(len, 0, len)
  BY <1>2, PieceWhole
<1>6. /\ e \in Seq(Byte) /\ Len(e) = Len(len) + Len(body)
      /\ \A k \in Nat, y \in Seq(Byte) : Piece(len, k, y) => Piece(e, k, y)
      /\ Piece(e, Len(len), body)
  BY <1>2, <1>4, PieceKept
<1> QED
  BY <1>2, <1>5, <1>6 DEF e, len

\* A frame is its channel, its length and its payload.
MuxFrame == [channel : Byte, payload : Seq(Byte)]

LEMMA FrameOnTheWire ==
  ASSUME NEW f \in MuxFrame, Len(f.payload) <= MaxPayload
  PROVE  /\ MuxEncode(f) \in Seq(Byte)
         /\ Len(MuxEncode(f)) = 5 + Len(f.payload)
         /\ Piece(MuxEncode(f), 0, <<f.channel>>)
         /\ Piece(MuxEncode(f), 1, LE(Len(f.payload), 4))
         /\ Piece(MuxEncode(f), 5, f.payload)
<1> DEFINE payload == f.payload
           n == Len(payload)
           len == LE(n, 4)
           first == <<f.channel>>
           head == first \o len
           e == MuxEncode(f)
<1>0. f.channel \in Byte /\ payload \in Seq(Byte)
  BY DEF MuxFrame
<1>1. n \in Nat
  BY <1>0, LenProperties
<1>2. len \in Seq(Byte) /\ Len(len) = 4
  BY <1>1, LEShape
<1>3. ~(n > MaxPayload)
  BY <1>1, LimitsAssumption, Numbers
<1>4. first \in Seq(Byte) /\ Len(first) = 1
  BY <1>0
<1>5. Cut(head, first, len)
  BY Zenon DEF Cut
<1>6. Cut(e, head, payload)
  BY <1>3, Zenon DEF MuxEncode, Cut
<1> HIDE DEF e, head, first, len, payload
<1>7. Piece(first, 0, first)
  BY <1>4, PieceWhole
<1>8. /\ head \in Seq(Byte) /\ Len(head) = 5 /\ Piece(head, 0, first) /\ Piece(head, 1, len)
  <2>1. /\ head \in Seq(Byte) /\ Len(head) = Len(first) + Len(len)
        /\ \A k \in Nat, y \in Seq(Byte) : Piece(first, k, y) => Piece(head, k, y)
        /\ Piece(head, Len(first), len)
    BY <1>2, <1>4, <1>5, PieceKept
  <2> QED
    BY <1>2, <1>4, <1>7, <2>1
<1>9. /\ e \in Seq(Byte) /\ Len(e) = 5 + n /\ Piece(e, 0, first) /\ Piece(e, 1, len)
      /\ Piece(e, 5, payload)
  <2>1. /\ e \in Seq(Byte) /\ Len(e) = Len(head) + Len(payload)
        /\ \A k \in Nat, y \in Seq(Byte) : Piece(head, k, y) => Piece(e, k, y)
        /\ Piece(e, Len(head), payload)
    BY <1>0, <1>6, <1>8, PieceKept
  <2> QED
    BY <1>2, <1>4, <1>8, <2>1
<1> QED
  BY <1>9 DEF e, first, len, payload

\* read_exact waits for the whole hello, takes it, and leaves what follows it.
LEMMA LimitedReads ==
  ASSUME NEW body \in Seq(Byte), Len(body) <= MaxHandshake,
         NEW b \in Seq(Byte), NEW y \in Seq(Byte), NEW r \in Seq(Byte),
         NEW w, Cut(w, b, y), Cut(w, WriteLimited(body), r)
  PROVE  /\ Len(b) < 4 + Len(body) => ReadLimited(b) = Took("wait", <<>>, b)
         /\ ~(Len(b) < 4 + Len(body)) =>
              /\ ReadLimited(b) = Took("ok", body, From(b, 4 + Len(body)))
              /\ From(b, 4 + Len(body)) \in Seq(Byte)
              /\ Cut(r, From(b, 4 + Len(body)), y)
<1> DEFINE n == Len(body)
           e == WriteLimited(body)
           len == U32(Slice(b, 0, 4))
<1>1. n \in Number /\ n \in Nat /\ Len(b) \in Nat /\ ~(n > MaxHandshake)
  <2>1. n \in Nat /\ Len(b) \in Nat
    BY LenProperties
  <2> QED
    BY <2>1, Smaller, LimitsAssumption
<1>2. e \in Seq(Byte) /\ Len(e) = 4 + n /\ Piece(e, 0, LE(n, 4)) /\ Piece(e, 4, body)
  BY LimitedShape
<1> HIDE DEF e
<1>3. \A k \in Nat, x \in Seq(Byte) : Piece(e, k, x) /\ k + Len(x) <= Len(b) => Piece(b, k, x)
  <2>1. e \in Seq(Byte) /\ Cut(w, e, r)
    BY <1>2 DEF e
  <2> QED
    BY <2>1, CutTwice
<1>4. LE(n, 4) \in Seq(Byte) /\ Len(LE(n, 4)) = 4
  BY <1>1, LEShape
<1>5. ASSUME ~(Len(b) < 4) PROVE len = n
  <2>1. Piece(b, 0, LE(n, 4))
    <3>1. 0 + Len(LE(n, 4)) <= Len(b)
      BY <1>1, <1>4, <1>5
    <3> QED
      BY <1>2, <1>3, <1>4, <3>1
  <2> QED
    BY <1>1, <2>1, ReadsU32
<1> HIDE DEF n, len
<1>6. CASE Len(b) < 4 + n
  <2>1. ReadLimited(b) = IF Len(b) < 4 THEN Took("wait", <<>>, b)
                         ELSE IF len > MaxHandshake THEN Took("error", <<>>, b)
                         ELSE IF Len(b) < 4 + len THEN Took("wait", <<>>, b)
                         ELSE Took("ok", Slice(b, 4, 4 + len), From(b, 4 + len))
    BY Zenon DEF ReadLimited, len
  <2>2. ReadLimited(b) = Took("wait", <<>>, b)
    BY <1>1, <1>5, <1>6, <2>1, Zenon
  <2> QED
    BY <1>6, <2>2, Zenon DEF n
<1>7. CASE ~(Len(b) < 4 + n)
  <2>1. ~(Len(b) < 4)
    BY <1>1, <1>7
  <2>2. ReadLimited(b) = Took("ok", Slice(b, 4, 4 + n), From(b, 4 + n))
    BY <1>1, <1>5, <1>7, <2>1, Zenon DEF ReadLimited, len
  <2>3. Slice(b, 4, 4 + n) = body
    <3>1. 4 + Len(body) <= Len(b)
      BY <1>1, <1>7 DEF n
    <3>2. Piece(b, 4, body)
      BY <1>2, <1>3, <3>1
    <3> QED
      BY <3>2, Slices DEF n
  <2>4. From(b, 4 + n) \in Seq(Byte) /\ Cut(r, From(b, 4 + n), y)
    <3>1. e \in Seq(Byte) /\ Cut(w, e, r)
      BY <1>2 DEF e
    <3>2. Len(e) <= Len(b) /\ Len(e) = 4 + n
      BY <1>1, <1>2, <1>7
    <3>3. SubSeq(b, Len(e) + 1, Len(b)) \in Seq(Byte) /\ Cut(r, SubSeq(b, Len(e) + 1, Len(b)), y)
      BY <3>1, <3>2, CutTwice
    <3> QED
      BY <3>2, <3>3, Zenon DEF From
  <2> QED
    BY <1>7, <2>2, <2>3, <2>4, Zenon DEF n
<1> QED
  BY <1>6, <1>7

\* The decoder waits for the whole frame without consuming anything, then takes
\* it, or fails for its channel alone, and leaves what follows it.
LEMMA FrameReads ==
  ASSUME NEW f \in MuxFrame, Len(f.payload) <= MaxPayload,
         NEW b \in Seq(Byte), NEW y \in Seq(Byte), NEW r \in Seq(Byte),
         NEW w, Cut(w, b, y), Cut(w, MuxEncode(f), r)
  PROVE  LET rest == From(b, 5 + Len(f.payload)) IN
         /\ Len(b) < 5 + Len(f.payload) => MuxDecode(b) = Waiting(b)
         /\ ~(Len(b) < 5 + Len(f.payload)) =>
              /\ f.channel \notin Channels => MuxDecode(b) = Failing(b)
              /\ f.channel \in Channels =>
                   MuxDecode(b) = [result |-> "frame", rest |-> rest, frame |-> f]
              /\ rest \in Seq(Byte) /\ Cut(r, rest, y)
<1> DEFINE payload == f.payload
           n == Len(payload)
           e == MuxEncode(f)
           len == U32(Slice(b, 1, 5))
<1>0. payload \in Seq(Byte) /\ f.channel \in Byte /\ f = [channel |-> f.channel, payload |-> payload]
  BY DEF MuxFrame
<1>1. n \in Number /\ n \in Nat /\ Len(b) \in Nat /\ ~(n > MaxPayload)
  <2>1. n \in Nat /\ Len(b) \in Nat
    BY <1>0, LenProperties
  <2> QED
    BY <2>1, Smaller, LimitsAssumption
<1>2. /\ e \in Seq(Byte) /\ Len(e) = 5 + n /\ Piece(e, 0, <<f.channel>>)
      /\ Piece(e, 1, LE(n, 4)) /\ Piece(e, 5, payload)
  BY FrameOnTheWire
<1> HIDE DEF e, payload
<1>3. e \in Seq(Byte) /\ Cut(w, e, r)
  BY <1>2 DEF e
<1>4. \A k \in Nat, x \in Seq(Byte) : Piece(e, k, x) /\ k + Len(x) <= Len(b) => Piece(b, k, x)
  BY <1>3, CutTwice
<1>5. LE(n, 4) \in Seq(Byte) /\ Len(LE(n, 4)) = 4
  BY <1>1, LEShape
<1>6. ASSUME ~(Len(b) < 5) PROVE len = n /\ b[1] = f.channel
  <2>1. Piece(b, 1, LE(n, 4))
    <3>1. 1 + Len(LE(n, 4)) <= Len(b)
      <4>1. 1 + 4 <= Len(b)
        BY <1>1, <1>6
      <4> QED
        BY <1>5, <4>1, Zenon
    <3> QED
      BY <1>2, <1>4, <1>5, <3>1
  <2>2. Piece(b, 0, <<f.channel>>)
    <3>1. <<f.channel>> \in Seq(Byte) /\ 0 + Len(<<f.channel>>) <= Len(b)
      BY <1>0, <1>1, <1>6
    <3> QED
      BY <1>2, <1>4, <3>1
  <2>3. b[1] = f.channel
    BY <2>2 DEF Piece
  <2>4. 1 + 4 = 5
    OBVIOUS
  <2> QED
    BY <1>1, <2>1, <2>3, <2>4, ReadsU32
<1> HIDE DEF n, len
<1>7. MuxDecode(b) = IF Len(b) < 5 THEN Waiting(b)
                     ELSE IF len > MaxPayload THEN Failing(b)
                     ELSE IF Len(b) < 5 + len THEN Waiting(b)
                     ELSE IF b[1] \notin Channels THEN Failing(b)
                     ELSE Taking(b, len)
  BY Zenon DEF MuxDecode, len
<1>8. CASE Len(b) < 5 + n
  <2>1. MuxDecode(b) = Waiting(b)
    BY <1>1, <1>6, <1>7, <1>8, Zenon
  <2> QED
    BY <1>8, <2>1, Zenon DEF n, payload
<1>9. CASE ~(Len(b) < 5 + n)
  <2>1. ~(Len(b) < 5)
    BY <1>1, <1>9
  <2>2. MuxDecode(b) = IF f.channel \notin Channels THEN Failing(b) ELSE Taking(b, n)
    BY <1>1, <1>6, <1>7, <1>9, <2>1, Zenon
  <2>3. Slice(b, 5, 5 + n) = payload
    <3>1. 5 + Len(payload) <= Len(b)
      BY <1>1, <1>9 DEF n
    <3>2. Piece(b, 5, payload)
      BY <1>0, <1>2, <1>4, <3>1
    <3> QED
      BY <1>0, <3>2, Slices DEF n
  <2>4. Taking(b, n) = [result |-> "frame", rest |-> From(b, 5 + n), frame |-> f]
    BY <1>0, <1>6, <2>1, <2>3, Zenon DEF Taking
  <2>5. From(b, 5 + n) \in Seq(Byte) /\ Cut(r, From(b, 5 + n), y)
    <3>1. Len(e) <= Len(b) /\ Len(e) = 5 + n
      BY <1>1, <1>2, <1>9
    <3>2. SubSeq(b, Len(e) + 1, Len(b)) \in Seq(Byte) /\ Cut(r, SubSeq(b, Len(e) + 1, Len(b)), y)
      BY <1>3, <3>1, CutTwice
    <3> QED
      BY <3>1, <3>2, Zenon DEF From
  <2> QED
    BY <1>9, <2>2, <2>4, <2>5, Zenon DEF n, payload
<1> QED
  BY <1>8, <1>9

-----------------------------------------------------------------------------
(* PDUs *)

Keeps(a, w) == \A k \in Nat, y \in Seq(Byte) : Piece(a, k, y) => Piece(w, k, y)

Bytes(x, k) == x \in Seq(Byte) /\ Len(x) = k

\* One more field behind what is written.
LEMMA Writes ==
  ASSUME NEW k \in Nat, NEW a, Bytes(a, k), NEW m \in Nat, NEW c, Bytes(c, m),
         NEW w, Cut(w, a, c)
  PROVE  /\ Bytes(w, k + m) /\ Keeps(a, w) /\ Piece(w, k, c)
<1>1. a \in Seq(Byte) /\ c \in Seq(Byte) /\ Len(a) = k /\ Len(c) = m
  BY Zenon DEF Bytes
<1>2. /\ w \in Seq(Byte) /\ Len(w) = Len(a) + Len(c)
      /\ \A i \in Nat, y \in Seq(Byte) : Piece(a, i, y) => Piece(w, i, y)
      /\ Piece(w, Len(a), c)
  BY <1>1, PieceKept
<1> QED
  BY <1>1, <1>2, Zenon DEF Bytes, Keeps

LEMMA KeepsOn ==
  ASSUME NEW a, NEW b, NEW c, Keeps(a, b), Keeps(b, c)
  PROVE  Keeps(a, c)
BY Zenon DEF Keeps

LEMMA U32Field ==
  ASSUME NEW n \in Number
  PROVE  Bytes(LE(n, 4), 4)
BY LEShape, Numbers DEF Bytes

LEMMA U16Field ==
  ASSUME NEW n \in Short
  PROVE  Bytes(LE(n, 2), 2)
BY LEShape, Numbers DEF Bytes

LEMMA I16Field ==
  ASSUME NEW n \in Signed
  PROVE  Bytes(I16(n), 2)
<1> DEFINE u == n % 65536
<1>1. u \in Nat
  BY SMT DEF Signed
<1> HIDE DEF u
<1>2. LE(u, 2) \in Seq(Byte) /\ Len(LE(u, 2)) = 2
  BY <1>1, LEShape
<1> QED
  BY <1>2, SMT DEF I16, u, Bytes

LEMMA ReadsI16 ==
  ASSUME NEW n \in Signed,
         NEW b \in Seq(Byte), NEW k \in Nat, Piece(b, k, I16(n))
  PROVE  UnI16(Slice(b, k, k + 2)) = n
<1>1. Slice(b, k, k + 2) = I16(n)
  <2>1. I16(n) \in Seq(Byte) /\ Len(I16(n)) = 2
    BY I16Field DEF Bytes
  <2> QED
    BY <2>1, Slices
<1>2. UnI16(I16(n)) = n
  BY I16RoundTrip
<1> QED
  BY <1>1, <1>2

LEMMA EndBody ==
  ASSUME NEW p \in [kind : {"end"}, frame : Number]
  PROVE  /\ Body(p) \in Seq(Byte) /\ Len(Body(p)) = 4
         /\ DecodeBody(12, Body(p)) = p
<1> DEFINE b == Body(p)
<1>0. p.kind = "end" /\ p.frame \in Number /\ p = [kind |-> "end", frame |-> p.frame]
  OBVIOUS
<1>1. b = LE(p.frame, 4)
  BY <1>0 DEF Body
<1>2. b \in Seq(Byte) /\ Len(b) = 4
  BY <1>0, <1>1, U32Field DEF Bytes
<1> HIDE DEF b
<1>3. Piece(b, 0, LE(p.frame, 4))
  BY <1>1, <1>2, PieceWhole
<1>4. U32(Slice(b, 0, 4)) = p.frame
  <2>1. 0 + 4 = 4
    OBVIOUS
  <2> QED
    BY <1>0, <1>2, <1>3, <2>1, ReadsU32
<1>5. DecodeBody(12, b) = [kind |-> "end", frame |-> U32(Slice(b, 0, 4))]
  BY <1>2 DEF DecodeBody
<1> QED
  BY <1>0, <1>2, <1>4, <1>5, Zenon DEF b

LEMMA StartBody ==
  ASSUME NEW p \in [kind : {"start"}, frame : Number, time : Number]
  PROVE  /\ Body(p) \in Seq(Byte) /\ Len(Body(p)) = 8
         /\ DecodeBody(11, Body(p)) = p
<1> DEFINE x == LE(p.frame, 4)
           y == LE(p.time, 4)
           b == Body(p)
<1>0. /\ p.kind = "start" /\ p.frame \in Number /\ p.time \in Number
      /\ p = [kind |-> "start", frame |-> p.frame, time |-> p.time]
  OBVIOUS
<1>1. Cut(b, x, y)
  BY <1>0 DEF Body, Cut
<1>2. Bytes(x, 4) /\ Bytes(y, 4)
  BY <1>0, U32Field
<1> HIDE DEF b, x, y
<1>3. Piece(x, 0, x)
  BY <1>2, PieceWhole DEF Bytes
<1>4. Bytes(b, 8) /\ Keeps(x, b) /\ Piece(b, 4, y)
  BY <1>1, <1>2, Writes
<1>5. /\ Piece(b, 0, x) /\ Piece(b, 4, y)
      /\ b \in Seq(Byte) /\ Len(b) = 8
  BY <1>2, <1>3, <1>4 DEF Keeps, Bytes
<1>6. U32(Slice(b, 0, 4)) = p.frame /\ U32(Slice(b, 4, 8)) = p.time
  <2>1. 0 + 4 = 4 /\ 4 + 4 = 8
    OBVIOUS
  <2> QED
    BY <1>0, <1>5, <2>1, ReadsU32 DEF x, y
<1>7. DecodeBody(11, b)
        = [kind |-> "start", frame |-> U32(Slice(b, 0, 4)), time |-> U32(Slice(b, 4, 8))]
  BY <1>5 DEF DecodeBody
<1> QED
  BY <1>0, <1>5, <1>6, <1>7, Zenon DEF b

LEMMA AckBody ==
  ASSUME NEW p \in [kind : {"ack"}, depth : Number, frame : Number, total : Number]
  PROVE  /\ Body(p) \in Seq(Byte) /\ Len(Body(p)) = 12
         /\ DecodeBody(13, Body(p)) = p
<1> DEFINE x == LE(p.depth, 4)
           y == LE(p.frame, 4)
           z == LE(p.total, 4)
           a == x \o y
           b == Body(p)
<1>0. /\ p.kind = "ack" /\ p.depth \in Number /\ p.frame \in Number /\ p.total \in Number
      /\ p = [kind |-> "ack", depth |-> p.depth, frame |-> p.frame, total |-> p.total]
  OBVIOUS
<1>1. Cut(a, x, y) /\ Cut(b, a, z)
  BY <1>0 DEF Body, Cut
<1>2. Bytes(x, 4) /\ Bytes(y, 4) /\ Bytes(z, 4)
  BY <1>0, U32Field
<1> HIDE DEF a, b, x, y, z
<1>3. Piece(x, 0, x)
  BY <1>2, PieceWhole DEF Bytes
<1>4. Bytes(a, 8) /\ Keeps(x, a) /\ Piece(a, 4, y)
  BY <1>1, <1>2, Writes
<1>5. Bytes(b, 12) /\ Keeps(a, b) /\ Piece(b, 8, z)
  BY <1>1, <1>2, <1>4, Writes
<1>6. /\ Piece(b, 0, x) /\ Piece(b, 4, y) /\ Piece(b, 8, z)
      /\ b \in Seq(Byte) /\ Len(b) = 12
  BY <1>2, <1>3, <1>4, <1>5 DEF Keeps, Bytes
<1>7. U32(Slice(b, 0, 4)) = p.depth /\ U32(Slice(b, 4, 8)) = p.frame /\ U32(Slice(b, 8, 12)) = p.total
  <2>1. 0 + 4 = 4 /\ 4 + 4 = 8 /\ 8 + 4 = 12
    OBVIOUS
  <2> QED
    BY <1>0, <1>6, <2>1, ReadsU32 DEF x, y, z
<1>8. DecodeBody(13, b)
        = [kind |-> "ack", depth |-> U32(Slice(b, 0, 4)), frame |-> U32(Slice(b, 4, 8)),
           total |-> U32(Slice(b, 8, 12))]
  BY <1>6 DEF DecodeBody
<1> QED
  BY <1>0, <1>6, <1>7, <1>8, Zenon DEF b

\* The longest PDU, field after field: c1 ends with the surface, c9 with the data.
LEMMA BitmapBody ==
  ASSUME NEW p \in [kind : {"w2s"}, surface : Short, codec : Short, pixel : Byte,
                    rect : [1 .. 4 -> Signed], data : Seq(Byte)]
  PROVE  /\ Body(p) \in Seq(Byte) /\ Len(Body(p)) = 17 + Len(p.data)
         /\ Len(Body(p)) \in Number => DecodeBody(1, Body(p)) = p
<1> DEFINE s == LE(p.surface, 2)
           c == LE(p.codec, 2)
           x == <<p.pixel>>
           r1 == I16(p.rect[1])
           r2 == I16(p.rect[2])
           r3 == I16(p.rect[3])
           r4 == I16(p.rect[4])
           n == Len(p.data)
           l == LE(n, 4)
           c2 == s \o c
           c3 == c2 \o x
           c4 == c3 \o r1
           c5 == c4 \o r2
           c6 == c5 \o r3
           c7 == c6 \o r4
           c8 == c7 \o l
           b == Body(p)
<1>0. /\ p.kind = "w2s" /\ p.surface \in Short /\ p.codec \in Short /\ p.pixel \in Byte
      /\ p.data \in Seq(Byte) /\ p.rect \in [1 .. 4 -> Signed]
      /\ p = [kind |-> "w2s", surface |-> p.surface, codec |-> p.codec, pixel |-> p.pixel,
              rect |-> p.rect, data |-> p.data]
  OBVIOUS
<1>1. /\ p.rect[1] \in Signed /\ p.rect[2] \in Signed /\ p.rect[3] \in Signed
      /\ p.rect[4] \in Signed /\ n \in Nat
  BY <1>0, LenProperties
<1>2. /\ Bytes(s, 2) /\ Bytes(c, 2) /\ Bytes(x, 1) /\ Bytes(l, 4) /\ Bytes(p.data, n)
  <2>1. Bytes(s, 2) /\ Bytes(c, 2)
    BY <1>0, U16Field
  <2>2. Bytes(x, 1) /\ Bytes(p.data, n)
    BY <1>0 DEF Bytes
  <2>3. Bytes(l, 4)
    <3> HIDE DEF n
    <3> QED
      BY <1>1, LEShape DEF Bytes
  <2> QED
    BY <2>1, <2>2, <2>3
<1>3. Bytes(r1, 2) /\ Bytes(r2, 2) /\ Bytes(r3, 2) /\ Bytes(r4, 2)
  BY <1>1, I16Field
<1>4. Cut(c2, s, c) /\ Cut(c3, c2, x) /\ Cut(c4, c3, r1) /\ Cut(c5, c4, r2)
      /\ Cut(c6, c5, r3) /\ Cut(c7, c6, r4) /\ Cut(c8, c7, l)
  BY Zenon DEF Cut
<1>5. Cut(b, c8, p.data)
  BY <1>0 DEF Body, Cut
<1> HIDE DEF s, c, x, r1, r2, r3, r4, l, n, c2, c3, c4, c5, c6, c7, c8, b
<1>6. Piece(s, 0, s)
  BY <1>2, PieceWhole DEF Bytes
<1>7. Bytes(c2, 4) /\ Keeps(s, c2) /\ Piece(c2, 2, c)
  BY <1>2, <1>4, Writes
<1>8. Bytes(c3, 5) /\ Keeps(c2, c3) /\ Piece(c3, 4, x)
  BY <1>2, <1>4, <1>7, Writes
<1>9. Bytes(c4, 7) /\ Keeps(c3, c4) /\ Piece(c4, 5, r1)
  BY <1>3, <1>4, <1>8, Writes
<1>10. Bytes(c5, 9) /\ Keeps(c4, c5) /\ Piece(c5, 7, r2)
  BY <1>3, <1>4, <1>9, Writes
<1>11. Bytes(c6, 11) /\ Keeps(c5, c6) /\ Piece(c6, 9, r3)
  BY <1>3, <1>4, <1>10, Writes
<1>12. Bytes(c7, 13) /\ Keeps(c6, c7) /\ Piece(c7, 11, r4)
  BY <1>3, <1>4, <1>11, Writes
<1>13. Bytes(c8, 17) /\ Keeps(c7, c8) /\ Piece(c8, 13, l)
  BY <1>2, <1>4, <1>12, Writes
<1>14. /\ Bytes(b, 17 + n) /\ b \in Seq(Byte) /\ Len(b) = 17 + n
       /\ Keeps(c8, b) /\ Piece(b, 17, p.data)
  <2>1. Bytes(b, 17 + n) /\ Keeps(c8, b) /\ Piece(b, 17, p.data)
    BY <1>1, <1>2, <1>5, <1>13, Writes
  <2> QED
    BY <2>1 DEF Bytes
<1>15. Keeps(c7, b) /\ Keeps(c6, b) /\ Keeps(c5, b) /\ Keeps(c4, b) /\ Keeps(c3, b)
       /\ Keeps(c2, b) /\ Keeps(s, b)
  BY <1>7, <1>8, <1>9, <1>10, <1>11, <1>12, <1>13, <1>14, KeepsOn
<1>16. /\ Piece(b, 0, s) /\ Piece(b, 2, c) /\ Piece(b, 4, x) /\ Piece(b, 5, r1)
       /\ Piece(b, 7, r2) /\ Piece(b, 9, r3) /\ Piece(b, 11, r4) /\ Piece(b, 13, l)
  <2>1. 0 \in Nat /\ 2 \in Nat /\ 4 \in Nat /\ 5 \in Nat /\ 7 \in Nat /\ 9 \in Nat
        /\ 11 \in Nat /\ 13 \in Nat
    OBVIOUS
  <2> QED
    BY <1>2, <1>3, <1>6, <1>7, <1>8, <1>9, <1>10, <1>11, <1>12, <1>13, <1>14, <1>15, <2>1
       DEF Keeps, Bytes
<1>17. U16(Slice(b, 0, 2)) = p.surface /\ U16(Slice(b, 2, 4)) = p.codec /\ b[5] = p.pixel
  <2>1. 0 + 2 = 2 /\ 2 + 2 = 4 /\ 4 + 1 = 5
    OBVIOUS
  <2>2. b[4 + 1] = x[1] /\ x[1] = p.pixel
    <3>1. x[1] = p.pixel /\ 1 \in 1 .. Len(x)
      BY DEF x
    <3> QED
      BY <1>16, <3>1, Zenon DEF Piece
  <2> QED
    BY <1>0, <1>14, <1>16, <2>1, <2>2, ReadsU16 DEF s, c
<1>18. /\ UnI16(Slice(b, 5, 7)) = p.rect[1] /\ UnI16(Slice(b, 7, 9)) = p.rect[2]
       /\ UnI16(Slice(b, 9, 11)) = p.rect[3] /\ UnI16(Slice(b, 11, 13)) = p.rect[4]
  <2>1. 5 + 2 = 7 /\ 7 + 2 = 9 /\ 9 + 2 = 11 /\ 11 + 2 = 13
    OBVIOUS
  <2> QED
    BY <1>1, <1>14, <1>16, <2>1, ReadsI16 DEF r1, r2, r3, r4
<1>19. [i \in 1 .. 4 |-> UnI16(Slice(b, 3 + 2 * i, 5 + 2 * i))] = p.rect
  <2>1. \A i \in 1 .. 4 : UnI16(Slice(b, 3 + 2 * i, 5 + 2 * i)) = p.rect[i]
    BY <1>18
  <2> QED
    BY <1>0, <2>1
<1>20. Slice(b, 17, 17 + n) = p.data
  BY <1>0, <1>14, Slices DEF n
<1>21. ASSUME Len(b) \in Number PROVE DecodeBody(1, b) = p
  <2>1. n \in Number
    <3>1. n <= Len(b)
      BY <1>1, <1>14
    <3> QED
      BY <1>1, <1>21, <3>1, Smaller, Zenon
  <2>2. U32(Slice(b, 13, 17)) = n
    <3>1. 13 + 4 = 17
      OBVIOUS
    <3> QED
      BY <1>14, <1>16, <2>1, <3>1, ReadsU32 DEF l
  <2>3. Len(b) >= 17 /\ ~(Len(b) < 17 + n)
    BY <1>1, <1>14
  <2>4. DecodeBody(1, b)
          = LET len == U32(Slice(b, 13, 17))
            IN  IF Len(b) < 17 + len THEN Bad
                ELSE [kind |-> "w2s", surface |-> U16(Slice(b, 0, 2)),
                      codec |-> U16(Slice(b, 2, 4)), pixel |-> b[5],
                      rect |-> [i \in 1 .. 4 |-> UnI16(Slice(b, 3 + 2 * i, 5 + 2 * i))],
                      data |-> Slice(b, 17, 17 + len)]
    BY <2>3 DEF DecodeBody
  <2>5. DecodeBody(1, b)
          = [kind |-> "w2s", surface |-> U16(Slice(b, 0, 2)),
             codec |-> U16(Slice(b, 2, 4)), pixel |-> b[5],
             rect |-> [i \in 1 .. 4 |-> UnI16(Slice(b, 3 + 2 * i, 5 + 2 * i))],
             data |-> Slice(b, 17, 17 + n)]
    BY <2>2, <2>3, <2>4, Zenon
  <2> QED
    BY <1>0, <1>17, <1>19, <1>20, <2>5, Zenon
<1> QED
  BY <1>14, <1>21 DEF b, n

LEMMA PduBody ==
  ASSUME NEW p \in Pdu
  PROVE  /\ CmdId(p) \in Short
         /\ Body(p) \in Seq(Byte) /\ 8 + Len(Body(p)) = EncodedLen(p)
         /\ Len(Body(p)) \in Number => DecodeBody(CmdId(p), Body(p)) = p
<1>1. CASE p \in [kind : {"end"}, frame : Number]
  <2>1. p.kind = "end"
    BY <1>1
  <2>2. CmdId(p) = 12 /\ EncodedLen(p) = 8 + 4
    BY <2>1 DEF CmdId, EncodedLen
  <2>3. CmdId(p) \in Short
    BY <2>2, SMT DEF Short, UpTo
  <2>4. Body(p) \in Seq(Byte) /\ Len(Body(p)) = 4 /\ DecodeBody(12, Body(p)) = p
    BY <1>1, EndBody
  <2> QED
    BY <2>2, <2>3, <2>4, Zenon
<1>2. CASE p \in [kind : {"start"}, frame : Number, time : Number]
  <2>1. p.kind = "start"
    BY <1>2
  <2>2. CmdId(p) = 11 /\ EncodedLen(p) = 8 + 8
    BY <2>1 DEF CmdId, EncodedLen
  <2>3. CmdId(p) \in Short
    BY <2>2, SMT DEF Short, UpTo
  <2>4. Body(p) \in Seq(Byte) /\ Len(Body(p)) = 8 /\ DecodeBody(11, Body(p)) = p
    BY <1>2, StartBody
  <2> QED
    BY <2>2, <2>3, <2>4, Zenon
<1>3. CASE p \in [kind : {"ack"}, depth : Number, frame : Number, total : Number]
  <2>1. p.kind = "ack"
    BY <1>3
  <2>2. CmdId(p) = 13 /\ EncodedLen(p) = 8 + 12
    BY <2>1 DEF CmdId, EncodedLen
  <2>3. CmdId(p) \in Short
    BY <2>2, SMT DEF Short, UpTo
  <2>4. Body(p) \in Seq(Byte) /\ Len(Body(p)) = 12 /\ DecodeBody(13, Body(p)) = p
    BY <1>3, AckBody
  <2> QED
    BY <2>2, <2>3, <2>4, Zenon
<1>4. CASE p \in [kind : {"w2s"}, surface : Short, codec : Short, pixel : Byte,
                  rect : [1 .. 4 -> Signed], data : Seq(Byte)]
  <2>1. p.kind = "w2s"
    BY <1>4
  <2>2. CmdId(p) = 1 /\ EncodedLen(p) = 8 + (17 + Len(p.data))
    BY <2>1 DEF CmdId, EncodedLen
  <2>3. CmdId(p) \in Short
    BY <2>2, SMT DEF Short, UpTo
  <2>4. Body(p) \in Seq(Byte) /\ Len(Body(p)) = 17 + Len(p.data)
        /\ (Len(Body(p)) \in Number => DecodeBody(1, Body(p)) = p)
    BY <1>4, BitmapBody
  <2> QED
    BY <2>2, <2>3, <2>4, Zenon
<1> QED
  BY <1>1, <1>2, <1>3, <1>4, Zenon DEF Pdu

\* encoded_len is the number of bytes that encode writes (gfx.rs:92-157).
LEMMA EncodeShape ==
  ASSUME NEW p \in Pdu
  PROVE  /\ Encode(p) \in Seq(Byte)
         /\ Len(Encode(p)) = 8 + Len(Body(p)) /\ Len(Encode(p)) = EncodedLen(p)
         /\ Piece(Encode(p), 0, LE(CmdId(p), 2))
         /\ Piece(Encode(p), 4, LE(8 + Len(Body(p)), 4))
         /\ Piece(Encode(p), 8, Body(p))
<1> DEFINE body == Body(p)
           n == Len(body)
           c == LE(CmdId(p), 2)
           z == LE(0, 2)
           l == LE(8 + n, 4)
           c2 == c \o z
           c3 == c2 \o l
           e == Encode(p)
<1>1. CmdId(p) \in Short /\ body \in Seq(Byte) /\ 8 + n = EncodedLen(p)
  BY PduBody
<1>2. n \in Nat /\ 8 + n \in Nat
  BY <1>1, LenProperties
<1>3. Bytes(c, 2)
  BY <1>1, U16Field
<1>4. Bytes(z, 2)
  BY LEShape DEF Bytes
<1>5. Bytes(l, 4)
  <2> HIDE DEF n
  <2> QED
    BY <1>2, LEShape DEF Bytes
<1>6. Bytes(body, n)
  BY <1>1 DEF Bytes
<1>7. Cut(c2, c, z) /\ Cut(c3, c2, l) /\ Cut(e, c3, body)
  BY Zenon DEF Cut, Encode
<1> HIDE DEF body, n, c, z, l, c2, c3, e
<1>8. Piece(c, 0, c)
  BY <1>3, PieceWhole DEF Bytes
<1>9. Bytes(c2, 4) /\ Keeps(c, c2)
  BY <1>3, <1>4, <1>7, Writes
<1>10. Bytes(c3, 8) /\ Keeps(c2, c3) /\ Piece(c3, 4, l)
  BY <1>5, <1>7, <1>9, Writes
<1>11. Bytes(e, 8 + n) /\ Keeps(c3, e) /\ Piece(e, 8, body)
  BY <1>2, <1>6, <1>7, <1>10, Writes
<1>12. Keeps(c, e)
  BY <1>9, <1>10, <1>11, KeepsOn
<1>13. Piece(e, 0, c) /\ Piece(e, 4, l)
  BY <1>3, <1>5, <1>8, <1>10, <1>11, <1>12 DEF Keeps, Bytes
<1>14. e \in Seq(Byte) /\ Len(e) = 8 + n
  BY <1>11, Zenon DEF Bytes
<1> QED
  BY <1>1, <1>11, <1>13, <1>14, Zenon DEF body, n, c, l, e

\* GfxPdu::decode finds the PDU that encode wrote at the front of the buffer, and
\* takes its bytes and no more.
LEMMA DecodeTakes ==
  ASSUME NEW p \in Pdu, Len(Encode(p)) \in Number, NEW r \in Seq(Byte),
         NEW buf, Cut(buf, Encode(p), r)
  PROVE  Decode(buf) = [pdu |-> p, used |-> Len(Encode(p))]
<1> DEFINE e == Encode(p)
           body == Body(p)
           n == Len(body)
           m == 8 + n
           cmd == U16(Slice(buf, 0, 2))
           len == U32(Slice(buf, 4, 8))
<1>1. /\ e \in Seq(Byte) /\ Len(e) = m /\ Piece(e, 0, LE(CmdId(p), 2))
      /\ Piece(e, 4, LE(m, 4)) /\ Piece(e, 8, body)
  BY EncodeShape
<1>2. CmdId(p) \in Short /\ body \in Seq(Byte)
  BY PduBody
<1>3. m \in Number /\ n \in Number /\ n \in Nat /\ Len(r) \in Nat
  <2>1. n \in Nat /\ Len(r) \in Nat
    BY <1>2, LenProperties
  <2>2. m \in Number
    BY <1>1
  <2>3. n <= m
    BY <2>1
  <2> HIDE DEF n, m
  <2>4. n \in Number
    BY <2>1, <2>2, <2>3, Smaller
  <2> QED
    BY <2>1, <2>2, <2>4
<1>4. DecodeBody(CmdId(p), body) = p
  BY <1>3, PduBody
<1> HIDE DEF e, body, n, cmd, len
<1>5. Cut(buf, e, r)
  BY DEF e
<1>6. /\ buf \in Seq(Byte) /\ Len(buf) = Len(e) + Len(r)
      /\ \A k \in Nat, y \in Seq(Byte) : Piece(e, k, y) => Piece(buf, k, y)
  BY <1>1, <1>5, PieceKept
<1>7. cmd = CmdId(p)
  <2>1. LE(CmdId(p), 2) \in Seq(Byte) /\ 0 + 2 = 2
    BY <1>2, U16Field DEF Bytes
  <2>2. Piece(buf, 0, LE(CmdId(p), 2))
    BY <1>1, <1>6, <2>1
  <2> QED
    BY <1>2, <1>6, <2>1, <2>2, ReadsU16 DEF cmd
<1>8. len = m
  <2> HIDE DEF m
  <2>1. LE(m, 4) \in Seq(Byte) /\ 4 + 4 = 8
    BY <1>3, U32Field DEF Bytes
  <2>2. Piece(buf, 4, LE(m, 4))
    BY <1>1, <1>6, <2>1
  <2> QED
    BY <1>3, <1>6, <2>1, <2>2, ReadsU32 DEF len
<1>9. Slice(buf, 8, m) = body
  <2>1. Piece(buf, 8, body)
    BY <1>1, <1>2, <1>6
  <2> QED
    BY <1>2, <1>6, <2>1, Slices DEF n
<1>10. ~(Len(buf) < 8 \/ len < 8 \/ Len(buf) < len)
  BY <1>1, <1>3, <1>6, <1>8
<1>11. Decode(buf) = [pdu |-> DecodeBody(cmd, Slice(buf, 8, len)), used |-> len]
  BY <1>10, Zenon DEF Decode, cmd, len
<1> QED
  BY <1>1, <1>4, <1>7, <1>8, <1>9, <1>11, Zenon DEF e

LEMMA U32IsNumber ==
  ASSUME NEW b, NEW b1 \in Nat, NEW b2 \in Nat, NEW b3 \in Nat, NEW b4 \in Nat,
         b1 = b[1], b2 = b[2], b3 = b[3], b4 = b[4]
  PROVE  U32(b) \in Int
<1>1. U32(b) = b1 + 256 * b2 + 65536 * b3 + 16777216 * b4
  BY SMT DEF U32, U16
<1>2. b1 + 256 * b2 + 65536 * b3 + 16777216 * b4 \in Int
  BY SMT
<1> QED
  BY <1>1, <1>2, SMT

\* What decode takes it takes forward, and never more than there is.
LEMMA DecodeMoves ==
  ASSUME NEW buf \in Seq(Byte), Decode(buf).pdu # Bad
  PROVE  Decode(buf).used \in 1 .. Len(buf)
<1> DEFINE cmd == U16(Slice(buf, 0, 2))
           len == U32(Slice(buf, 4, 8))
<1>1. Decode(buf) = IF Len(buf) < 8 \/ len < 8 \/ Len(buf) < len
                    THEN [pdu |-> Bad, used |-> Len(buf)]
                    ELSE [pdu |-> DecodeBody(cmd, Slice(buf, 8, len)), used |-> len]
  BY Zenon DEF Decode, cmd, len
<1>2. Len(buf) \in Nat
  BY LenProperties
<1>3. ASSUME ~(Len(buf) < 8) PROVE len \in Int
  <2> DEFINE b == Slice(buf, 4, 8)
  <2>1. b[1] \in Byte /\ b[2] \in Byte /\ b[3] \in Byte /\ b[4] \in Byte
    <3>1. 8 \in 0 .. Len(buf) /\ 4 \in 0 .. 8 /\ 8 - 4 = 4
      BY <1>2, <1>3
    <3>2. b \in Seq(Byte) /\ Len(b) = 4
      BY <3>1, Middle DEF Slice
    <3> HIDE DEF b
    <3>3. \A i \in 1 .. 4 : b[i] \in Byte
      BY <3>2, ElementOfSeq
    <3> QED
      BY <3>3
  <2> HIDE DEF b
  <2>2. b[1] \in Nat /\ b[2] \in Nat /\ b[3] \in Nat /\ b[4] \in Nat
    BY <2>1, Numbers
  <2>3. U32(b) \in Int
    BY <2>2, U32IsNumber, Zenon
  <2> QED
    BY <2>3, Zenon DEF len, b
<1> HIDE DEF cmd, len
<1>4. ~(Len(buf) < 8 \/ len < 8 \/ Len(buf) < len)
  BY <1>1
<1>5. Decode(buf).used = len
  BY <1>1, <1>4
<1> QED
  BY <1>2, <1>3, <1>4, <1>5

\* GfxPduIter, step by step.
Iterates(go, buf) ==
  /\ go[Len(buf)] = <<>>
  /\ \A n \in 0 .. Len(buf) - 1 :
       go[n] = LET d == Decode(From(buf, n))
               IN  IF d.pdu = Bad THEN <<Bad>> ELSE <<d.pdu>> \o go[n + d.used]

LEMMA PdusIterate ==
  ASSUME NEW buf \in Seq(Byte)
  PROVE  \E go : Iterates(go, buf) /\ Pdus(buf) = go[0]
<1> DEFINE n == Len(buf)
           d == [i \in 0 .. n - 1 |-> Decode(From(buf, i))]
           last == {i \in 0 .. n - 1 : d[i].pdu = Bad}
           item == [i \in 0 .. n - 1 |-> <<d[i].pdu>>]
           next == [i \in 0 .. n - 1 |-> i + d[i].used]
           Law(g) == g = [i \in 0 .. n |->
                            IF i = n THEN <<>>
                            ELSE LET e == Decode(From(buf, i))
                                 IN  IF e.pdu = Bad THEN <<Bad>> ELSE <<e.pdu>> \o g[i + e.used]]
           go == CHOOSE g : Law(g)
<1>1. n \in Nat
  BY LenProperties
<1>2. ASSUME NEW i \in 0 .. n - 1 PROVE i \in last \/ next[i] \in i + 1 .. n
  <2>1. i \in 0 .. n
    BY <1>1
  <2>2. From(buf, i) \in Seq(Byte) /\ Len(From(buf, i)) = n - i
    <3>1. Len(buf) \in 0 .. Len(buf) /\ i \in 0 .. Len(buf)
      BY <1>1
    <3> QED
      BY <3>1, Middle DEF From
  <2>3. d[i] = Decode(From(buf, i))
    OBVIOUS
  <2>4. d[i].pdu # Bad => d[i].used \in 1 .. n - i
    BY <2>2, <2>3, DecodeMoves, Zenon
  <2>5. next[i] = i + d[i].used /\ (i \in last <=> d[i].pdu = Bad)
    <3> HIDE DEF d
    <3> QED
      OBVIOUS
  <2> HIDE DEF n, d, last, next
  <2> QED
    BY <1>1, <2>1, <2>4, <2>5
<1>3. \A i \in 0 .. n - 1 : /\ d[i] = Decode(From(buf, i))
                            /\ item[i] = <<d[i].pdu>>
                            /\ next[i] = i + d[i].used
                            /\ i \in last <=> d[i].pdu = Bad
  OBVIOUS
<1> HIDE DEF n, d, last, item, next
<1>4. PICK f : Leaps(f, n, last, item, next)
  BY <1>1, <1>2, LeapRecursion
<1>5. ASSUME NEW i \in 0 .. n
      PROVE  f[i] = IF i = n THEN <<>>
                    ELSE LET e == Decode(From(buf, i))
                         IN  IF e.pdu = Bad THEN <<Bad>> ELSE <<e.pdu>> \o f[i + e.used]
  <2>1. CASE i = n
    BY <1>4, <2>1, Zenon DEF Leaps
  <2>2. CASE i # n
    <3>1. i \in 0 .. n - 1
      BY <1>1, <2>2
    <3>2. f[i] = IF i \in last THEN item[i] ELSE item[i] \o f[next[i]]
      BY <1>4, <3>1, Zenon DEF Leaps
    <3> QED
      BY <1>3, <2>2, <3>1, <3>2, Zenon
  <2> QED
    BY <2>1, <2>2
<1>6. Law(f)
  <2>1. f = [i \in 0 .. n |-> f[i]]
    BY <1>4 DEF Leaps
  <2> QED
    BY <1>5, <2>1, Zenon
<1>7. Law(go)
  <2> HIDE DEF Law
  <2> QED
    BY <1>6, Zenon
<1>8. Pdus(buf) = go[0]
  BY Zenon DEF Pdus, n
<1> HIDE DEF go
<1>9. \A i \in 0 .. n :
         go[i] = IF i = n THEN <<>>
                 ELSE LET e == Decode(From(buf, i))
                      IN  IF e.pdu = Bad THEN <<Bad>> ELSE <<e.pdu>> \o go[i + e.used]
  BY <1>7, Zenon
<1>10. n \in 0 .. n /\ \A i \in 0 .. n - 1 : i \in 0 .. n /\ i # n
  BY <1>1
<1>11. Iterates(go, buf)
  BY <1>9, <1>10, Zenon DEF Iterates, n
<1> QED
  BY <1>8, <1>11, Zenon

LEMMA EncodesType ==
  ASSUME NEW ps \in Seq(Pdu)
  PROVE  /\ [i \in DOMAIN ps |-> Encode(ps[i])] \in Seq(Seq(Byte))
         /\ Len([i \in DOMAIN ps |-> Encode(ps[i])]) = Len(ps)
         /\ \A i \in 1 .. Len(ps) : [j \in DOMAIN ps |-> Encode(ps[j])][i] = Encode(ps[i])
         /\ Encodes(ps) \in Seq(Byte)
<1> DEFINE parts == [i \in 1 .. Len(ps) |-> Encode(ps[i])]
<1>1. Len(ps) \in Nat /\ DOMAIN ps = 1 .. Len(ps) /\ \A i \in 1 .. Len(ps) : ps[i] \in Pdu
  BY LenProperties, ElementOfSeq
<1>2. \A i \in 1 .. Len(ps) : Encode(ps[i]) \in Seq(Byte)
  BY <1>1, EncodeShape
<1>3. parts \in Seq(Seq(Byte)) /\ Len(parts) = Len(ps)
      /\ \A i \in 1 .. Len(ps) : parts[i] = Encode(ps[i])
  BY <1>1, <1>2
<1>4. FlattenSeq(parts) \in Seq(Byte)
  <2> HIDE DEF parts
  <2> QED
    BY <1>3, FlattenType
<1> QED
  BY <1>1, <1>3, <1>4, Zenon DEF Encodes

\* GfxPduIter yields what was encoded, for every payload that can be announced.
LEMMA PdusOfEncodes ==
  ASSUME NEW ps \in Seq(Pdu), Len(Encodes(ps)) \in Number
  PROVE  Pdus(Encodes(ps)) = ps
<1> DEFINE n == Len(ps)
           parts == [i \in DOMAIN ps |-> Encode(ps[i])]
           buf == Encodes(ps)
<1>1. n \in Nat /\ \A i \in 1 .. n : ps[i] \in Pdu
  BY LenProperties, ElementOfSeq
<1>2. /\ parts \in Seq(Seq(Byte)) /\ Len(parts) = n /\ buf \in Seq(Byte)
      /\ \A i \in 1 .. n : parts[i] = Encode(ps[i])
  BY EncodesType
<1>3. buf = FlattenSeq(parts)
  BY Zenon DEF Encodes
<1> HIDE DEF parts, n, buf
<1>4. PICK F \in [0 .. Len(parts) -> Seq(Byte)] : Running(parts, F)
  BY <1>2, RunningExists
<1>5. PICK R \in [0 .. Len(parts) -> Seq(Byte)] : Remaining(parts, R)
  BY <1>2, RemainingExists
<1>6. \A i \in 0 .. Len(parts) : F[i] \o R[i] = FlattenSeq(parts)
  BY <1>2, <1>4, <1>5, Split
<1>7. \A i \in 0 .. n : Cut(buf, F[i], R[i])
  BY <1>2, <1>3, <1>6, Zenon DEF Cut
<1>8. PICK go : Iterates(go, buf) /\ Pdus(buf) = go[0]
  BY <1>2, PdusIterate
<1> DEFINE off(i) == Len(F[i])
<1>9. ASSUME NEW i \in 0 .. n
      PROVE  /\ F[i] \in Seq(Byte) /\ R[i] \in Seq(Byte)
             /\ off(i) \in Nat /\ off(i) <= Len(buf)
             /\ From(buf, off(i)) = R[i]
  <2>1. F[i] \in Seq(Byte) /\ R[i] \in Seq(Byte)
    BY <1>2, <1>4, <1>5
  <2>2. off(i) \in Nat /\ Len(R[i]) \in Nat
    BY <2>1, LenProperties
  <2>3. Cut(buf, F[i], R[i])
    BY <1>7
  <2>4. Len(buf) = off(i) + Len(R[i]) /\ Piece(buf, off(i), R[i])
    <3>1. \A a, c \in Seq(Byte) : \A w :
            Cut(w, a, c) => Len(w) = Len(a) + Len(c) /\ Piece(w, Len(a), c)
      BY PieceKept
    <3> QED
      BY <2>1, <2>3, <3>1, Zenon
  <2>5. SubSeq(buf, off(i) + 1, off(i) + Len(R[i])) = R[i]
    BY <1>2, <2>1, <2>2, <2>4, PieceIsSubSeq
  <2>6. off(i) <= Len(buf)
    BY <2>2, <2>4
  <2> QED
    BY <2>1, <2>2, <2>4, <2>5, <2>6, Zenon DEF From
<1>10. ASSUME NEW i \in 1 .. n
       PROVE  /\ off(i) = off(i - 1) + Len(Encode(ps[i])) /\ Len(Encode(ps[i])) \in Nat \ {0}
              /\ Cut(R[i - 1], Encode(ps[i]), R[i])
  <2>1. i \in 0 .. n /\ i - 1 \in 0 .. n /\ i \in 1 .. Len(parts)
    BY <1>1, <1>2
  <2>2. F[i] = F[i - 1] \o Encode(ps[i]) /\ R[i - 1] = Encode(ps[i]) \o R[i]
    BY <1>2, <1>4, <1>5, <2>1, Zenon DEF Running, Remaining
  <2>3. Encode(ps[i]) \in Seq(Byte) /\ Len(Encode(ps[i])) \in Nat \ {0}
    <3>1. Encode(ps[i]) \in Seq(Byte) /\ Len(Encode(ps[i])) = 8 + Len(Body(ps[i]))
          /\ Body(ps[i]) \in Seq(Byte)
      BY <1>1, EncodeShape, PduBody
    <3>2. Len(Body(ps[i])) \in Nat
      BY <3>1, LenProperties
    <3> QED
      BY <3>1, <3>2
  <2>4. Cut(F[i], F[i - 1], Encode(ps[i])) /\ Cut(R[i - 1], Encode(ps[i]), R[i])
    BY <2>2, Zenon DEF Cut
  <2>5. Len(F[i]) = Len(F[i - 1]) + Len(Encode(ps[i]))
    <3>1. F[i - 1] \in Seq(Byte) /\ Encode(ps[i]) \in Seq(Byte)
      BY <1>9, <2>1, <2>3
    <3>2. Cut(F[i], F[i - 1], Encode(ps[i]))
      BY <2>4
    <3>3. \A a, c \in Seq(Byte) : \A w : Cut(w, a, c) => Len(w) = Len(a) + Len(c)
      BY CutElements
    <3> QED
      BY <3>1, <3>2, <3>3, Zenon
  <2> QED
    BY <2>3, <2>4, <2>5
<1>11. go[off(n)] = <<>>
  <2>1. n \in 0 .. n /\ Len(parts) \in 0 .. Len(parts)
    BY <1>1, <1>2
  <2>2. FlattenSeq(parts) = F[n]
    BY <1>2, <1>4, FlattenRuns
  <2> QED
    BY <1>3, <1>8, <2>2, Zenon DEF Iterates
<1>12. ASSUME NEW i \in 1 .. n
       PROVE  go[off(i - 1)] = <<ps[i]>> \o go[off(i)]
  <2> DEFINE k == off(i - 1)
             d == Decode(From(buf, k))
  <2>1. i \in 0 .. n /\ i - 1 \in 0 .. n
    BY <1>1
  <2>2. /\ k \in Nat /\ k <= Len(buf) /\ From(buf, k) = R[i - 1] /\ R[i] \in Seq(Byte)
        /\ off(i) \in Nat /\ off(i) <= Len(buf)
    BY <1>9, <2>1
  <2>3. /\ off(i) = k + Len(Encode(ps[i])) /\ Len(Encode(ps[i])) \in Nat \ {0}
        /\ Cut(R[i - 1], Encode(ps[i]), R[i])
    BY <1>10
  <2> HIDE DEF off, k
  <2>4. ps[i] \in Pdu /\ Len(buf) \in Nat /\ Len(buf) \in Number
    BY <1>1, <1>2, LenProperties DEF buf
  <2>5. Len(Encode(ps[i])) \in Number
    <3>1. Len(Encode(ps[i])) <= Len(buf)
      BY <2>2, <2>3, <2>4
    <3>2. Len(Encode(ps[i])) \in Nat
      BY <2>3
    <3> QED
      BY <2>4, <3>1, <3>2, Smaller, Zenon
  <2>6. d = [pdu |-> ps[i], used |-> Len(Encode(ps[i]))]
    BY <2>2, <2>3, <2>4, <2>5, DecodeTakes
  <2> HIDE DEF d
  <2>7. ps[i] # Bad
    BY <2>4 DEF Pdu, Bad
  <2>8. k \in 0 .. Len(buf) - 1
    BY <2>2, <2>3, <2>4
  <2>9. go[k] = IF d.pdu = Bad THEN <<Bad>> ELSE <<d.pdu>> \o go[k + d.used]
    BY <1>8, <2>8, Zenon DEF Iterates, d
  <2> QED
    BY <2>3, <2>6, <2>7, <2>9, Zenon DEF k
<1> HIDE DEF off
<1> DEFINE T == {m \in 0 .. n : go[off(n - m)] = SubSeq(ps, n - m + 1, n)}
<1>13. 0 \in T
  <2>1. n - 0 = n /\ n + 1 \in Int /\ n \in Int /\ n < n + 1 /\ 0 \in 0 .. n
    BY <1>1
  <2>2. SubSeq(ps, n + 1, n) = <<>>
    BY <2>1, SubSeqEmpty, Zenon
  <2> QED
    BY <1>11, <2>1, <2>2, Zenon
<1>14. ASSUME NEW m \in 0 .. n - 1, m \in T PROVE m + 1 \in T
  <2> DEFINE i == n - m
  <2>1. /\ i \in 1 .. n /\ n - (m + 1) = i - 1 /\ n - (m + 1) + 1 = i /\ m + 1 \in 0 .. n
        /\ n \in i .. n
    BY <1>1
  <2>2. go[off(i)] = SubSeq(ps, i + 1, n)
    BY <1>14, Zenon
  <2> HIDE DEF i
  <2>3. go[off(i - 1)] = <<ps[i]>> \o SubSeq(ps, i + 1, n)
    BY <1>12, <2>1, <2>2, Zenon
  <2>4. SubSeq(ps, i, n) = <<ps[i]>> \o SubSeq(ps, i + 1, n)
    BY <2>1, SubSeqRecursiveFirst DEF n
  <2>5. go[off(i - 1)] = SubSeq(ps, i, n)
    BY <2>3, <2>4, Zenon
  <2> QED
    BY <2>1, <2>5, Zenon
<1>15. n \in T
  <2> HIDE DEF T
  <2>1. \A m \in 0 .. n : m \in T
    BY <1>1, <1>13, <1>14, BoundedInduction
  <2> QED
    BY <1>1, <2>1
<1>16. go[off(0)] = ps
  <2>1. n - n = 0 /\ 0 + 1 = 1
    BY <1>1
  <2>2. go[off(0)] = SubSeq(ps, 1, n)
    BY <1>15, <2>1, Zenon
  <2> QED
    BY <2>2, SubSeqFull DEF n
<1>17. off(0) = 0
  BY <1>4, EmptySeq DEF off, Running
<1> QED
  BY <1>8, <1>16, <1>17, Zenon DEF buf

-----------------------------------------------------------------------------
(* What is written, message after message *)

\* What each message puts on the wire, and whether it is accepted at all.
Parts(ms) == [i \in DOMAIN ms |-> MuxEncode(Frame(ms[i]))]
Takes(ms) == [i \in DOMAIN ms |-> IF Fits(ms[i]) THEN <<ms[i]>> ELSE <<>>]

\* What is written behind the first k messages, and what is accepted of these.
Left(ms, k) == FlattenSeq(SubSeq(Parts(ms), k + 1, Len(ms)))
Kept(ms, k) == FlattenSeq(SubSeq(Takes(ms), 1, k))

LEMMA FrameType ==
  ASSUME NEW m \in Message
  PROVE  Frame(m) \in MuxFrame /\ Frame(m).channel = m.channel /\ Len(Frame(m).payload) \in Nat
<1>1. CASE m \in [channel : {Gfx}, pdus : Seq(Pdu)]
  <2>1. m.channel = Gfx /\ m.pdus \in Seq(Pdu)
    BY <1>1
  <2>2. Encodes(m.pdus) \in Seq(Byte)
    BY <2>1, EncodesType
  <2>3. Gfx \in Byte
    BY SMT DEF Gfx, Byte, UpTo
  <2>4. Frame(m) = [channel |-> Gfx, payload |-> Encodes(m.pdus)]
    BY <2>1, Zenon DEF Frame
  <2>5. Len(Encodes(m.pdus)) \in Nat
    BY <2>2, LenProperties
  <2> QED
    BY <2>1, <2>2, <2>3, <2>4, <2>5 DEF MuxFrame
<1>2. CASE m \in [channel : Byte \ {Gfx}, payload : Seq(Byte)]
  <2>1. m.channel # Gfx /\ m.channel \in Byte /\ m.payload \in Seq(Byte)
    BY <1>2
  <2>2. Frame(m) = [channel |-> m.channel, payload |-> m.payload]
    BY <2>1, Zenon DEF Frame
  <2>3. Len(m.payload) \in Nat
    BY <2>1, LenProperties
  <2> QED
    BY <2>1, <2>2, <2>3 DEF MuxFrame
<1> QED
  BY <1>1, <1>2, Zenon DEF Message

LEMMA MuxEncodeType ==
  ASSUME NEW f \in MuxFrame
  PROVE  MuxEncode(f) \in Seq(Byte)
<1>1. CASE Len(f.payload) > MaxPayload
  <2>1. MuxEncode(f) = <<>>
    BY <1>1, Zenon DEF MuxEncode
  <2> QED
    BY <2>1
<1>2. CASE ~(Len(f.payload) > MaxPayload)
  <2>1. f.payload \in Seq(Byte)
    BY DEF MuxFrame
  <2>2. Len(f.payload) \in Nat /\ MaxPayload \in Nat
    BY <2>1, LenProperties, LimitsAssumption, Numbers
  <2>3. Len(f.payload) <= MaxPayload
    BY <1>2, <2>2
  <2> QED
    BY <2>3, FrameOnTheWire
<1> QED
  BY <1>1, <1>2, Zenon

LEMMA WrittenShape ==
  ASSUME NEW ms \in Seq(Message)
  PROVE  /\ Written(ms) \in Seq(MuxFrame) /\ Len(Written(ms)) = Len(ms)
         /\ DOMAIN Written(ms) = 1 .. Len(ms)
         /\ \A i \in 1 .. Len(ms) : Written(ms)[i] = Frame(ms[i])
<1> DEFINE w == [i \in 1 .. Len(ms) |-> Frame(ms[i])]
<1>1. Len(ms) \in Nat /\ DOMAIN ms = 1 .. Len(ms) /\ \A i \in 1 .. Len(ms) : ms[i] \in Message
  BY LenProperties, ElementOfSeq
<1>2. \A i \in 1 .. Len(ms) : Frame(ms[i]) \in MuxFrame
  BY <1>1, FrameType
<1>3. w \in Seq(MuxFrame) /\ Len(w) = Len(ms) /\ DOMAIN w = 1 .. Len(ms)
      /\ \A i \in 1 .. Len(ms) : w[i] = Frame(ms[i])
  BY <1>1, <1>2
<1> QED
  BY <1>1, <1>3, Zenon DEF Written

LEMMA WrittenAppend ==
  ASSUME NEW ms \in Seq(Message), NEW m \in Message
  PROVE  Written(Append(ms, m)) = Append(Written(ms), Frame(m))
<1> DEFINE more == Append(ms, m)
           w == Written(more)
           v == Append(Written(ms), Frame(m))
<1>1. /\ Len(ms) \in Nat /\ more \in Seq(Message) /\ Len(more) = Len(ms) + 1
      /\ more[Len(ms) + 1] = m /\ \A i \in 1 .. Len(ms) : more[i] = ms[i]
  BY LenProperties, AppendProperties
<1> HIDE DEF more
<1>2. /\ w \in Seq(MuxFrame) /\ Len(w) = Len(more)
      /\ \A i \in 1 .. Len(more) : w[i] = Frame(more[i])
  BY <1>1, WrittenShape
<1>3. /\ Written(ms) \in Seq(MuxFrame) /\ Len(Written(ms)) = Len(ms)
      /\ \A i \in 1 .. Len(ms) : Written(ms)[i] = Frame(ms[i])
  BY WrittenShape
<1>4. Frame(m) \in MuxFrame
  BY FrameType
<1>5. /\ v \in Seq(MuxFrame) /\ Len(v) = Len(ms) + 1 /\ v[Len(ms) + 1] = Frame(m)
      /\ \A i \in 1 .. Len(ms) : v[i] = Written(ms)[i]
  BY <1>3, <1>4, AppendProperties
<1> HIDE DEF w, v
<1>6. ASSUME NEW i \in 1 .. Len(w) PROVE w[i] = v[i]
  <2>1. CASE i \in 1 .. Len(ms)
    <3>1. i \in 1 .. Len(more)
      BY <1>1, <2>1
    <3> QED
      BY <1>1, <1>2, <1>3, <1>5, <2>1, <3>1, Zenon
  <2>2. CASE i = Len(ms) + 1
    <3>1. i \in 1 .. Len(more)
      BY <1>1, <2>2
    <3> QED
      BY <1>1, <1>2, <1>5, <2>2, <3>1, Zenon
  <2> QED
    BY <1>1, <1>2, <2>1, <2>2
<1>7. w = v
  <2>1. Len(w) = Len(v)
    BY <1>1, <1>2, <1>5, Zenon
  <2> QED
    BY <1>2, <1>5, <1>6, <2>1, SeqEqual
<1> QED
  BY <1>7, Zenon DEF w, v, more

LEMMA WireAppend ==
  ASSUME NEW fs \in Seq(MuxFrame), NEW f \in MuxFrame
  PROVE  /\ OnTheWire(fs) \in Seq(Byte)
         /\ OnTheWire(Append(fs, f)) = OnTheWire(fs) \o MuxEncode(f)
<1> DEFINE Pieces(s) == [i \in 1 .. Len(s) |-> MuxEncode(s[i])]
           more == Append(fs, f)
<1>1. ASSUME NEW s \in Seq(MuxFrame)
      PROVE  /\ Pieces(s) \in Seq(Seq(Byte)) /\ Len(Pieces(s)) = Len(s)
             /\ \A i \in 1 .. Len(s) : Pieces(s)[i] = MuxEncode(s[i])
             /\ OnTheWire(s) = FlattenSeq(Pieces(s))
  <2>1. Len(s) \in Nat /\ DOMAIN s = 1 .. Len(s) /\ \A i \in 1 .. Len(s) : s[i] \in MuxFrame
    BY LenProperties, ElementOfSeq
  <2>2. \A i \in 1 .. Len(s) : MuxEncode(s[i]) \in Seq(Byte)
    BY <2>1, MuxEncodeType
  <2>3. Pieces(s) \in Seq(Seq(Byte)) /\ Len(Pieces(s)) = Len(s)
        /\ \A i \in 1 .. Len(s) : Pieces(s)[i] = MuxEncode(s[i])
    BY <2>1, <2>2
  <2>4. OnTheWire(s) = FlattenSeq(Pieces(s))
    BY <2>1, Zenon DEF OnTheWire
  <2> QED
    BY <2>3, <2>4, Zenon
<1>2. /\ Len(fs) \in Nat /\ more \in Seq(MuxFrame) /\ Len(more) = Len(fs) + 1
      /\ more[Len(fs) + 1] = f /\ \A i \in 1 .. Len(fs) : more[i] = fs[i]
  BY LenProperties, AppendProperties
<1>3. MuxEncode(f) \in Seq(Byte)
  BY MuxEncodeType
<1> HIDE DEF more, Pieces
<1> DEFINE longer == Append(Pieces(fs), MuxEncode(f))
<1>4. /\ longer \in Seq(Seq(Byte)) /\ Len(longer) = Len(fs) + 1
      /\ longer[Len(fs) + 1] = MuxEncode(f)
      /\ \A i \in 1 .. Len(fs) : longer[i] = Pieces(fs)[i]
  <2>1. Pieces(fs) \in Seq(Seq(Byte)) /\ Len(Pieces(fs)) = Len(fs)
    BY <1>1
  <2> QED
    BY <1>3, <2>1, AppendProperties
<1> HIDE DEF longer
<1>5. Pieces(more) = longer
  <2>1. /\ Pieces(more) \in Seq(Seq(Byte)) /\ Len(Pieces(more)) = Len(fs) + 1
        /\ \A i \in 1 .. Len(fs) + 1 : Pieces(more)[i] = MuxEncode(more[i])
    BY <1>1, <1>2
  <2>2. \A i \in 1 .. Len(fs) : Pieces(fs)[i] = MuxEncode(fs[i])
    BY <1>1
  <2>3. ASSUME NEW i \in 1 .. Len(Pieces(more)) PROVE Pieces(more)[i] = longer[i]
    <3>1. i \in 1 .. Len(fs) + 1 /\ (i = Len(fs) + 1 \/ i \in 1 .. Len(fs))
      BY <1>2, <2>1
    <3> QED
      BY <1>2, <1>4, <2>1, <2>2, <3>1, Zenon
  <2>4. Len(Pieces(more)) = Len(longer)
    BY <1>4, <2>1, Zenon
  <2> QED
    BY <1>4, <2>1, <2>3, <2>4, SeqEqual
<1>6. FlattenSeq(longer) = FlattenSeq(Pieces(fs)) \o MuxEncode(f)
  <2>1. Pieces(fs) \in Seq(Seq(Byte))
    BY <1>1
  <2> QED
    BY <1>3, <2>1, FlattenAppend DEF longer
<1>7. OnTheWire(more) = FlattenSeq(Pieces(more)) /\ OnTheWire(fs) = FlattenSeq(Pieces(fs))
  BY <1>1, <1>2, Zenon
<1>8. FlattenSeq(Pieces(fs)) \in Seq(Byte)
  <2>1. Pieces(fs) \in Seq(Seq(Byte))
    BY <1>1
  <2> QED
    BY <2>1, FlattenType
<1> QED
  BY <1>5, <1>6, <1>7, <1>8, Zenon DEF more

LEMMA WireType ==
  ASSUME NEW fs \in Seq(MuxFrame)
  PROVE  OnTheWire(fs) \in Seq(Byte)
<1> DEFINE f == [channel |-> 0, payload |-> <<>>]
<1>1. 0 \in Byte
  BY SMT DEF Byte, UpTo
<1>2. f \in MuxFrame
  BY <1>1 DEF MuxFrame
<1> QED
  BY <1>2, WireAppend

\* What each message puts on the wire and what is accepted of it, as sequences.
LEMMA PartsShape ==
  ASSUME NEW ms \in Seq(Message)
  PROVE  /\ Len(ms) \in Nat /\ \A i \in 1 .. Len(ms) : ms[i] \in Message
         /\ Parts(ms) \in Seq(Seq(Byte)) /\ Len(Parts(ms)) = Len(ms)
         /\ \A i \in 1 .. Len(ms) : Parts(ms)[i] = MuxEncode(Frame(ms[i]))
         /\ Takes(ms) \in Seq(Seq(Message)) /\ Len(Takes(ms)) = Len(ms)
         /\ \A i \in 1 .. Len(ms) : Takes(ms)[i] = IF Fits(ms[i]) THEN <<ms[i]>> ELSE <<>>
<1> DEFINE Take(m) == IF Fits(m) THEN <<m>> ELSE <<>>
           p == [i \in 1 .. Len(ms) |-> MuxEncode(Frame(ms[i]))]
           t == [i \in 1 .. Len(ms) |-> Take(ms[i])]
<1>1. Len(ms) \in Nat /\ DOMAIN ms = 1 .. Len(ms) /\ \A i \in 1 .. Len(ms) : ms[i] \in Message
  BY LenProperties, ElementOfSeq
<1>2. \A i \in 1 .. Len(ms) : MuxEncode(Frame(ms[i])) \in Seq(Byte)
  BY <1>1, FrameType, MuxEncodeType
<1>3. \A i \in 1 .. Len(ms) : Take(ms[i]) \in Seq(Message)
  BY <1>1
<1> HIDE DEF Take
<1>4. p \in Seq(Seq(Byte)) /\ Len(p) = Len(ms)
      /\ \A i \in 1 .. Len(ms) : p[i] = MuxEncode(Frame(ms[i]))
  BY <1>1, <1>2
<1>5. t \in Seq(Seq(Message)) /\ Len(t) = Len(ms)
      /\ \A i \in 1 .. Len(ms) : t[i] = Take(ms[i])
  BY <1>1, <1>3
<1>6. Parts(ms) = p /\ Takes(ms) = t
  BY <1>1, Zenon DEF Parts, Takes, Take
<1> HIDE DEF p, t
<1> QED
  BY <1>1, <1>4, <1>5, <1>6, Zenon DEF Take

\* What is left behind k messages.
LEMMA LeftType ==
  ASSUME NEW ms \in Seq(Message), NEW k \in 0 .. Len(ms)
  PROVE  Left(ms, k) \in Seq(Byte) /\ Kept(ms, k) \in Seq(Message)
<1> DEFINE n == Len(ms)
           left == SubSeq(Parts(ms), k + 1, n)
           kept == SubSeq(Takes(ms), 1, k)
<1>1. /\ n \in Nat /\ Parts(ms) \in Seq(Seq(Byte)) /\ Len(Parts(ms)) = n
      /\ Takes(ms) \in Seq(Seq(Message)) /\ Len(Takes(ms)) = n
  BY PartsShape
<1>2. /\ \A i \in 1 .. n : Parts(ms)[i] \in Seq(Byte)
      /\ \A i \in 1 .. n : Takes(ms)[i] \in Seq(Message)
  BY <1>1, ElementOfSeq
<1>3. /\ k \in Int /\ n \in Int /\ k + 1 \in Int /\ 1 \in Int
      /\ \A i \in k + 1 .. n : i \in 1 .. n
      /\ \A i \in 1 .. k : i \in 1 .. n
  BY <1>1
<1>4. left \in Seq(Seq(Byte))
  BY <1>2, <1>3, SubSeqProperties
<1>5. kept \in Seq(Seq(Message))
  BY <1>2, <1>3, SubSeqProperties
<1>6. Left(ms, k) = FlattenSeq(left) /\ Kept(ms, k) = FlattenSeq(kept)
  BY Zenon DEF Left, Kept
<1> HIDE DEF left, kept
<1> QED
  BY <1>4, <1>5, <1>6, FlattenType

\* One message: its frame is next on the wire, and it is accepted next; one that
\* does not fit leaves both as they are.
LEMMA LeftStep ==
  ASSUME NEW ms \in Seq(Message), NEW k \in 0 .. Len(ms) - 1
  PROVE  /\ k + 1 \in 1 .. Len(ms) /\ k \in 0 .. Len(ms) /\ k + 1 \in 0 .. Len(ms)
         /\ ms[k + 1] \in Message
         /\ Fits(ms[k + 1]) =>
              /\ Cut(Left(ms, k), MuxEncode(Frame(ms[k + 1])), Left(ms, k + 1))
              /\ Kept(ms, k + 1) = Append(Kept(ms, k), ms[k + 1])
         /\ ~Fits(ms[k + 1]) =>
              Left(ms, k + 1) = Left(ms, k) /\ Kept(ms, k + 1) = Kept(ms, k)
<1> DEFINE n == Len(ms)
           m == ms[k + 1]
           after == Left(ms, k + 1)
           before == Kept(ms, k)
<1>1. /\ n \in Nat /\ \A i \in 1 .. n : ms[i] \in Message
      /\ Parts(ms) \in Seq(Seq(Byte)) /\ Len(Parts(ms)) = n
      /\ \A i \in 1 .. n : Parts(ms)[i] = MuxEncode(Frame(ms[i]))
      /\ Takes(ms) \in Seq(Seq(Message)) /\ Len(Takes(ms)) = n
      /\ \A i \in 1 .. n : Takes(ms)[i] = IF Fits(ms[i]) THEN <<ms[i]>> ELSE <<>>
  BY PartsShape
<1>2. /\ k + 1 \in 1 .. n /\ k \in 0 .. n /\ k + 1 \in 0 .. n /\ (k + 1) - 1 = k
  BY <1>1
<1>3. m \in Message
  BY <1>1, <1>2
<1>4. after \in Seq(Byte) /\ before \in Seq(Message)
  BY <1>2, LeftType
<1>5. Left(ms, k) = Parts(ms)[k + 1] \o after
  <2>1. k + 1 \in 1 .. Len(Parts(ms))
    BY <1>1, <1>2
  <2>2. FlattenSeq(SubSeq(Parts(ms), k + 1, Len(Parts(ms))))
          = Parts(ms)[k + 1] \o FlattenSeq(SubSeq(Parts(ms), (k + 1) + 1, Len(Parts(ms))))
    BY <1>1, <2>1, FlattenDrop
  <2> QED
    BY <1>1, <2>2, Zenon DEF Left
<1>6. Kept(ms, k + 1) = before \o Takes(ms)[k + 1]
  <2>1. k + 1 \in 1 .. Len(Takes(ms))
    BY <1>1, <1>2
  <2>2. FlattenSeq(SubSeq(Takes(ms), 1, k + 1))
          = FlattenSeq(SubSeq(Takes(ms), 1, (k + 1) - 1)) \o Takes(ms)[k + 1]
    BY <1>1, <2>1, FlattenTake
  <2> QED
    BY <1>2, <2>2, Zenon DEF Kept
<1> HIDE DEF n, m, after, before
<1>7. ASSUME Fits(m)
      PROVE  Cut(Left(ms, k), MuxEncode(Frame(m)), after) /\ Kept(ms, k + 1) = Append(before, m)
  <2>1. Parts(ms)[k + 1] = MuxEncode(Frame(m)) /\ Takes(ms)[k + 1] = <<m>>
    BY <1>1, <1>2, <1>7, Zenon DEF m
  <2>2. Append(before, m) = before \o <<m>>
    BY <1>3, <1>4, AppendIsConcat
  <2> QED
    BY <1>5, <1>6, <2>1, <2>2, Zenon DEF Cut
<1>8. ASSUME ~Fits(m) PROVE after = Left(ms, k) /\ Kept(ms, k + 1) = before
  <2>1. Frame(m) \in MuxFrame /\ Len(Frame(m).payload) \in Nat
    BY <1>3, FrameType
  <2>2. Len(Frame(m).payload) > MaxPayload
    <3>1. MaxPayload \in Nat
      BY LimitsAssumption, Numbers
    <3> QED
      BY <1>8, <2>1, <3>1 DEF Fits
  <2>3. MuxEncode(Frame(m)) = <<>>
    BY <2>2, Zenon DEF MuxEncode
  <2>4. Parts(ms)[k + 1] = <<>> /\ Takes(ms)[k + 1] = <<>>
    BY <1>1, <1>2, <1>8, <2>3, Zenon DEF m
  <2>5. <<>> \o after = after /\ before \o <<>> = before
    BY <1>4, ConcatEmptySeq
  <2> QED
    BY <1>5, <1>6, <2>4, <2>5, Zenon
<1> QED
  BY <1>2, <1>3, <1>7, <1>8, Zenon DEF n, m, after, before

\* Before the first message and behind the last.
LEMMA LeftEnds ==
  ASSUME NEW ms \in Seq(Message)
  PROVE  /\ Len(ms) \in Nat /\ 0 \in 0 .. Len(ms) /\ Len(ms) \in 0 .. Len(ms)
         /\ Kept(ms, 0) = <<>> /\ Left(ms, Len(ms)) = <<>>
         /\ Left(ms, 0) = OnTheWire(Written(ms))
         /\ Kept(ms, Len(ms)) = FlattenSeq(Takes(ms))
<1> DEFINE n == Len(ms)
<1>1. /\ n \in Nat /\ Parts(ms) \in Seq(Seq(Byte)) /\ Len(Parts(ms)) = n
      /\ \A i \in 1 .. n : Parts(ms)[i] = MuxEncode(Frame(ms[i]))
      /\ Takes(ms) \in Seq(Seq(Message)) /\ Len(Takes(ms)) = n
      /\ DOMAIN ms = 1 .. n
  BY PartsShape, LenProperties
<1>2. /\ n \in Int /\ n + 1 \in Int /\ n < n + 1 /\ 0 \in Int /\ 1 \in Int /\ 0 < 1
      /\ 0 \in 0 .. n /\ n \in 0 .. n /\ 0 + 1 = 1
  BY <1>1
<1>3. SubSeq(Takes(ms), 1, 0) = <<>> /\ SubSeq(Parts(ms), n + 1, n) = <<>>
  BY <1>2, SubSeqEmpty
<1>4. SubSeq(Parts(ms), 1, n) = Parts(ms) /\ SubSeq(Takes(ms), 1, n) = Takes(ms)
  BY <1>1, SubSeqFull
<1>5. Kept(ms, 0) = <<>> /\ Left(ms, n) = <<>>
  BY <1>3, FlattenEmpty, Zenon DEF Kept, Left
<1>6. Left(ms, 0) = FlattenSeq(Parts(ms)) /\ Kept(ms, n) = FlattenSeq(Takes(ms))
  BY <1>2, <1>4, Zenon DEF Kept, Left
<1>7. OnTheWire(Written(ms)) = FlattenSeq(Parts(ms))
  <2>1. DOMAIN Written(ms) = 1 .. n /\ \A i \in 1 .. n : Written(ms)[i] = Frame(ms[i])
    BY WrittenShape
  <2>2. [i \in DOMAIN Written(ms) |-> MuxEncode(Written(ms)[i])]
          = [i \in DOMAIN ms |-> MuxEncode(Frame(ms[i]))]
    BY <1>1, <2>1, Zenon
  <2> QED
    BY <2>2, Zenon DEF OnTheWire, Parts
<1> QED
  BY <1>1, <1>2, <1>5, <1>6, <1>7, Zenon

\* The frames of the messages accepted so far, and what is left, make the whole.
LEMMA WholeWire ==
  ASSUME NEW ms \in Seq(Message)
  PROVE  \A k \in 0 .. Len(ms) :
           Cut(OnTheWire(Written(ms)), OnTheWire(Written(Kept(ms, k))), Left(ms, k))
<1> DEFINE n == Len(ms)
           whole == OnTheWire(Written(ms))
           Done(k) == OnTheWire(Written(Kept(ms, k)))
           T == {k \in 0 .. n : Cut(whole, Done(k), Left(ms, k))}
<1>1. /\ n \in Nat /\ 0 \in 0 .. n /\ Kept(ms, 0) = <<>> /\ Left(ms, 0) = whole
  BY LeftEnds
<1>2. ASSUME NEW k \in 0 .. n
      PROVE  Kept(ms, k) \in Seq(Message) /\ Written(Kept(ms, k)) \in Seq(MuxFrame)
             /\ Done(k) \in Seq(Byte) /\ Left(ms, k) \in Seq(Byte)
  <2>1. Kept(ms, k) \in Seq(Message) /\ Left(ms, k) \in Seq(Byte)
    BY LeftType
  <2>2. Written(Kept(ms, k)) \in Seq(MuxFrame)
    BY <2>1, WrittenShape
  <2>3. Done(k) \in Seq(Byte)
    BY <2>2, WireType
  <2> QED
    BY <2>1, <2>2, <2>3
<1>3. 0 \in T
  <2>1. Written(Kept(ms, 0)) = <<>>
    BY <1>1 DEF Written
  <2>2. OnTheWire(<<>>) = <<>>
    BY FlattenEmpty DEF OnTheWire
  <2>3. <<>> \o Left(ms, 0) = Left(ms, 0)
    BY <1>1, <1>2, ConcatEmptySeq
  <2> QED
    BY <1>1, <2>1, <2>2, <2>3, Zenon DEF Cut
<1>4. ASSUME NEW k \in 0 .. n - 1, k \in T PROVE k + 1 \in T
  <2> DEFINE m == ms[k + 1]
             e == MuxEncode(Frame(m))
  <2>1. /\ k \in 0 .. n /\ k + 1 \in 0 .. n /\ m \in Message
        /\ Fits(m) => Cut(Left(ms, k), e, Left(ms, k + 1)) /\ Kept(ms, k + 1) = Append(Kept(ms, k), m)
        /\ ~Fits(m) => Left(ms, k + 1) = Left(ms, k) /\ Kept(ms, k + 1) = Kept(ms, k)
    BY LeftStep
  <2>2. Cut(whole, Done(k), Left(ms, k))
    BY <1>4
  <2>3. Kept(ms, k) \in Seq(Message) /\ Written(Kept(ms, k)) \in Seq(MuxFrame)
        /\ Done(k) \in Seq(Byte) /\ Left(ms, k + 1) \in Seq(Byte)
    BY <1>2, <2>1
  <2>4. Frame(m) \in MuxFrame /\ e \in Seq(Byte)
    BY <2>1, FrameType, MuxEncodeType
  <2> HIDE DEF m, whole
  <2>5. CASE Fits(m)
    <3>1. Done(k + 1) = Done(k) \o e
      <4>1. Written(Kept(ms, k + 1)) = Append(Written(Kept(ms, k)), Frame(m))
        BY <2>1, <2>3, <2>5, WrittenAppend
      <4>2. OnTheWire(Append(Written(Kept(ms, k)), Frame(m))) = Done(k) \o e
        BY <2>3, <2>4, WireAppend
      <4> QED
        BY <4>1, <4>2, Zenon
    <3>2. Regroups(Done(k), e, Left(ms, k + 1))
      <4> HIDE DEF Done, e
      <4> QED
        BY <2>3, <2>4, Regroup
    <3>3. Cut(Left(ms, k), e, Left(ms, k + 1))
      BY <2>1, <2>5
    <3> HIDE DEF Done, e
    <3>4. Cut(whole, Done(k + 1), Left(ms, k + 1))
      BY <2>2, <3>1, <3>2, <3>3, Zenon DEF Cut, Regroups
    <3> QED
      BY <2>1, <3>4
  <2>6. CASE ~Fits(m)
    <3>1. Left(ms, k + 1) = Left(ms, k) /\ Kept(ms, k + 1) = Kept(ms, k)
      BY <2>1, <2>6
    <3>2. Cut(whole, Done(k + 1), Left(ms, k + 1))
      BY <2>2, <3>1, Zenon
    <3> QED
      BY <2>1, <3>2
  <2> QED
    BY <2>5, <2>6
<1>5. \A k \in 0 .. n : k \in T
  <2> HIDE DEF T
  <2> QED
    BY <1>1, <1>3, <1>4, BoundedInduction
<1> QED
  BY <1>5, Zenon

\* s begins t.
Begins(s, t) == Len(s) <= Len(t) /\ \A i \in 1 .. Len(s) : t[i] = s[i]

\* What is accepted of the first messages begins what is accepted of them all.
LEMMA KeptGrows ==
  ASSUME NEW ms \in Seq(Message), NEW k \in 0 .. Len(ms)
  PROVE  Begins(Kept(ms, k), Kept(ms, Len(ms)))
<1> DEFINE n == Len(ms)
           T == {d \in 0 .. n - k : Begins(Kept(ms, k), Kept(ms, k + d))}
<1>1. n \in Nat /\ k \in Nat /\ n - k \in Nat /\ k + 0 = k /\ 0 \in 0 .. n - k /\ k + (n - k) = n
      /\ n - k \in 0 .. n - k
  BY LeftEnds
<1>2. Kept(ms, k) \in Seq(Message) /\ Len(Kept(ms, k)) \in Nat
  BY LeftType, LenProperties
<1>3. 0 \in T
  <2>1. Len(Kept(ms, k)) <= Len(Kept(ms, k))
    BY <1>2
  <2> QED
    BY <1>1, <2>1, Zenon DEF Begins
<1>4. ASSUME NEW d \in 0 .. n - k - 1, d \in T PROVE d + 1 \in T
  <2> DEFINE j == k + d
             s == Kept(ms, k)
             t == Kept(ms, j)
             u == Kept(ms, j + 1)
  <2>1. j \in 0 .. n - 1 /\ j \in 0 .. n /\ d + 1 \in 0 .. n - k /\ k + (d + 1) = j + 1
    BY <1>1
  <2>2. Begins(s, t)
    BY <1>4
  <2> HIDE DEF j
  <2>3. t \in Seq(Message) /\ Len(t) \in Nat
    BY <2>1, LeftType, LenProperties
  <2>4. ms[j + 1] \in Message /\ (u = Append(t, ms[j + 1]) \/ u = t)
    BY <2>1, LeftStep
  <2>5. Len(t) <= Len(u) /\ \A i \in 1 .. Len(t) : u[i] = t[i]
    <3>1. CASE u = t
      <4>1. Len(t) <= Len(t)
        BY <2>3
      <4> QED
        BY <3>1, <4>1, Zenon
    <3>2. CASE u = Append(t, ms[j + 1])
      <4>1. Len(Append(t, ms[j + 1])) = Len(t) + 1
            /\ \A i \in 1 .. Len(t) : Append(t, ms[j + 1])[i] = t[i]
        BY <2>3, <2>4, AppendProperties
      <4> HIDE DEF t, u
      <4>2. Len(t) <= Len(t) + 1
        BY <2>3
      <4> QED
        BY <3>2, <4>1, <4>2, Zenon
    <3> QED
      BY <2>4, <3>1, <3>2
  <2> HIDE DEF s, t
  <2>6. Begins(s, u)
    <3>1. Len(s) \in Nat /\ Len(s) <= Len(t) /\ \A i \in 1 .. Len(s) : t[i] = s[i]
      BY <1>2, <2>2, Zenon DEF Begins, s
    <3>2. Len(u) \in Nat
      BY <2>1, LeftType, LenProperties
    <3> HIDE DEF u
    <3>3. Len(s) <= Len(u) /\ \A i \in 1 .. Len(s) : i \in 1 .. Len(t)
      BY <2>3, <2>5, <3>1, <3>2
    <3> QED
      BY <2>5, <3>1, <3>3, Zenon DEF Begins
  <2> QED
    BY <2>1, <2>6, Zenon DEF s, j
<1>5. \A d \in 0 .. n - k : d \in T
  <2> HIDE DEF T
  <2> QED
    BY <1>1, <1>3, <1>4, BoundedInduction
<1> QED
  BY <1>1, <1>5, Zenon

\* The next message, if it is accepted, is accepted next.
LEMMA KeptNext ==
  ASSUME NEW ms \in Seq(Message), NEW k \in 0 .. Len(ms) - 1, Fits(ms[k + 1])
  PROVE  /\ Len(Kept(ms, k)) + 1 \in 1 .. Len(Kept(ms, Len(ms)))
         /\ Kept(ms, Len(ms))[Len(Kept(ms, k)) + 1] = ms[k + 1]
<1> DEFINE s == Kept(ms, k)
           t == Kept(ms, k + 1)
           u == Kept(ms, Len(ms))
<1>1. k + 1 \in 0 .. Len(ms) /\ k \in 0 .. Len(ms) /\ ms[k + 1] \in Message
      /\ t = Append(s, ms[k + 1])
  BY LeftStep
<1>2. s \in Seq(Message) /\ Len(s) \in Nat /\ Len(u) \in Nat
  BY <1>1, LeftEnds, LeftType, LenProperties
<1>3. Len(Append(s, ms[k + 1])) = Len(s) + 1 /\ Append(s, ms[k + 1])[Len(s) + 1] = ms[k + 1]
  BY <1>1, <1>2, AppendProperties
<1>4. Begins(t, u)
  BY <1>1, KeptGrows
<1> HIDE DEF s, t, u
<1>5. Len(t) = Len(s) + 1 /\ t[Len(s) + 1] = ms[k + 1]
  BY <1>1, <1>3, Zenon
<1>6. Len(t) <= Len(u) /\ \A i \in 1 .. Len(t) : u[i] = t[i]
  BY <1>4, Zenon DEF Begins
<1>7. Len(s) + 1 \in 1 .. Len(u) /\ Len(s) + 1 \in 1 .. Len(t)
  BY <1>2, <1>5, <1>6
<1> QED
  BY <1>5, <1>6, <1>7, Zenon DEF s, t, u

LEMMA KeptFits ==
  ASSUME NEW ms \in Seq(Message), NEW k \in 0 .. Len(ms)
  PROVE  \A i \in 1 .. Len(Kept(ms, k)) : Fits(Kept(ms, k)[i])
<1> DEFINE n == Len(ms)
           AllFit(s) == \A i \in 1 .. Len(s) : Fits(s[i])
           T == {j \in 0 .. n : AllFit(Kept(ms, j))}
<1>1. n \in Nat /\ 0 \in 0 .. n /\ Kept(ms, 0) = <<>>
  BY LeftEnds
<1>2. 0 \in T
  <2>1. AllFit(<<>>)
    OBVIOUS
  <2> HIDE DEF AllFit
  <2> QED
    BY <1>1, <2>1, Zenon
<1>3. ASSUME NEW j \in 0 .. n - 1, j \in T PROVE j + 1 \in T
  <2> DEFINE s == Kept(ms, j)
             m == ms[j + 1]
  <2>1. /\ j \in 0 .. n /\ j + 1 \in 0 .. n /\ m \in Message
        /\ Fits(m) => Kept(ms, j + 1) = Append(s, m)
        /\ ~Fits(m) => Kept(ms, j + 1) = s
    BY LeftStep
  <2>2. s \in Seq(Message) /\ Len(s) \in Nat
    BY <2>1, LeftType, LenProperties
  <2>3. AllFit(s)
    BY <1>3, Zenon
  <2> HIDE DEF s, m
  <2>4. Fits(m) => AllFit(Append(s, m))
    <3> SUFFICES ASSUME Fits(m), NEW i \in 1 .. Len(Append(s, m)) PROVE Fits(Append(s, m)[i])
      BY Zenon
    <3>1. Len(Append(s, m)) = Len(s) + 1 /\ Append(s, m)[Len(s) + 1] = m
          /\ \A l \in 1 .. Len(s) : Append(s, m)[l] = s[l]
      BY <2>1, <2>2, AppendProperties
    <3>2. i \in 1 .. Len(s) \/ i = Len(s) + 1
      BY <2>2, <3>1
    <3> QED
      BY <2>3, <3>1, <3>2, Zenon
  <2> HIDE DEF AllFit
  <2> QED
    BY <2>1, <2>3, <2>4, Zenon
<1>4. \A j \in 0 .. n : j \in T
  <2> HIDE DEF T
  <2> QED
    BY <1>1, <1>2, <1>3, BoundedInduction
<1> QED
  BY <1>4, Zenon

-----------------------------------------------------------------------------
(* The inductive invariant *)

WireShapes ==
  /\ posted \in [hello : Seq(Byte), messages : Seq(Message)]
  /\ flying \in Seq(Byte) /\ buffer \in Seq(Byte) /\ said \in Seq(Byte)
  /\ phase \in {"hello", "mux", "failed"} /\ got \in Seq(MuxFrame)

Hello(post) == WriteLimited(post.hello) \o OnTheWire(Written(post.messages))

\* Before the hello is read, everything is in the stream, or nothing ever was.
Greeting ==
  /\ got = <<>> /\ said = <<>>
  /\ \/ Len(posted.hello) > MaxHandshake /\ flying = <<>> /\ buffer = <<>>
     \/ Len(posted.hello) <= MaxHandshake /\ Cut(Hello(posted), buffer, flying)

\* The reader is behind the first k messages.
Reading(k) ==
  LET ms == posted.messages IN
  /\ k \in 0 .. Len(ms)
  /\ got = Written(Kept(ms, k))
  /\ Cut(Left(ms, k), buffer, flying)
  /\ \A i \in 1 .. Len(Kept(ms, k)) : Kept(ms, k)[i].channel \in Channels
  /\ phase = "failed" => k < Len(ms) /\ Fits(ms[k + 1]) /\ ms[k + 1].channel \notin Channels

WireInv ==
  /\ WireShapes
  /\ phase = "hello" => Greeting
  /\ phase # "hello" => said = posted.hello /\ \E k \in Nat : Reading(k)

\* The reader always stands before a message that was accepted, or at the end.
LEMMA ReadingOn ==
  ASSUME WireShapes, NEW j \in Nat, Reading(j)
  PROVE  \E k \in Nat :
           /\ Reading(k)
           /\ k < Len(posted.messages) => Fits(posted.messages[k + 1])
<1> DEFINE ms == posted.messages
           n == Len(ms)
           T == {k \in 0 .. n : Reading(k)}
<1>1. ms \in Seq(Message) /\ n \in Nat
  BY LenProperties DEF WireShapes
<1>2. T \in SUBSET (0 .. n) /\ T # {} /\ \A k \in T : k \in 0 .. n /\ Reading(k)
  <2>1. j \in 0 .. n
    BY DEF Reading
  <2> QED
    BY <2>1, Zenon
<1>3. PICK k \in T : \A m \in T : m <= k
  <2> HIDE DEF T
  <2> QED
    BY <1>1, <1>2, Greatest
<1>4. k \in 0 .. n /\ k \in Nat /\ Reading(k)
  BY <1>2
<1>5. ASSUME k < n, ~Fits(ms[k + 1]) PROVE FALSE
  <2>1. k \in 0 .. n - 1
    BY <1>1, <1>4, <1>5
  <2>2. /\ k + 1 \in 0 .. n
        /\ Left(ms, k + 1) = Left(ms, k) /\ Kept(ms, k + 1) = Kept(ms, k)
    BY <1>1, <1>5, <2>1, LeftStep
  <2>3. /\ got = Written(Kept(ms, k)) /\ Cut(Left(ms, k), buffer, flying)
        /\ \A i \in 1 .. Len(Kept(ms, k)) : Kept(ms, k)[i].channel \in Channels
        /\ phase # "failed"
    BY <1>4, <1>5, Zenon DEF Reading
  <2>4. Reading(k + 1)
    BY <2>2, <2>3, Zenon DEF Reading
  <2>5. k + 1 <= k
    BY <1>3, <2>2, <2>4, Zenon
  <2> QED
    BY <1>4, <2>5
<1> QED
  BY <1>4, <1>5, Zenon

\* One byte more has arrived of the same stream.
LEMMA Shift ==
  ASSUME NEW b \in Seq(Byte), NEW y \in Seq(Byte), y # <<>>
  PROVE  /\ Append(b, Head(y)) \in Seq(Byte) /\ Tail(y) \in Seq(Byte)
         /\ \A w : Cut(w, b, y) => Cut(w, Append(b, Head(y)), Tail(y))
<1> DEFINE x == <<Head(y)>>
           z == Tail(y)
<1>1. Head(y) \in Byte /\ Tail(y) \in Seq(Byte)
  BY HeadTailProperties
<1>2. x \in Seq(Byte) /\ z \in Seq(Byte) /\ Append(b, Head(y)) \in Seq(Byte)
  BY <1>1
<1>3. y = x \o z
  <2>1. Len(y) \in Nat \ {0}
    BY EmptySeq
  <2>2. 1 \in 1 .. Len(y) /\ Len(y) \in 1 .. Len(y) /\ 1 + 1 = 2
    BY <2>1
  <2>3. SubSeq(y, 1, Len(y)) = <<y[1]>> \o SubSeq(y, 1 + 1, Len(y))
    BY <2>2, SubSeqRecursiveFirst
  <2>4. SubSeq(y, 1, Len(y)) = y /\ Tail(y) = SubSeq(y, 2, Len(y))
    BY SubSeqFull, TailIsSubSeq
  <2>5. Head(y) = y[1]
    BY HeadTailProperties
  <2> QED
    BY <2>2, <2>3, <2>4, <2>5, Zenon
<1>4. Append(b, Head(y)) = b \o x
  BY <1>1, AppendIsConcat
<1> HIDE DEF x, z
<1>5. Regroups(b, x, z)
  BY <1>2, Regroup
<1>6. ASSUME NEW w, Cut(w, b, y) PROVE Cut(w, b \o x, z)
  BY <1>3, <1>5, <1>6, Zenon DEF Cut, Regroups
<1> QED
  BY <1>1, <1>2, <1>4, <1>6, Zenon DEF z

\* At the start nothing has arrived of what was written.
LEMMA WireStarts ==
  ASSUME WireInit
  PROVE  WireInv
<1> DEFINE hello == WriteLimited(posted.hello)
           rest == OnTheWire(Written(posted.messages))
<1>1. posted.hello \in Seq(Byte) /\ posted.messages \in Seq(Message)
      /\ posted \in [hello : Seq(Byte), messages : Seq(Message)]
  BY PostsAssumption DEF WireInit
<1>2. rest \in Seq(Byte)
  BY <1>1, WrittenShape, WireType
<1>3. /\ buffer = <<>> /\ phase = "hello" /\ said = <<>> /\ got = <<>>
      /\ flying = IF hello = <<>> THEN <<>> ELSE hello \o rest
  BY Zenon DEF WireInit
<1>4. Len(posted.hello) \in Nat /\ MaxHandshake \in Nat
  BY <1>1, LenProperties, LimitsAssumption, Numbers
<1> HIDE DEF rest
<1>5. CASE Len(posted.hello) > MaxHandshake
  <2>1. hello = <<>>
    BY <1>5, Zenon DEF WriteLimited
  <2> HIDE DEF hello
  <2>2. flying = <<>>
    BY <1>3, <2>1, Zenon
  <2>3. Greeting
    BY <1>3, <1>5, <2>2, Zenon DEF Greeting
  <2>4. WireShapes
    BY <1>1, <1>3, <2>2 DEF WireShapes
  <2> QED
    BY <1>3, <2>3, <2>4, Zenon DEF WireInv
<1>6. CASE ~(Len(posted.hello) > MaxHandshake)
  <2>1. Len(posted.hello) <= MaxHandshake
    BY <1>4, <1>6
  <2>2. hello \in Seq(Byte) /\ Len(hello) = 4 + Len(posted.hello)
    BY <1>1, <2>1, LimitedShape
  <2> HIDE DEF hello
  <2>3. hello # <<>>
    <3>1. Len(hello) # 0
      BY <1>4, <2>2
    <3> QED
      BY <3>1, EmptySeq
  <2>4. flying = hello \o rest /\ hello \o rest \in Seq(Byte)
    BY <1>2, <1>3, <2>2, <2>3, ConcatProperties
  <2>5. <<>> \o (hello \o rest) = hello \o rest
    BY <2>4, ConcatEmptySeq
  <2>6. Cut(Hello(posted), buffer, flying)
    BY <1>3, <2>4, <2>5, Zenon DEF Hello, hello, rest, Cut
  <2>7. Greeting
    BY <1>3, <2>1, <2>6, Zenon DEF Greeting
  <2>8. WireShapes
    BY <1>1, <1>3, <2>4 DEF WireShapes
  <2> QED
    BY <1>3, <2>7, <2>8, Zenon DEF WireInv
<1> QED
  BY <1>5, <1>6

LEMMA ArrivesKeeps ==
  ASSUME WireInv, Arrives
  PROVE  WireInv'
<1>1. /\ flying # <<>>
      /\ buffer' = Append(buffer, Head(flying)) /\ flying' = Tail(flying)
      /\ posted' = posted /\ phase' = phase /\ said' = said /\ got' = got
  BY Zenon DEF Arrives
<1>2. flying \in Seq(Byte) /\ buffer \in Seq(Byte)
  BY Zenon DEF WireInv, WireShapes
<1>3. /\ buffer' \in Seq(Byte) /\ flying' \in Seq(Byte)
      /\ \A w : Cut(w, buffer, flying) => Cut(w, buffer', flying')
  BY <1>1, <1>2, Shift
<1>4. WireShapes'
  BY <1>1, <1>3 DEF WireInv, WireShapes
<1>5. ASSUME phase = "hello" PROVE Greeting'
  BY <1>1, <1>3, <1>5, Zenon DEF WireInv, Greeting
<1>6. \A k : Reading(k) => Reading(k)'
  BY <1>1, <1>3, Zenon DEF Reading
<1> QED
  BY <1>1, <1>4, <1>5, <1>6, Zenon DEF WireInv

LEMMA ReadsHelloKeeps ==
  ASSUME WireInv, ReadsHello
  PROVE  WireInv'
<1> DEFINE hello == posted.hello
           ms == posted.messages
           rest == OnTheWire(Written(ms))
           r == ReadLimited(buffer)
<1>1. /\ phase = "hello" /\ r.result # "wait"
      /\ phase' = IF r.result = "ok" THEN "mux" ELSE "failed"
      /\ said' = r.body /\ buffer' = r.rest
      /\ posted' = posted /\ flying' = flying /\ got' = got
  BY Zenon DEF ReadsHello
<1>2. /\ hello \in Seq(Byte) /\ ms \in Seq(Message)
      /\ flying \in Seq(Byte) /\ buffer \in Seq(Byte)
  BY DEF WireInv, WireShapes
<1>3. rest \in Seq(Byte)
  BY <1>2, WrittenShape, WireType
<1>4. Greeting
  BY <1>1, Zenon DEF WireInv
<1> HIDE DEF r
<1>5. Len(hello) <= MaxHandshake /\ Cut(Hello(posted), buffer, flying)
  <2> SUFFICES ASSUME buffer = <<>> PROVE FALSE
    BY <1>4, Zenon DEF Greeting
  <2>1. Len(buffer) < 4
    OBVIOUS
  <2>2. r = Took("wait", <<>>, buffer)
    BY <2>1, Zenon DEF ReadLimited, r
  <2> QED
    BY <1>1, <2>2 DEF Took
<1>6. Cut(Hello(posted), WriteLimited(hello), rest)
  BY Zenon DEF Hello, Cut
<1> DEFINE left == From(buffer, 4 + Len(hello))
<1> HIDE DEF hello, ms, rest
<1>7. /\ Len(buffer) < 4 + Len(hello) => r = Took("wait", <<>>, buffer)
      /\ ~(Len(buffer) < 4 + Len(hello)) =>
           /\ r = Took("ok", hello, left)
           /\ left \in Seq(Byte) /\ Cut(rest, left, flying)
  BY <1>2, <1>3, <1>5, <1>6, LimitedReads DEF r
<1> HIDE DEF left
<1>8. r = Took("ok", hello, left) /\ left \in Seq(Byte) /\ Cut(rest, left, flying)
  <2>1. r # Took("wait", <<>>, buffer)
    BY <1>1 DEF Took
  <2> QED
    BY <1>7, <2>1, Zenon
<1>9. phase' = "mux" /\ said' = hello /\ buffer' = left
  BY <1>1, <1>8 DEF Took
<1>10. WireShapes'
  <2>1. got' \in Seq(MuxFrame) /\ posted' \in [hello : Seq(Byte), messages : Seq(Message)]
    BY <1>1, Zenon DEF WireInv, WireShapes
  <2> QED
    BY <1>1, <1>2, <1>8, <1>9, <2>1 DEF WireShapes
<1>11. Reading(0)'
  <2>1. 0 \in 0 .. Len(ms) /\ Kept(ms, 0) = <<>> /\ Left(ms, 0) = rest
    BY <1>2, LeftEnds DEF rest
  <2>2. got = <<>>
    BY <1>4, Zenon DEF Greeting
  <2>3. Written(<<>>) = <<>>
    BY DEF Written
  <2>4. \A i \in 1 .. Len(<<>>) : FALSE
    OBVIOUS
  <2> QED
    BY <1>1, <1>8, <1>9, <2>1, <2>2, <2>3, <2>4 DEF Reading, ms
<1> QED
  BY <1>1, <1>9, <1>10, <1>11, Zenon DEF WireInv, hello

LEMMA DecodesKeeps ==
  ASSUME WireInv, Decodes
  PROVE  WireInv'
<1> DEFINE d == MuxDecode(buffer)
           ms == posted.messages
           n == Len(ms)
<1>1. /\ phase = "mux" /\ buffer # <<>> /\ buffer' = d.rest
      /\ phase' = IF d.result = "error" THEN "failed" ELSE phase
      /\ got' = IF d.result = "frame" THEN Append(got, d.frame) ELSE got
      /\ posted' = posted /\ flying' = flying /\ said' = said
  BY Zenon DEF Decodes
<1>2. ms \in Seq(Message) /\ flying \in Seq(Byte) /\ buffer \in Seq(Byte)
      /\ got \in Seq(MuxFrame) /\ n \in Nat
  BY LenProperties DEF WireInv, WireShapes
<1>3. /\ said = posted.hello /\ WireShapes /\ \E k \in Nat : Reading(k)
  BY <1>1, Zenon DEF WireInv
<1>4. PICK k \in Nat : Reading(k) /\ (k < n => Fits(ms[k + 1]))
  BY <1>3, ReadingOn
<1>5. /\ k \in 0 .. n /\ got = Written(Kept(ms, k)) /\ Cut(Left(ms, k), buffer, flying)
      /\ \A i \in 1 .. Len(Kept(ms, k)) : Kept(ms, k)[i].channel \in Channels
  BY <1>4, Zenon DEF Reading
<1> DEFINE m == ms[k + 1]
           f == Frame(m)
<1> HIDE DEF d, ms, n
<1>6. k < n
  <2> SUFFICES ASSUME k = n PROVE FALSE
    BY <1>2, <1>5
  <2>1. Left(ms, k) = <<>>
    BY <1>2, LeftEnds DEF n
  <2>2. <<>> = buffer \o flying
    BY <1>5, <2>1, Zenon DEF Cut
  <2>3. \A s, t \in Seq(Byte) : s \o t = <<>> => s = <<>>
    BY ConcatEqualIffEmpty
  <2> QED
    BY <1>1, <1>2, <2>2, <2>3, Zenon
<1>7. Fits(m) /\ k \in 0 .. n - 1 /\ k + 1 \in Nat
  BY <1>2, <1>4, <1>6
<1>8. /\ k + 1 \in 0 .. n /\ m \in Message /\ k \in 0 .. n
      /\ Cut(Left(ms, k), MuxEncode(f), Left(ms, k + 1))
      /\ Kept(ms, k + 1) = Append(Kept(ms, k), m)
  BY <1>2, <1>7, LeftStep DEF n
<1>9. Kept(ms, k) \in Seq(Message) /\ Left(ms, k + 1) \in Seq(Byte)
  BY <1>2, <1>8, LeftType DEF n
<1>10. f \in MuxFrame /\ f.channel = m.channel /\ Len(f.payload) <= MaxPayload
  BY <1>7, <1>8, FrameType DEF Fits
<1> DEFINE rest == From(buffer, 5 + Len(f.payload))
<1> HIDE DEF m, f
<1>11. /\ Len(buffer) < 5 + Len(f.payload) => d = Waiting(buffer)
       /\ ~(Len(buffer) < 5 + Len(f.payload)) =>
            /\ f.channel \notin Channels => d = Failing(buffer)
            /\ f.channel \in Channels => d = [result |-> "frame", rest |-> rest, frame |-> f]
            /\ rest \in Seq(Byte) /\ Cut(Left(ms, k + 1), rest, flying)
  BY <1>2, <1>5, <1>8, <1>9, <1>10, FrameReads DEF d
<1> HIDE DEF rest
<1>12. CASE d = Waiting(buffer)
  <2>1. buffer' = buffer /\ phase' = phase /\ got' = got
    BY <1>1, <1>12 DEF Waiting
  <2>2. Reading(k)'
    BY <1>1, <1>4, <2>1, Zenon DEF Reading
  <2>3. WireShapes'
    BY <1>1, <1>3, <2>1, Zenon DEF WireShapes
  <2> QED
    BY <1>1, <1>3, <2>1, <2>2, <2>3 DEF WireInv
<1>13. CASE d = Failing(buffer) /\ f.channel \notin Channels
  <2>1. buffer' = buffer /\ phase' = "failed" /\ got' = got
    BY <1>1, <1>13 DEF Failing
  <2>2. Reading(k)'
    BY <1>1, <1>5, <1>6, <1>7, <1>10, <1>13, <2>1, Zenon DEF Reading, ms, n, m
  <2>3. WireShapes'
    BY <1>1, <1>3, <2>1 DEF WireShapes
  <2> QED
    BY <1>1, <1>3, <2>1, <2>2, <2>3 DEF WireInv
<1>14. CASE /\ d = [result |-> "frame", rest |-> rest, frame |-> f] /\ f.channel \in Channels
            /\ rest \in Seq(Byte) /\ Cut(Left(ms, k + 1), rest, flying)
  <2>1. buffer' = rest /\ phase' = "mux" /\ got' = Append(got, f)
    BY <1>1, <1>14
  <2>2. got' = Written(Kept(ms, k + 1))
    BY <1>5, <1>8, <1>9, <2>1, WrittenAppend DEF f
  <2>3. \A i \in 1 .. Len(Kept(ms, k + 1)) : Kept(ms, k + 1)[i].channel \in Channels
    <3>1. /\ Len(Kept(ms, k)) \in Nat
          /\ Len(Append(Kept(ms, k), m)) = Len(Kept(ms, k)) + 1
          /\ Append(Kept(ms, k), m)[Len(Kept(ms, k)) + 1] = m
          /\ \A i \in 1 .. Len(Kept(ms, k)) : Append(Kept(ms, k), m)[i] = Kept(ms, k)[i]
      BY <1>8, <1>9, AppendProperties, LenProperties
    <3>2. m.channel \in Channels
      BY <1>10, <1>14, Zenon
    <3>3. ASSUME NEW i \in 1 .. Len(Kept(ms, k)) + 1
          PROVE  i \in 1 .. Len(Kept(ms, k)) \/ i = Len(Kept(ms, k)) + 1
      BY <3>1
    <3> QED
      BY <1>5, <1>8, <3>1, <3>2, <3>3, Zenon
  <2>4. Reading(k + 1)'
    BY <1>1, <1>8, <1>14, <2>1, <2>2, <2>3 DEF Reading, ms, n
  <2>5. WireShapes'
    <3>1. got' \in Seq(MuxFrame)
      BY <1>2, <1>10, <2>1, AppendProperties
    <3> QED
      BY <1>1, <1>3, <1>14, <2>1, <3>1 DEF WireShapes
  <2> QED
    BY <1>1, <1>3, <1>7, <2>1, <2>4, <2>5 DEF WireInv
<1> QED
  BY <1>11, <1>12, <1>13, <1>14, Zenon

\* The reader of a connection is always somewhere in the stream of what was
\* written: behind whole messages, with the rest in its buffer and in flight
\* (codec.rs:46-66, session.rs:89-99).
THEOREM WireIsRead == WireSpec => []WireInv
<1>1. WireInit => WireInv
  BY WireStarts
<1>2. WireInv /\ [WireNext]_wireVars => WireInv'
  <2>1. CASE WireNext
    BY <2>1, ArrivesKeeps, ReadsHelloKeeps, DecodesKeeps, Zenon DEF WireNext
  <2>2. CASE UNCHANGED wireVars
    BY <2>2, Zenon DEF wireVars, WireInv, WireShapes, Greeting, Reading
  <2> QED
    BY <2>1, <2>2
<1> QED
  BY <1>1, <1>2, PTL DEF WireSpec

-----------------------------------------------------------------------------
(* What the reader has *)

\* A sequence of accepted messages on known channels begins the readable ones; it
\* is all of them when nothing else was accepted, or when the next message is on a
\* channel nobody knows.
LEMMA ReadableShape ==
  ASSUME WireShapes, NEW k \in 0 .. Len(posted.messages),
         \A i \in 1 .. Len(Kept(posted.messages, k)) :
            Kept(posted.messages, k)[i].channel \in Channels
  PROVE  LET ms == posted.messages IN
         /\ Readable \in Seq(Message) /\ Begins(Kept(ms, k), Readable)
         /\ k = Len(ms) => Readable = Kept(ms, k)
         /\ k < Len(ms) /\ Fits(ms[k + 1]) /\ ms[k + 1].channel \notin Channels
              => Readable = Kept(ms, k) /\ Strange # {}
<1> DEFINE ms == posted.messages
           n == Len(ms)
           s == Kept(ms, k)
           a == Accepted
           least == CHOOSE i \in Strange : \A j \in Strange : i <= j
<1>1. ms \in Seq(Message) /\ n \in Nat /\ k \in Nat /\ n \in 0 .. n
  BY LenProperties DEF WireShapes
<1>2. a = Kept(ms, n)
  <2>1. Kept(ms, n) = FlattenSeq(Takes(ms))
    BY <1>1, LeftEnds
  <2> QED
    BY <2>1, Zenon DEF Accepted, Takes
<1>3. s \in Seq(Message) /\ a \in Seq(Message) /\ Len(s) \in Nat /\ Len(a) \in Nat
  BY <1>1, <1>2, LeftType, LenProperties
<1>4. Len(s) <= Len(a) /\ \A i \in 1 .. Len(s) : a[i] = s[i]
  BY <1>1, <1>2, KeptGrows, Zenon DEF Begins
<1>5. DOMAIN a = 1 .. Len(a) /\ Strange = {i \in 1 .. Len(a) : a[i].channel \notin Channels}
  <2>1. DOMAIN a = 1 .. Len(a)
    BY <1>3, LenProperties
  <2> QED
    BY <2>1, Zenon DEF Strange
<1>6. Readable = IF Strange = {} THEN a ELSE SubSeq(a, 1, least - 1)
  BY Zenon DEF Readable
<1>7. k < n /\ Fits(ms[k + 1])
        => Len(s) + 1 \in 1 .. Len(a) /\ a[Len(s) + 1] = ms[k + 1]
  <2> SUFFICES ASSUME k < n, Fits(ms[k + 1])
               PROVE  Len(s) + 1 \in 1 .. Len(a) /\ a[Len(s) + 1] = ms[k + 1]
    BY Zenon
  <2>1. k \in 0 .. n - 1
    BY <1>1
  <2> QED
    BY <1>1, <1>2, <2>1, KeptNext
<1> HIDE DEF s, a, n, ms
<1>8. \A i \in 1 .. Len(s) : s[i].channel \in Channels
  BY Zenon DEF s, ms
<1>9. \A i \in Strange : Len(s) < i /\ i <= Len(a) /\ i \in Nat
  <2> SUFFICES ASSUME NEW i \in Strange, ~(Len(s) < i) PROVE FALSE
    BY <1>3, <1>5
  <2>1. i \in 1 .. Len(s)
    BY <1>3, <1>5
  <2> QED
    BY <1>4, <1>5, <1>8, <2>1, Zenon
<1>10. CASE Strange = {}
  <2>1. Readable = a
    BY <1>6, <1>10, Zenon
  <2>2. Begins(s, a)
    BY <1>4, Zenon DEF Begins
  <2>3. ASSUME k = n PROVE a = s
    BY <1>2, <2>3, Zenon DEF s
  <2>4. ~(k < n /\ Fits(ms[k + 1]) /\ ms[k + 1].channel \notin Channels)
    BY <1>5, <1>7, <1>10, Zenon
  <2> QED
    BY <1>3, <2>1, <2>2, <2>3, <2>4, Zenon DEF s, n, ms
<1>11. CASE Strange # {}
  <2>1. least \in Strange /\ \A j \in Strange : least <= j
    <3>1. Strange \in SUBSET Nat
      BY <1>9, Zenon
    <3>2. \E i \in Strange : \A j \in Strange : i <= j
      BY <1>11, <3>1, Least
    <3> QED
      BY <3>2, Zenon
  <2> HIDE DEF least
  <2>2. least \in Nat /\ Len(s) < least /\ least <= Len(a)
    BY <1>9, <2>1
  <2> DEFINE t == SubSeq(a, 1, least - 1)
  <2>3. t \in Seq(Message) /\ Len(t) = least - 1 /\ \A i \in 1 .. least - 1 : t[i] = a[i]
    <3>1. 0 \in 0 .. least - 1 /\ least - 1 \in 0 .. Len(a) /\ (least - 1) - 0 = least - 1 /\ 0 + 1 = 1
          /\ \A i \in 1 .. least - 1 : 0 + i = i
      BY <1>3, <2>2
    <3>2. /\ SubSeq(a, 0 + 1, least - 1) \in Seq(Message)
          /\ Len(SubSeq(a, 0 + 1, least - 1)) = (least - 1) - 0
          /\ \A i \in 1 .. (least - 1) - 0 : SubSeq(a, 0 + 1, least - 1)[i] = a[0 + i]
      BY <1>3, <3>1, Middle
    <3> QED
      BY <3>1, <3>2, Zenon
  <2>4. Readable = t
    BY <1>6, <1>11, Zenon
  <2> HIDE DEF t
  <2>5. Len(s) <= Len(t) /\ \A i \in 1 .. Len(s) : i \in 1 .. least - 1
    BY <1>3, <2>2, <2>3
  <2>6. Begins(s, t)
    BY <1>4, <2>3, <2>5, Zenon DEF Begins
  <2>7. k # n
    <3> SUFFICES ASSUME a = s PROVE FALSE
      BY <1>2, Zenon DEF s
    <3> QED
      BY <1>3, <2>2
  <2>8. ASSUME k < n, Fits(ms[k + 1]), ms[k + 1].channel \notin Channels PROVE t = s
    <3>1. Len(s) + 1 \in Strange
      BY <1>5, <1>7, <2>8, Zenon
    <3>2. Len(s) = least - 1
      BY <1>3, <2>1, <2>2, <3>1
    <3>3. Len(t) = Len(s) /\ \A i \in 1 .. Len(t) : t[i] = s[i]
      BY <1>4, <2>3, <3>2, Zenon
    <3> QED
      BY <1>3, <2>3, <3>3, SeqEqual
  <2> QED
    BY <1>11, <2>3, <2>4, <2>6, <2>7, <2>8, Zenon DEF s, n, ms
<1> QED
  BY <1>10, <1>11

LEMMA WrittenBegins ==
  ASSUME NEW s \in Seq(Message), NEW t \in Seq(Message), Begins(s, t)
  PROVE  IsPrefix(Written(s), Written(t))
<1> DEFINE v == Written(s)
           w == Written(t)
           start == SubSeq(w, 1, Len(s))
<1>1. /\ v \in Seq(MuxFrame) /\ w \in Seq(MuxFrame) /\ Len(v) = Len(s) /\ Len(w) = Len(t)
      /\ \A i \in 1 .. Len(s) : v[i] = Frame(s[i])
      /\ \A i \in 1 .. Len(t) : w[i] = Frame(t[i])
      /\ Len(s) \in Nat /\ Len(t) \in Nat
  BY WrittenShape, LenProperties
<1>2. Len(s) <= Len(t) /\ \A i \in 1 .. Len(s) : t[i] = s[i]
  BY Zenon DEF Begins
<1> HIDE DEF v, w
<1>3. start \in Seq(MuxFrame) /\ Len(start) = Len(s) /\ \A i \in 1 .. Len(s) : start[i] = w[i]
  <2>1. 0 \in 0 .. Len(s) /\ Len(s) \in 0 .. Len(w) /\ Len(s) - 0 = Len(s) /\ 0 + 1 = 1
        /\ \A i \in 1 .. Len(s) : 0 + i = i
    BY <1>1, <1>2
  <2>2. /\ SubSeq(w, 0 + 1, Len(s)) \in Seq(MuxFrame)
        /\ Len(SubSeq(w, 0 + 1, Len(s))) = Len(s) - 0
        /\ \A i \in 1 .. Len(s) - 0 : SubSeq(w, 0 + 1, Len(s))[i] = w[0 + i]
    BY <1>1, <2>1, Middle
  <2> QED
    BY <2>1, <2>2, Zenon
<1> HIDE DEF start
<1>4. start = v
  <2>1. \A i \in 1 .. Len(s) : i \in 1 .. Len(t)
    BY <1>1, <1>2
  <2>2. Len(start) = Len(v) /\ \A i \in 1 .. Len(start) : start[i] = v[i]
    BY <1>1, <1>2, <1>3, <2>1, Zenon
  <2> QED
    BY <1>1, <1>3, <2>2, SeqEqual
<1>5. SubSeq(v, 1, Len(v)) = v
  BY <1>1, SubSeqFull
<1>6. Len(v) <= Len(w) /\ SubSeq(v, 1, Len(v)) = SubSeq(w, 1, Len(v))
  BY <1>1, <1>2, <1>4, <1>5, Zenon DEF start
<1> QED
  BY <1>6, Zenon DEF IsPrefix, v, w

LEMMA SplitAnywhere ==
  ASSUME WireInv
  PROVE  MuxSplitAnywhere
<1> DEFINE ms == posted.messages
           n == Len(ms)
           frames == Written(Readable)
<1>1. WireShapes /\ ms \in Seq(Message) /\ n \in Nat
      /\ buffer \in Seq(Byte) /\ flying \in Seq(Byte) /\ phase \in {"hello", "mux", "failed"}
  BY LenProperties DEF WireInv, WireShapes
<1>2. CASE phase = "hello"
  <2>1. got = <<>>
    BY <1>2, Zenon DEF WireInv, Greeting
  <2>2. 0 \in 0 .. n /\ Kept(ms, 0) = <<>>
    BY <1>1, LeftEnds
  <2>3. \A i \in 1 .. Len(<<>>) : FALSE
    OBVIOUS
  <2>4. Readable \in Seq(Message) /\ Begins(<<>>, Readable)
    <3>1. \A i \in 1 .. Len(Kept(ms, 0)) : Kept(ms, 0)[i].channel \in Channels
      BY <2>2, <2>3, Zenon
    <3> QED
      BY <1>1, <2>2, <3>1, ReadableShape
  <2>5. <<>> \in Seq(Message) /\ Written(<<>>) = <<>>
    BY DEF Written
  <2>6. IsPrefix(got, frames)
    <3>1. IsPrefix(Written(<<>>), frames)
      BY <2>4, <2>5, WrittenBegins
    <3> QED
      BY <2>1, <2>5, <3>1, Zenon
  <2> QED
    BY <1>2, <2>6 DEF MuxSplitAnywhere
<1>3. CASE phase # "hello"
  <2>1. \E j \in Nat : Reading(j)
    BY <1>3, Zenon DEF WireInv
  <2>2. PICK k \in Nat : Reading(k) /\ (k < n => Fits(ms[k + 1]))
    BY <1>1, <2>1, ReadingOn
  <2>3. /\ k \in 0 .. n /\ got = Written(Kept(ms, k)) /\ Cut(Left(ms, k), buffer, flying)
        /\ \A i \in 1 .. Len(Kept(ms, k)) : Kept(ms, k)[i].channel \in Channels
        /\ phase = "failed" => k < n /\ Fits(ms[k + 1]) /\ ms[k + 1].channel \notin Channels
    BY <2>2, Zenon DEF Reading
  <2>4. /\ Readable \in Seq(Message) /\ Begins(Kept(ms, k), Readable)
        /\ k = n => Readable = Kept(ms, k)
        /\ k < n /\ Fits(ms[k + 1]) /\ ms[k + 1].channel \notin Channels
             => Readable = Kept(ms, k) /\ Strange # {}
    BY <1>1, <2>3, ReadableShape
  <2>5. Kept(ms, k) \in Seq(Message)
    BY <1>1, <2>3, LeftType
  <2>6. IsPrefix(got, frames)
    BY <2>3, <2>4, <2>5, WrittenBegins
  <2> HIDE DEF n, ms, frames
  <2>7. phase = "failed" => got = frames /\ Strange # {}
    BY <2>3, <2>4, Zenon DEF frames
  <2>8. ASSUME flying = <<>>, MuxDecode(buffer).result = "wait" PROVE k = n
    <3> SUFFICES ASSUME k \in 0 .. n - 1, k < n PROVE FALSE
      BY <1>1, <2>3
    <3> DEFINE m == ms[k + 1]
               f == Frame(m)
               after == Left(ms, k + 1)
    <3>1. Fits(m) /\ m \in Message /\ k + 1 \in 0 .. n /\ Cut(Left(ms, k), MuxEncode(f), after)
      BY <1>1, <2>2, LeftStep DEF n
    <3>2. after \in Seq(Byte)
      BY <1>1, <3>1, LeftType DEF n
    <3>3. f \in MuxFrame /\ Len(f.payload) <= MaxPayload /\ Len(f.payload) \in Nat
      BY <3>1, FrameType DEF Fits
    <3> HIDE DEF m, f, after
    <3>4. MuxEncode(f) \in Seq(Byte) /\ Len(MuxEncode(f)) = 5 + Len(f.payload)
      BY <3>3, FrameOnTheWire
    <3>5. buffer \o <<>> = buffer
      BY <1>1, ConcatEmptySeq
    <3>6. Cut(buffer, MuxEncode(f), after) /\ Cut(Left(ms, k), buffer, flying)
      BY <2>3, <2>8, <3>1, <3>5, Zenon DEF Cut
    <3>7. Len(buffer) = Len(MuxEncode(f)) + Len(after)
      BY <3>2, <3>4, <3>6, CutElements
    <3>8. ~(Len(buffer) < 5 + Len(f.payload))
      BY <3>2, <3>3, <3>4, <3>7, LenProperties
    <3>9. \/ MuxDecode(buffer) = Failing(buffer)
          \/ MuxDecode(buffer) = [result |-> "frame", rest |-> From(buffer, 5 + Len(f.payload)),
                                  frame |-> f]
      <4>1. Cut(Left(ms, k), MuxEncode(f), after)
        BY <3>1 DEF after, f, m
      <4> QED
        BY <1>1, <3>2, <3>3, <3>6, <3>8, <4>1, FrameReads
    <3>10. MuxDecode(buffer).result \in {"error", "frame"}
      BY <3>9 DEF Failing
    <3> QED
      BY <2>8, <3>10
  <2>9. phase = "mux" /\ flying = <<>> /\ MuxDecode(buffer).result = "wait" => got = frames
    BY <2>3, <2>4, <2>8, Zenon DEF frames
  <2> QED
    BY <2>6, <2>7, <2>9, Zenon DEF MuxSplitAnywhere, frames
<1> QED
  BY <1>2, <1>3

LEMMA LeavesTheRest ==
  ASSUME WireInv
  PROVE  HelloLeavesTheRest
<1> SUFFICES ASSUME phase # "hello" PROVE HelloLeavesTheRest
  BY Zenon DEF HelloLeavesTheRest
<1> DEFINE ms == posted.messages
           whole == OnTheWire(Written(ms))
<1>1. said = posted.hello /\ \E k \in Nat : Reading(k)
  BY Zenon DEF WireInv
<1>2. ms \in Seq(Message) /\ buffer \in Seq(Byte) /\ flying \in Seq(Byte) /\ got \in Seq(MuxFrame)
  BY DEF WireInv, WireShapes
<1>3. PICK k \in Nat : Reading(k)
  BY <1>1
<1>4. k \in 0 .. Len(ms) /\ got = Written(Kept(ms, k)) /\ Cut(Left(ms, k), buffer, flying)
  BY <1>3, Zenon DEF Reading
<1>5. Cut(whole, OnTheWire(got), Left(ms, k))
  BY <1>2, <1>4, WholeWire
<1>6. OnTheWire(got) \in Seq(Byte)
  BY <1>2, WireType
<1>7. Regroups(OnTheWire(got), buffer, flying)
  <2> DEFINE done == OnTheWire(got)
  <2> HIDE DEF done
  <2>1. done \in Seq(Byte) => Regroups(done, buffer, flying)
    BY <1>2, Regroup
  <2> QED
    BY <1>6, <2>1 DEF done
<1>8. (OnTheWire(got) \o buffer) \o flying = whole
  BY <1>4, <1>5, <1>7, Zenon DEF Cut, Regroups
<1> QED
  BY <1>1, <1>8, Zenon DEF HelloLeavesTheRest

LEMMA RoundTrip ==
  ASSUME WireInv
  PROVE  PdusRoundTrip
<1> SUFFICES ASSUME NEW i \in DOMAIN got, got[i].channel = Gfx
             PROVE  /\ Pdus(got[i].payload) = Readable[i].pdus
                    /\ \A k \in DOMAIN Readable[i].pdus :
                         Len(Encode(Readable[i].pdus[k])) = EncodedLen(Readable[i].pdus[k])
  BY Zenon DEF PdusRoundTrip
<1> DEFINE ms == posted.messages
<1>1. WireShapes /\ ms \in Seq(Message)
  BY DEF WireInv, WireShapes
<1>2. phase # "hello"
  <2> SUFFICES ASSUME got = <<>> PROVE FALSE
    BY Zenon DEF WireInv, Greeting
  <2> QED
    OBVIOUS
<1>3. \E k \in Nat : Reading(k)
  BY <1>2, Zenon DEF WireInv
<1>4. PICK k \in Nat : Reading(k)
  BY <1>3
<1> DEFINE s == Kept(ms, k)
<1>5. /\ k \in 0 .. Len(ms) /\ got = Written(s)
      /\ \A j \in 1 .. Len(s) : s[j].channel \in Channels
  BY <1>4, Zenon DEF Reading
<1>6. Begins(s, Readable)
  BY <1>1, <1>5, ReadableShape
<1>7. s \in Seq(Message) /\ \A j \in 1 .. Len(s) : Fits(s[j])
  BY <1>1, <1>5, LeftType, KeptFits
<1> HIDE DEF s
<1>8. i \in 1 .. Len(s) /\ got[i] = Frame(s[i]) /\ s[i] \in Message
  BY <1>5, <1>7, WrittenShape, ElementOfSeq
<1>9. Readable[i] = s[i] /\ Fits(s[i])
  BY <1>6, <1>7, <1>8, Zenon DEF Begins
<1>10. s[i].channel = Gfx
  BY <1>8, FrameType
<1>11. s[i].pdus \in Seq(Pdu) /\ got[i].payload = Encodes(s[i].pdus)
  <2>1. s[i] \in [channel : {Gfx}, pdus : Seq(Pdu)]
    BY <1>8, <1>10 DEF Message
  <2> QED
    BY <1>8, <1>10, <2>1 DEF Frame
<1>12. Len(Encodes(s[i].pdus)) \in Number
  <2>1. Len(Encodes(s[i].pdus)) \in Nat
    BY <1>11, EncodesType, LenProperties
  <2>2. Len(Encodes(s[i].pdus)) <= MaxPayload
    BY <1>8, <1>9, <1>11, Zenon DEF Fits
  <2> QED
    BY <2>1, <2>2, LimitsAssumption, Smaller, Zenon
<1>13. Pdus(got[i].payload) = s[i].pdus
  BY <1>11, <1>12, PdusOfEncodes
<1>14. ASSUME NEW j \in DOMAIN s[i].pdus
       PROVE  Len(Encode(s[i].pdus[j])) = EncodedLen(s[i].pdus[j])
  <2>1. s[i].pdus[j] \in Pdu
    BY <1>11
  <2> QED
    BY <2>1, EncodeShape
<1> QED
  BY <1>9, <1>13, <1>14, Zenon

\* Wherever the stream is cut, the decoder yields the frames that were encoded,
\* whole and in order, and stops at a frame of an unknown channel and at nothing
\* else (codec.rs:46-66).
THEOREM FramesWhole == WireSpec => []MuxSplitAnywhere
BY WireIsRead, SplitAnywhere, PTL

\* Taking the hello off the stream loses no byte of what follows it and reads
\* none twice (session.rs:89-99, codec.rs:85-99).
THEOREM NothingBehindTheHelloIsLost == WireSpec => []HelloLeavesTheRest
BY WireIsRead, LeavesTheRest, PTL

\* The PDUs of a payload decode to the PDUs it was encoded from, and encoded_len
\* is the length that is written (gfx.rs:92-157).
THEOREM PdusComeBack == WireSpec => []PdusRoundTrip
BY WireIsRead, RoundTrip, PTL
=============================================================================
