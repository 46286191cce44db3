------------------------------ MODULE LogProofs ------------------------------
(***************************************************************************)
(* The pairing of pictures with metadata by order of arrival, proved: what *)
(* Ingest stores for one client is a CaptureLog, for any number of         *)
(* connections, captures, cuts, storage errors and crashes, as long as the *)
(* agent sends no more pictures ahead of their metadata than may wait and  *)
(* never begins again with its first token.                                *)
(***************************************************************************)
EXTENDS IngestProofs

-----------------------------------------------------------------------------
(* What may be on the wire *)

MetaAt(w, n, c) == n \in 1 .. Len(w) /\ w[n].kind = "meta" /\ w[n].cap = c

\* The end of a picture: the frame that follows it may begin.
DoneAt(w, n, c) == n \in 1 .. Len(w) /\ w[n].kind \in {"end", "garbled"} /\ w[n].cap = c

\* The PDUs of a picture follow each other.
Follows(a, b) ==
  /\ b.kind = "region" <=> a.kind = "start"
  /\ b.kind = "end" <=> a.kind = "region"
  /\ b.kind \in {"region", "end"} => b.cap = a.cap

\* The item before the n-th: `last` is what was read before the first.
Prev(w, last, n) == IF n = 1 THEN last ELSE w[n - 1]

Unbroken(w, last) == \A n \in 1 .. Len(w) : Follows(Prev(w, last, n), w[n])

\* The records on the wire are those of captures m, m + 1 and so on.
MetasFrom(w, m) ==
  \A n \in 1 .. Len(w) : w[n].kind = "meta" =>
    /\ w[n].cap >= m
    /\ w[n].cap = m \/ \E k \in 1 .. n - 1 : MetaAt(w, k, w[n].cap - 1)
    /\ \A k \in 1 .. n - 1 : w[k].kind = "meta" => w[k].cap < w[n].cap

\* The pictures on the wire are those of captures f, f + 1 and so on.
PicturesFrom(w, f) ==
  \A n \in 1 .. Len(w) : w[n].kind \in {"end", "garbled"} =>
    /\ w[n].cap >= f
    /\ w[n].cap = f \/ \E k \in 1 .. n - 1 : DoneAt(w, k, w[n].cap - 1)
    /\ \A k \in 1 .. n - 1 : w[k].kind \in {"end", "garbled"} => w[k].cap < w[n].cap

\* A record comes after its picture.
MetaAfterPicture(w, f) ==
  \A n \in 1 .. Len(w) : w[n].kind = "meta" =>
    w[n].cap < f \/ \E k \in 1 .. n - 1 : DoneAt(w, k, w[n].cap)

\* A picture comes at most Ahead pictures before the next record.
NotFarAhead(w, m) ==
  \A n \in 1 .. Len(w) : w[n].kind \in {"end", "garbled"} =>
    w[n].cap < m + Ahead \/ \E k \in 1 .. n - 1 : MetaAt(w, k, w[n].cap - Ahead)

\* The stream w continues after `last`, with record m and picture f due next.
Stream(w, last, m, f) ==
  /\ Unbroken(w, last)
  /\ MetasFrom(w, m) /\ PicturesFrom(w, f)
  /\ MetaAfterPicture(w, f) /\ NotFarAhead(w, m)

-----------------------------------------------------------------------------
(* The inductive invariant *)

\* The PDU of the frame begun that was read last.
LastPdu(fr) ==
  IF fr.id = 0 THEN Item("end", 0)
  ELSE IF fr.regions = <<>> THEN Item("start", fr.id) ELSE Item("region", fr.id)

FrameShape(fr) ==
  \/ fr = NoFrame
  \/ fr.id \in Captures /\ fr.regions \in {<<>>, <<fr.id>>}

\* The pictures of captures m to f - 1 wait for their records.
Waiting(q, m, f) == Len(q) = f - m /\ \A k \in 1 .. Len(q) : q[k] = <<m + k - 1>>

\* The records up to a and the pictures up to b are all in w or were read before.
Covers(w, m, f, a, b) ==
  /\ m <= a + 1 /\ f <= b + 1
  /\ \A c \in m .. a : \E n \in 1 .. Len(w) : MetaAt(w, n, c)
  /\ \A c \in f .. b : \E n \in 1 .. Len(w) : DoneAt(w, n, c)
  /\ \A n \in 1 .. Len(w) : w[n].kind = "meta" => w[n].cap <= a
  /\ \A n \in 1 .. Len(w) : w[n].kind \in {"end", "garbled"} => w[n].cap <= b

\* The agent's end of its connection: all it has sent is there or was read,
\* and no picture was sent in part.
AllSent(w, last, m, f) ==
  /\ Covers(w, m, f, named, framed)
  /\ Prev(w, last, Len(w) + 1).kind \notin {"start", "region"}

\* Connection i is about to deliver record m and picture f.
Carries(i, m, f) ==
  /\ Stream(wire[i], LastPdu(frame[i]), m, f)
  /\ Waiting(pending[i], m, f)
  /\ st[i] \in {"put", "row"} => hand[i].cap < m
  /\ conn = i => AllSent(wire[i], LastPdu(frame[i]), m, f)

Alive == States \ {"none", "closed"}

Streams ==
  \A i \in Conns : st[i] \in Alive => \E m, f \in Nat : Carries(i, m, f)

Frames ==
  \A i \in Conns :
    /\ FrameShape(frame[i])
    /\ st[i] \notin Serving => frame[i] = NoFrame /\ pending[i] = <<>>

Stored(c) == \E n \in 1 .. Len(rows) : rows[n] = c

InHandOf(i, c) == st[i] \in {"put", "row"} /\ hand[i].cap = c

\* The record of c is still to be stored by connection i.
Due(i, c) == InHandOf(i, c) \/ \E n \in 1 .. Len(wire[i]) : MetaAt(wire[i], n, c)

\* A capture is due on one connection at most, and not any more once stored.
DueOnce ==
  /\ \A c \in Captures : Stored(c) => c <= named
  /\ \A i \in Conns, c \in Captures : Due(i, c) =>
       /\ c <= named /\ ~Stored(c)
       /\ \A j \in Conns \ {i} : ~Due(j, c)

\* The picture in hand, in the object or behind the row is the capture's own.
RightPicture ==
  /\ \A i \in Conns : st[i] = "put" => hand[i].picture = <<hand[i].cap>>
  /\ \A i \in Conns : st[i] = "row" => objects[hand[i].cap] = <<hand[i].cap>>
  /\ \A c \in Captures : Stored(c) => objects[c] = <<c>>

LogInv ==
  /\ conn = 0 => named = framed
  /\ Streams /\ Frames /\ DueOnce /\ RightPicture

-----------------------------------------------------------------------------
(* Reading the head of a stream *)

\* Captures are numbered.
LEMMA CapIsNat == \A it \in Items : it.cap \in Nat
<1> SUFFICES ASSUME NEW it \in Items PROVE it.cap \in Nat
  OBVIOUS
<1>1. it.cap \in 0 .. NumCaptures
  BY DEF Items
<1> QED BY <1>1, IngestBounds

LEMMA TailAt ==
  ASSUME NEW w \in Seq(Items), w # <<>>
  PROVE  /\ Tail(w) \in Seq(Items) /\ Len(Tail(w)) = Len(w) - 1 /\ Len(w) \in Nat
         /\ Head(w) = w[1] /\ 1 \in 1 .. Len(w) /\ w[1] \in Items
         /\ \A n \in 1 .. Len(Tail(w)) : Tail(w)[n] = w[n + 1] /\ n + 1 \in 1 .. Len(w)
         /\ \A n \in 1 .. Len(w) : w[n] \in Items
         /\ \A n \in 2 .. Len(w) : Tail(w)[n - 1] = w[n] /\ n - 1 \in 1 .. Len(Tail(w))
  OBVIOUS

\* `a` begins what is to be continued exactly if `b` does.
Alike(a, b) ==
  /\ a.kind = "start" <=> b.kind = "start"
  /\ a.kind = "region" <=> b.kind = "region"
  /\ b.kind \in {"start", "region"} => a.cap = b.cap

LEMMA UnbrokenTail ==
  ASSUME NEW w \in Seq(Items), w # <<>>, NEW last, NEW last2,
         Unbroken(w, last), Alike(last2, w[1])
  PROVE  Unbroken(Tail(w), last2)
<1> SUFFICES ASSUME NEW n \in 1 .. Len(Tail(w))
             PROVE  Follows(Prev(Tail(w), last2, n), Tail(w)[n])
  BY DEF Unbroken
<1>1. Follows(Prev(w, last, n + 1), w[n + 1]) /\ Prev(w, last, n + 1) = w[n]
  BY TailAt DEF Unbroken, Prev
<1>2. CASE n = 1
  BY <1>1, <1>2, TailAt DEF Follows, Prev, Alike
<1>3. CASE n # 1
  <2>1. Tail(w)[n - 1] = w[n]
    BY <1>3, TailAt
  <2> QED BY <1>1, <1>3, <2>1, TailAt DEF Prev
<1> QED BY <1>2, <1>3

\* What was before the item that is now the n-th is still before it, or was read.
LEMMA StillBefore ==
  ASSUME NEW w \in Seq(Items), w # <<>>, NEW n \in 1 .. Len(Tail(w)), NEW c
  PROVE  /\ (\E k \in 1 .. (n + 1) - 1 : DoneAt(w, k, c))
              => DoneAt(w, 1, c) \/ \E k \in 1 .. n - 1 : DoneAt(Tail(w), k, c)
         /\ (\E k \in 1 .. (n + 1) - 1 : MetaAt(w, k, c))
              => MetaAt(w, 1, c) \/ \E k \in 1 .. n - 1 : MetaAt(Tail(w), k, c)
<1>1. n \in Nat /\ n >= 1
  BY TailAt
<1>2. ASSUME NEW k \in 1 .. (n + 1) - 1, k # 1
      PROVE  /\ k - 1 \in 1 .. n - 1 /\ k - 1 \in 1 .. Len(Tail(w))
             /\ Tail(w)[k - 1] = w[k]
  BY <1>1, <1>2, TailAt
<1>3. ASSUME NEW k \in 1 .. (n + 1) - 1, k # 1
      PROVE  /\ DoneAt(w, k, c) => DoneAt(Tail(w), k - 1, c)
             /\ MetaAt(w, k, c) => MetaAt(Tail(w), k - 1, c)
  BY <1>2, <1>3 DEF DoneAt, MetaAt
<1> QED BY <1>2, <1>3

\* The records stay in order when something else is read.
LEMMA MetasTail ==
  ASSUME NEW w \in Seq(Items), w # <<>>, NEW m \in Nat, MetasFrom(w, m), w[1].kind # "meta"
  PROVE  MetasFrom(Tail(w), m)
<1> DEFINE t == Tail(w)
<1>1. \A n \in 1 .. Len(t) : n + 1 \in 1 .. Len(w) /\ t[n] = w[n + 1]
  BY TailAt
<1>2. \A n \in 1 .. Len(t) : \A k \in 1 .. n - 1 : k + 1 \in 1 .. (n + 1) - 1 /\ t[k] = w[k + 1]
  BY TailAt
<1>3. \A c : ~MetaAt(w, 1, c)
  BY DEF MetaAt
<1>4. ASSUME NEW n \in 1 .. Len(t), NEW c, \E k \in 1 .. (n + 1) - 1 : MetaAt(w, k, c)
      PROVE  \E k \in 1 .. n - 1 : MetaAt(t, k, c)
  BY <1>3, <1>4, StillBefore
<1> HIDE DEF t
<1>5. ASSUME NEW n \in 1 .. Len(t), t[n].kind = "meta"
      PROVE  /\ t[n].cap >= m
             /\ t[n].cap = m \/ \E k \in 1 .. n - 1 : MetaAt(t, k, t[n].cap - 1)
             /\ \A k \in 1 .. n - 1 : t[k].kind = "meta" => t[k].cap < t[n].cap
  <2>1. /\ t[n].cap >= m
        /\ t[n].cap = m \/ \E k \in 1 .. (n + 1) - 1 : MetaAt(w, k, t[n].cap - 1)
        /\ \A k \in 1 .. (n + 1) - 1 : w[k].kind = "meta" => w[k].cap < t[n].cap
    BY <1>1, <1>5 DEF MetasFrom
  <2>2. \A k \in 1 .. n - 1 : t[k].kind = "meta" => t[k].cap < t[n].cap
    BY <1>2, <2>1
  <2> QED BY <1>4, <2>1, <2>2
<1> QED BY <1>5 DEF MetasFrom, t

\* The pictures stay in order when something else is read.
LEMMA PicturesTail ==
  ASSUME NEW w \in Seq(Items), w # <<>>, NEW f \in Nat, PicturesFrom(w, f),
         w[1].kind \notin {"end", "garbled"}
  PROVE  PicturesFrom(Tail(w), f)
<1> DEFINE t == Tail(w)
<1>1. \A n \in 1 .. Len(t) : n + 1 \in 1 .. Len(w) /\ t[n] = w[n + 1]
  BY TailAt
<1>2. \A n \in 1 .. Len(t) : \A k \in 1 .. n - 1 : k + 1 \in 1 .. (n + 1) - 1 /\ t[k] = w[k + 1]
  BY TailAt
<1>3. \A c : ~DoneAt(w, 1, c)
  BY DEF DoneAt
<1>4. ASSUME NEW n \in 1 .. Len(t), NEW c, \E k \in 1 .. (n + 1) - 1 : DoneAt(w, k, c)
      PROVE  \E k \in 1 .. n - 1 : DoneAt(t, k, c)
  BY <1>3, <1>4, StillBefore
<1> HIDE DEF t
<1>5. ASSUME NEW n \in 1 .. Len(t), t[n].kind \in {"end", "garbled"}
      PROVE  /\ t[n].cap >= f
             /\ t[n].cap = f \/ \E k \in 1 .. n - 1 : DoneAt(t, k, t[n].cap - 1)
             /\ \A k \in 1 .. n - 1 : t[k].kind \in {"end", "garbled"} => t[k].cap < t[n].cap
  <2>1. /\ t[n].cap >= f
        /\ t[n].cap = f \/ \E k \in 1 .. (n + 1) - 1 : DoneAt(w, k, t[n].cap - 1)
        /\ \A k \in 1 .. (n + 1) - 1 : w[k].kind \in {"end", "garbled"} => w[k].cap < t[n].cap
    BY <1>1, <1>5 DEF PicturesFrom
  <2>2. \A k \in 1 .. n - 1 : t[k].kind \in {"end", "garbled"} => t[k].cap < t[n].cap
    BY <1>2, <2>1
  <2> QED BY <1>4, <2>1, <2>2
<1> QED BY <1>5 DEF PicturesFrom, t

\* An item that is neither a record nor the end of a picture.
LEMMA ReadOther ==
  ASSUME NEW w \in Seq(Items), w # <<>>, NEW last, NEW last2, NEW m \in Nat, NEW f \in Nat,
         Stream(w, last, m, f), Alike(last2, w[1]),
         w[1].kind \notin {"meta", "end", "garbled"}
  PROVE  Stream(Tail(w), last2, m, f)
<1> DEFINE t == Tail(w)
<1>0. \A n \in 1 .. Len(t) : n + 1 \in 1 .. Len(w) /\ t[n] = w[n + 1]
  BY TailAt
<1>1. \A c : ~DoneAt(w, 1, c) /\ ~MetaAt(w, 1, c)
  BY DEF DoneAt, MetaAt
<1> HIDE DEF t
<1>3. MetasFrom(t, m)
  BY MetasTail DEF Stream, t
<1>4. PicturesFrom(t, f)
  BY PicturesTail DEF Stream, t
<1>5. MetaAfterPicture(t, f)
  BY <1>0, <1>1, StillBefore DEF Stream, MetaAfterPicture, t
<1>6. NotFarAhead(t, m)
  BY <1>0, <1>1, StillBefore DEF Stream, NotFarAhead, t
<1>7. Unbroken(t, last2)
  BY UnbrokenTail DEF Stream, t
<1> QED BY <1>3, <1>4, <1>5, <1>6, <1>7 DEF Stream, t

\* The record that is read is the one due, and its picture came before it.
LEMMA ReadMeta ==
  ASSUME NEW w \in Seq(Items), w # <<>>, NEW last, NEW last2, NEW m \in Nat, NEW f \in Nat,
         Stream(w, last, m, f), Alike(last2, w[1]), w[1].kind = "meta"
  PROVE  w[1].cap = m /\ m < f /\ Stream(Tail(w), last2, m + 1, f)
<1> DEFINE t == Tail(w)
<1>a. \A n \in 1 .. Len(w) : w[n].cap \in Nat
  BY TailAt, CapIsNat
<1>0. \A n \in 1 .. Len(t) : /\ n + 1 \in 1 .. Len(w) /\ t[n] = w[n + 1]
                             /\ 1 \in 1 .. (n + 1) - 1 /\ t[n].cap \in Nat
  BY <1>a, TailAt
<1>1. \A c : ~DoneAt(w, 1, c) /\ (MetaAt(w, 1, c) => c = w[1].cap)
  BY DEF DoneAt, MetaAt
<1>2. \A n \in 1 .. Len(t) : \A k \in 1 .. n - 1 : k + 1 \in 1 .. (n + 1) - 1 /\ t[k] = w[k + 1]
  BY TailAt
<1>3. w[1].cap = m /\ m < f
  BY TailAt DEF Stream, MetasFrom, MetaAfterPicture
<1> HIDE DEF t
<1>4. MetasFrom(t, m + 1)
  <2> SUFFICES ASSUME NEW n \in 1 .. Len(t), t[n].kind = "meta"
               PROVE  /\ t[n].cap >= m + 1
                      /\ t[n].cap = m + 1 \/ \E k \in 1 .. n - 1 : MetaAt(t, k, t[n].cap - 1)
                      /\ \A k \in 1 .. n - 1 : t[k].kind = "meta" => t[k].cap < t[n].cap
    BY DEF MetasFrom
  <2>1. /\ w[n + 1].cap = m \/ \E k \in 1 .. (n + 1) - 1 : MetaAt(w, k, t[n].cap - 1)
        /\ \A k \in 1 .. (n + 1) - 1 : w[k].kind = "meta" => w[k].cap < t[n].cap
    BY <1>0 DEF Stream, MetasFrom
  <2>2. m < t[n].cap
    BY <1>0, <1>3, <2>1
  <2>3. MetaAt(w, 1, t[n].cap - 1) \/ \E k \in 1 .. n - 1 : MetaAt(t, k, t[n].cap - 1)
    BY <1>0, <2>1, <2>2, StillBefore DEF t
  <2>4. t[n].cap = m + 1 \/ \E k \in 1 .. n - 1 : MetaAt(t, k, t[n].cap - 1)
    <3>1. CASE MetaAt(w, 1, t[n].cap - 1)
      <4>1. t[n].cap - 1 = m
        BY <1>1, <1>3, <3>1
      <4> QED BY <1>0, <4>1
    <3> QED BY <2>3, <3>1
  <2>6. t[n].cap >= m + 1
    BY <1>0, <2>2
  <2>5. \A k \in 1 .. n - 1 : t[k].kind = "meta" => t[k].cap < t[n].cap
    BY <1>2, <2>1
  <2> QED BY <2>4, <2>5, <2>6
<1>5. PicturesFrom(t, f)
  BY PicturesTail DEF Stream, t
<1>6. MetaAfterPicture(t, f)
  BY <1>0, <1>1, StillBefore DEF Stream, MetaAfterPicture, t
<1>7. NotFarAhead(t, m + 1)
  <2> SUFFICES ASSUME NEW n \in 1 .. Len(t), t[n].kind \in {"end", "garbled"}
               PROVE  t[n].cap < m + 1 + Ahead
                      \/ \E k \in 1 .. n - 1 : MetaAt(t, k, t[n].cap - Ahead)
    BY DEF NotFarAhead
  <2>1. w[n + 1].cap < m + Ahead \/ \E k \in 1 .. (n + 1) - 1 : MetaAt(w, k, t[n].cap - Ahead)
    BY <1>0 DEF Stream, NotFarAhead
  <2>2. \/ t[n].cap < m + Ahead \/ MetaAt(w, 1, t[n].cap - Ahead)
        \/ \E k \in 1 .. n - 1 : MetaAt(t, k, t[n].cap - Ahead)
    BY <1>0, <2>1, StillBefore DEF t
  <2> QED BY <1>0, <1>1, <1>3, <2>2, IngestBounds
<1>8. Unbroken(t, last2)
  BY UnbrokenTail DEF Stream, t
<1> QED BY <1>3, <1>4, <1>5, <1>6, <1>7, <1>8 DEF Stream, t

\* The picture that ends is the one due, and it is not far ahead of the records.
LEMMA ReadPicture ==
  ASSUME NEW w \in Seq(Items), w # <<>>, NEW last, NEW last2, NEW m \in Nat, NEW f \in Nat,
         Stream(w, last, m, f), Alike(last2, w[1]), w[1].kind = "end"
  PROVE  w[1].cap = f /\ f < m + Ahead /\ Stream(Tail(w), last2, m, f + 1)
<1> DEFINE t == Tail(w)
<1>a. \A n \in 1 .. Len(w) : w[n].cap \in Nat
  BY TailAt, CapIsNat
<1>0. \A n \in 1 .. Len(t) : /\ n + 1 \in 1 .. Len(w) /\ t[n] = w[n + 1]
                             /\ 1 \in 1 .. (n + 1) - 1 /\ t[n].cap \in Nat
  BY <1>a, TailAt
<1>1. \A c : ~MetaAt(w, 1, c) /\ (DoneAt(w, 1, c) => c = w[1].cap)
  BY DEF DoneAt, MetaAt
<1>2. \A n \in 1 .. Len(t) : \A k \in 1 .. n - 1 : k + 1 \in 1 .. (n + 1) - 1 /\ t[k] = w[k + 1]
  BY TailAt
<1>3. w[1].cap = f /\ f < m + Ahead
  BY TailAt DEF Stream, PicturesFrom, NotFarAhead
<1> HIDE DEF t
<1>4. PicturesFrom(t, f + 1)
  <2> SUFFICES ASSUME NEW n \in 1 .. Len(t), t[n].kind \in {"end", "garbled"}
               PROVE  /\ t[n].cap >= f + 1
                      /\ t[n].cap = f + 1 \/ \E k \in 1 .. n - 1 : DoneAt(t, k, t[n].cap - 1)
                      /\ \A k \in 1 .. n - 1 :
                           t[k].kind \in {"end", "garbled"} => t[k].cap < t[n].cap
    BY DEF PicturesFrom
  <2>1. /\ w[n + 1].cap = f \/ \E k \in 1 .. (n + 1) - 1 : DoneAt(w, k, t[n].cap - 1)
        /\ \A k \in 1 .. (n + 1) - 1 :
             w[k].kind \in {"end", "garbled"} => w[k].cap < t[n].cap
    BY <1>0 DEF Stream, PicturesFrom
  <2>2. f < t[n].cap
    BY <1>0, <1>3, <2>1
  <2>3. DoneAt(w, 1, t[n].cap - 1) \/ \E k \in 1 .. n - 1 : DoneAt(t, k, t[n].cap - 1)
    <3>1. w[n + 1].cap # f
      BY <1>0, <2>2
    <3>2. \E k \in 1 .. (n + 1) - 1 : DoneAt(w, k, t[n].cap - 1)
      BY <2>1, <3>1
    <3> QED BY <3>2, StillBefore DEF t
  <2>4. t[n].cap = f + 1 \/ \E k \in 1 .. n - 1 : DoneAt(t, k, t[n].cap - 1)
    <3>1. CASE DoneAt(w, 1, t[n].cap - 1)
      <4>1. t[n].cap - 1 = f
        BY <1>1, <1>3, <3>1
      <4> QED BY <1>0, <4>1
    <3> QED BY <2>3, <3>1
  <2>6. t[n].cap >= f + 1
    BY <1>0, <2>2
  <2>5. \A k \in 1 .. n - 1 : t[k].kind \in {"end", "garbled"} => t[k].cap < t[n].cap
    BY <1>2, <2>1
  <2> QED BY <2>4, <2>5, <2>6
<1>5. MetasFrom(t, m)
  BY MetasTail DEF Stream, t
<1>6. NotFarAhead(t, m)
  BY <1>0, <1>1, StillBefore DEF Stream, NotFarAhead, t
<1>7. MetaAfterPicture(t, f + 1)
  <2> SUFFICES ASSUME NEW n \in 1 .. Len(t), t[n].kind = "meta"
               PROVE  t[n].cap < f + 1 \/ \E k \in 1 .. n - 1 : DoneAt(t, k, t[n].cap)
    BY DEF MetaAfterPicture
  <2>1. w[n + 1].cap < f \/ \E k \in 1 .. (n + 1) - 1 : DoneAt(w, k, t[n].cap)
    BY <1>0 DEF Stream, MetaAfterPicture
  <2>2. \/ t[n].cap < f \/ DoneAt(w, 1, t[n].cap)
        \/ \E k \in 1 .. n - 1 : DoneAt(t, k, t[n].cap)
    BY <1>0, <2>1, StillBefore DEF t
  <2> QED BY <1>0, <1>1, <1>3, <2>2
<1>8. Unbroken(t, last2)
  BY UnbrokenTail DEF Stream, t
<1> QED BY <1>3, <1>4, <1>5, <1>6, <1>7, <1>8 DEF Stream, t

-----------------------------------------------------------------------------
(* Cutting a stream and adding to it *)

LEMMA CutStream ==
  ASSUME NEW w \in Seq(Items), NEW last, NEW m \in Nat, NEW f \in Nat, Stream(w, last, m, f),
         NEW n \in 0 .. Len(w)
  PROVE  Stream(SubSeq(w, 1, n), last, m, f)
<1> DEFINE v == SubSeq(w, 1, n)
<1>1. /\ Len(v) = n /\ n \in Nat /\ \A j \in 1 .. n : v[j] = w[j] /\ j \in 1 .. Len(w)
      /\ Len(w) \in Nat
  OBVIOUS
<1> HIDE DEF v
<1>2. \A j \in 1 .. Len(v) : \A k \in 1 .. j - 1 : v[k] = w[k] /\ k \in 1 .. Len(w)
  BY <1>1
<1>3. \A c : \A j \in 1 .. Len(v) : \A k \in 1 .. j - 1 :
        (MetaAt(w, k, c) => MetaAt(v, k, c)) /\ (DoneAt(w, k, c) => DoneAt(v, k, c))
  BY <1>1 DEF MetaAt, DoneAt
<1>4. MetasFrom(v, m)
  BY <1>1, <1>2, <1>3 DEF Stream, MetasFrom
<1>5. PicturesFrom(v, f)
  BY <1>1, <1>2, <1>3 DEF Stream, PicturesFrom
<1>6. MetaAfterPicture(v, f)
  BY <1>1, <1>3 DEF Stream, MetaAfterPicture
<1>7. NotFarAhead(v, m)
  BY <1>1, <1>3 DEF Stream, NotFarAhead
<1>8. Unbroken(v, last)
  BY <1>1, <1>2 DEF Stream, Unbroken, Prev
<1> QED BY <1>4, <1>5, <1>6, <1>7, <1>8 DEF Stream, v

\* One more item may be added to a stream if it is the one due.
Fits(w, last, it, m, f) ==
  /\ Follows(Prev(w, last, Len(w) + 1), it)
  /\ it.kind = "meta" =>
       /\ it.cap >= m
       /\ it.cap = m \/ \E k \in 1 .. Len(w) : MetaAt(w, k, it.cap - 1)
       /\ \A k \in 1 .. Len(w) : w[k].kind = "meta" => w[k].cap < it.cap
       /\ it.cap < f \/ \E k \in 1 .. Len(w) : DoneAt(w, k, it.cap)
  /\ it.kind \in {"end", "garbled"} =>
       /\ it.cap >= f
       /\ it.cap = f \/ \E k \in 1 .. Len(w) : DoneAt(w, k, it.cap - 1)
       /\ \A k \in 1 .. Len(w) : w[k].kind \in {"end", "garbled"} => w[k].cap < it.cap
       /\ it.cap < m + Ahead \/ \E k \in 1 .. Len(w) : MetaAt(w, k, it.cap - Ahead)

LEMMA AddItem ==
  ASSUME NEW w \in Seq(Items), NEW last, NEW m \in Nat, NEW f \in Nat, Stream(w, last, m, f),
         NEW it \in Items, Fits(w, last, it, m, f)
  PROVE  Stream(Append(w, it), last, m, f)
<1> DEFINE v == Append(w, it)
<1>1. /\ Len(v) = Len(w) + 1 /\ Len(w) \in Nat /\ v[Len(w) + 1] = it
      /\ \A j \in 1 .. Len(w) : v[j] = w[j]
  OBVIOUS
<1> HIDE DEF v
<1>2. \A j \in 1 .. Len(v) : j \in 1 .. Len(w) \/ (j = Len(w) + 1 /\ v[j] = it)
  BY <1>1
<1>3. \A j \in 1 .. Len(v) : \A k \in 1 .. j - 1 : k \in 1 .. Len(w) /\ v[k] = w[k]
  BY <1>1
<1>4. \A c : \A k \in 1 .. Len(w) :
        (MetaAt(w, k, c) => MetaAt(v, k, c)) /\ (DoneAt(w, k, c) => DoneAt(v, k, c))
  BY <1>1 DEF MetaAt, DoneAt
<1>5. \A k \in 1 .. Len(w) : k \in 1 .. (Len(w) + 1) - 1
  BY <1>1
<1>6. MetasFrom(v, m)
  BY <1>1, <1>2, <1>3, <1>4, <1>5 DEF Stream, MetasFrom, Fits
<1>7. PicturesFrom(v, f)
  BY <1>1, <1>2, <1>3, <1>4, <1>5 DEF Stream, PicturesFrom, Fits
<1>8. MetaAfterPicture(v, f)
  BY <1>1, <1>2, <1>3, <1>4, <1>5 DEF Stream, MetaAfterPicture, Fits
<1>9. NotFarAhead(v, m)
  BY <1>1, <1>2, <1>3, <1>4, <1>5 DEF Stream, NotFarAhead, Fits
<1>10. Unbroken(v, last)
  <2> SUFFICES ASSUME NEW j \in 1 .. Len(v)
               PROVE  Follows(Prev(v, last, j), v[j])
    BY DEF Unbroken
  <2>1. Prev(v, last, j) = Prev(w, last, j)
    BY <1>1, <1>3 DEF Prev
  <2> QED BY <1>1, <1>2, <2>1 DEF Stream, Unbroken, Fits
<1> QED BY <1>6, <1>7, <1>8, <1>9, <1>10 DEF Stream, v

-----------------------------------------------------------------------------
(* The steps of a session *)

LEMMA Typed ==
  ASSUME TypeInv
  PROVE  /\ st \in [Conns -> States] /\ wire \in [Conns -> Seq(Items)]
         /\ frame \in [Conns -> [id : 0 .. NumCaptures, regions : Seq(Captures)]]
         /\ pending \in [Conns -> Seq(Seq(Captures))]
         /\ hand \in [Conns -> [cap : 0 .. NumCaptures, picture : Seq(Captures)]]
         /\ objects \in [Captures -> Seq(Captures)] /\ rows \in Seq(Captures)
         /\ named \in Nat /\ framed \in Nat /\ named <= framed /\ framed <= NumCaptures
         /\ opened \in Nat /\ opened <= NumConns /\ conn \in Nat /\ conn <= opened
         /\ \A i \in Conns : i > opened => st[i] = "none"
<1>1. AgentType /\ NetType /\ SessionType /\ DiskType /\ PhaseInv
  BY DEF TypeInv, TypeOK, PlacesInv
<1>2. wire \in [Conns -> Seq(Items)]
  BY <1>1 DEF NetType, Items
<1>3. /\ named \in Nat /\ framed \in Nat /\ named <= framed /\ framed <= NumCaptures
      /\ opened \in Nat /\ opened <= NumConns /\ conn \in Nat /\ conn <= opened
  BY <1>1, IngestBounds DEF AgentType
<1>4. \A i \in Conns : i > opened => st[i] = "none"
  BY <1>1 DEF PhaseInv
<1>5. /\ st \in [Conns -> States]
      /\ frame \in [Conns -> [id : 0 .. NumCaptures, regions : Seq(Captures)]]
      /\ pending \in [Conns -> Seq(Seq(Captures))]
      /\ hand \in [Conns -> [cap : 0 .. NumCaptures, picture : Seq(Captures)]]
  BY <1>1 DEF SessionType
<1>6. objects \in [Captures -> Seq(Captures)] /\ rows \in Seq(Captures)
  BY <1>1 DEF DiskType
<1> QED BY <1>2, <1>3, <1>4, <1>5, <1>6

\* What the agent has sent and the session has not read.
LEMMA SentTail ==
  ASSUME NEW w \in Seq(Items), w # <<>>, NEW last, NEW last2, Alike(last2, w[1]),
         NEW m \in Nat, NEW f \in Nat, NEW m2 \in Nat, NEW f2 \in Nat,
         AllSent(w, last, m, f), named \in Nat, framed \in Nat,
         m <= m2, m2 <= named + 1, f <= f2, f2 <= framed + 1,
         w[1].kind = "meta" => w[1].cap < m2,
         w[1].kind \in {"end", "garbled"} => w[1].cap < f2
  PROVE  AllSent(Tail(w), last2, m2, f2)
<1> DEFINE t == Tail(w)
<1>1. /\ Len(t) = Len(w) - 1 /\ Len(w) \in Nat /\ Len(t) \in Nat
      /\ \A n \in 2 .. Len(w) : t[n - 1] = w[n] /\ n - 1 \in 1 .. Len(t)
      /\ \A n \in 1 .. Len(t) : t[n] = w[n + 1] /\ n + 1 \in 1 .. Len(w)
  <2>1. t \in Seq(Items) /\ Len(t) = Len(w) - 1 /\ Len(w) \in Nat
    BY TailAt
  <2>2. \A n \in 2 .. Len(w) : t[n - 1] = w[n] /\ n - 1 \in 1 .. Len(t)
    BY TailAt
  <2>3. \A n \in 1 .. Len(t) : t[n] = w[n + 1] /\ n + 1 \in 1 .. Len(w)
    BY TailAt
  <2>4. Len(t) \in Nat
    BY <2>1
  <2> QED BY <2>1, <2>2, <2>3, <2>4
<1> HIDE DEF t
<1>2. ASSUME NEW c \in m2 .. named PROVE \E n \in 1 .. Len(t) : MetaAt(t, n, c)
  <2>1. PICK n \in 1 .. Len(w) : MetaAt(w, n, c)
    BY <1>2 DEF AllSent, Covers
  <2>2. n # 1
    BY <1>2, <2>1 DEF MetaAt
  <2>3. n \in 2 .. Len(w)
    BY <1>1, <2>1, <2>2
  <2>4. n - 1 \in 1 .. Len(t) /\ MetaAt(t, n - 1, c)
    BY <1>1, <2>1, <2>3 DEF MetaAt
  <2> QED BY <2>4
<1>3. ASSUME NEW c \in f2 .. framed PROVE \E n \in 1 .. Len(t) : DoneAt(t, n, c)
  <2>1. PICK n \in 1 .. Len(w) : DoneAt(w, n, c)
    BY <1>3 DEF AllSent, Covers
  <2>2. n # 1
    BY <1>3, <2>1 DEF DoneAt
  <2>3. n \in 2 .. Len(w)
    BY <1>1, <2>1, <2>2
  <2>4. n - 1 \in 1 .. Len(t) /\ DoneAt(t, n - 1, c)
    BY <1>1, <2>1, <2>3 DEF DoneAt
  <2> QED BY <2>4
<1>4. Prev(t, last2, Len(t) + 1).kind \notin {"start", "region"}
  <2>1. w[Len(w)].kind \notin {"start", "region"}
    BY <1>1, TailAt DEF AllSent, Prev
  <2>2. CASE Len(t) = 0
    <3>0. Len(w) = 1
      BY <1>1, <2>2
    <3>1. w[1].kind \notin {"start", "region"}
      BY <2>1, <3>0
    <3>2. last2.kind \notin {"start", "region"}
      BY <3>1 DEF Alike
    <3> QED BY <2>2, <3>2 DEF Prev
  <2>3. CASE Len(t) # 0
    BY <1>1, <2>1, <2>3 DEF Prev
  <2> QED BY <2>2, <2>3
<1>5. \A n \in 1 .. Len(t) :
        /\ t[n].kind = "meta" => t[n].cap <= named
        /\ t[n].kind \in {"end", "garbled"} => t[n].cap <= framed
  BY <1>1 DEF AllSent, Covers
<1> QED BY <1>2, <1>3, <1>4, <1>5 DEF AllSent, Covers, t

\* Nothing of connection i changes but the task's place, its hand and its clock.
LEMMA CarriesOn ==
  ASSUME NEW i \in Conns, NEW m \in Nat, NEW f \in Nat, Carries(i, m, f), UNCHANGED agent,
         wire'[i] = wire[i], frame'[i] = frame[i], pending'[i] = pending[i],
         st'[i] \in {"put", "row"} => st[i] \in {"put", "row"} /\ hand'[i] = hand[i]
  PROVE  Carries(i, m, f)'
  BY DEF Carries, agent, AllSent, Covers, Waiting

\* The head of connection i has been read; `m2` and `f2` are due now.
LEMMA CarriesAfterRead ==
  ASSUME TypeInv, NEW i \in Conns, NEW m \in Nat, NEW f \in Nat, Carries(i, m, f),
         UNCHANGED agent, wire[i] # <<>>, wire'[i] = Tail(wire[i]),
         Alike(LastPdu(frame'[i]), wire[i][1]),
         NEW m2 \in Nat, NEW f2 \in Nat, m <= m2, f <= f2,
         Stream(Tail(wire[i]), LastPdu(frame'[i]), m2, f2), Waiting(pending'[i], m2, f2),
         st'[i] \in {"put", "row"} => hand'[i].cap < m2,
         conn = i => m2 <= named + 1 /\ f2 <= framed + 1,
         wire[i][1].kind = "meta" => wire[i][1].cap < m2,
         wire[i][1].kind \in {"end", "garbled"} => wire[i][1].cap < f2
  PROVE  Carries(i, m2, f2)'
<1>1. wire[i] \in Seq(Items) /\ named \in Nat /\ framed \in Nat
  BY Typed
<1>2. conn = i => AllSent(Tail(wire[i]), LastPdu(frame'[i]), m2, f2)
  BY <1>1, SentTail DEF Carries
<1> QED BY <1>2 DEF Carries, agent, AllSent, Covers, Waiting

\* Between two pictures no frame is begun.
LEMMA NoFrameBegun ==
  ASSUME NEW w \in Seq(Items), w # <<>>, NEW fr, FrameShape(fr), Unbroken(w, LastPdu(fr)),
         w[1].kind \notin {"region", "end"}
  PROVE  fr = NoFrame /\ LastPdu(fr) = Item("end", 0)
<1>1. Follows(LastPdu(fr), w[1])
  BY TailAt DEF Unbroken, Prev
<1>2. LastPdu(fr).kind \notin {"start", "region"}
  BY <1>1 DEF Follows
<1>3. fr.id = 0
  BY <1>2 DEF LastPdu, Item
<1> QED BY <1>3, IngestBounds DEF FrameShape, Captures, LastPdu

LEMMA FrameCarried ==
  ASSUME NEW w \in Seq(Items), w # <<>>, NEW fr, FrameShape(fr), Unbroken(w, LastPdu(fr))
  PROVE  /\ w[1].kind = "region" => fr.id = w[1].cap /\ fr.id \in Captures /\ fr.regions = <<>>
         /\ w[1].kind = "end" =>
              fr.id = w[1].cap /\ fr.id \in Captures /\ fr.regions = <<fr.id>>
<1>1. Follows(LastPdu(fr), w[1])
  BY TailAt DEF Unbroken, Prev
<1>2. ASSUME w[1].kind = "region"
      PROVE  fr.id = w[1].cap /\ fr.id \in Captures /\ fr.regions = <<>>
  <2>1. LastPdu(fr).kind = "start" /\ LastPdu(fr).cap = w[1].cap
    BY <1>1, <1>2 DEF Follows
  <2>2. fr.id # 0 /\ fr.regions = <<>>
    BY <2>1 DEF LastPdu, Item
  <2> QED BY <2>1, <2>2 DEF FrameShape, NoFrame, LastPdu, Item
<1>3. ASSUME w[1].kind = "end"
      PROVE  fr.id = w[1].cap /\ fr.id \in Captures /\ fr.regions = <<fr.id>>
  <2>1. LastPdu(fr).kind = "region" /\ LastPdu(fr).cap = w[1].cap
    BY <1>1, <1>3 DEF Follows
  <2>2. fr.id # 0 /\ fr.regions # <<>>
    BY <2>1 DEF LastPdu, Item
  <2> QED BY <2>1, <2>2 DEF FrameShape, NoFrame, LastPdu, Item
<1> QED BY <1>2, <1>3

\* The assumptions of the result: records keep up, and no token comes twice.
Orderly == Ahead <= PendingLimit /\ ~StartsOver

LEMMA ReadFrameCarries ==
  ASSUME TypeInv, NEW i \in Conns, NEW m \in Nat, NEW f \in Nat, Carries(i, m, f),
         FrameShape(frame[i]), Greet(i) \/ BeginFrame(i) \/ AddRegion(i)
  PROVE  Carries(i, m, f)' /\ FrameShape(frame'[i])
<1> DEFINE w == wire[i]
           c == w[1].cap
<1>1. /\ w \in Seq(Items) /\ w # <<>> /\ w[1].cap \in 0 .. NumCaptures /\ Head(w) = w[1]
      /\ wire'[i] = Tail(w) /\ UNCHANGED agent /\ pending'[i] = pending[i]
      /\ st'[i] = "open"
      /\ frame \in [Conns -> [id : 0 .. NumCaptures, regions : Seq(Captures)]]
  <2>1. w \in Seq(Items) /\ w # <<>> /\ st[i] \in {"greeting", "open"}
        /\ wire' = [wire EXCEPT ![i] = Tail(wire[i])] /\ UNCHANGED agent /\ UNCHANGED pending
        /\ (st' = st \/ st' = [st EXCEPT ![i] = "open"]) /\ (st' = st => st[i] = "open")
    BY Typed DEF Greet, BeginFrame, AddRegion, InLoop, Receive, Arrives, session
  <2>2. w[1] \in Items
    BY <2>1, TailAt
  <2>3. w[1].cap \in 0 .. NumCaptures
    BY <2>2 DEF Items
  <2>4. wire \in [Conns -> Seq(Items)] /\ st \in [Conns -> States]
        /\ frame \in [Conns -> [id : 0 .. NumCaptures, regions : Seq(Captures)]]
    BY Typed
  <2>5. wire'[i] = Tail(w) /\ st'[i] = "open"
    BY <2>1, <2>4
  <2>6. Head(w) = w[1]
    BY <2>1, TailAt
  <2> QED BY <2>1, <2>3, <2>4, <2>5, <2>6
<1>2. Stream(w, LastPdu(frame[i]), m, f) /\ Unbroken(w, LastPdu(frame[i]))
  BY DEF Carries, Stream
<1>3. ASSUME w[1].kind \in {"goodHello", "start", "region"},
             Alike(LastPdu(frame'[i]), w[1])
      PROVE  Carries(i, m, f)'
  <2>1. Stream(Tail(w), LastPdu(frame'[i]), m, f)
    BY <1>1, <1>2, <1>3, ReadOther
  <2>2. Waiting(pending'[i], m, f) /\ (conn = i => m <= named + 1 /\ f <= framed + 1)
    BY <1>1 DEF Carries, AllSent, Covers
  <2>3. /\ w[1].kind # "meta" /\ w[1].kind \notin {"end", "garbled"}
        /\ st'[i] \notin {"put", "row"} /\ m <= m /\ f <= f
    BY <1>1, <1>3
  <2> QED BY <1>1, <1>3, <2>1, <2>2, <2>3, CarriesAfterRead
<1>4. CASE Greet(i)
  <2>1. w[1].kind = "goodHello" /\ frame' = frame
    BY <1>1, <1>4 DEF Greet, Receive, Arrives, session
  <2>2. LastPdu(frame[i]) = Item("end", 0)
    BY <1>1, <1>2, <2>1, NoFrameBegun
  <2>3. Alike(LastPdu(frame'[i]), w[1])
    BY <2>1, <2>2 DEF Alike, Item
  <2> QED BY <1>3, <2>1, <2>3
<1>5. CASE BeginFrame(i)
  <2>1. /\ w[1].kind = "start" /\ frame'[i] = [id |-> c, regions |-> <<>>]
        /\ c \in Captures
    BY <1>1, <1>5, HeadNamed DEF BeginFrame, InLoop, Receive, Arrives
  <2>2. LastPdu(frame'[i]) = Item("start", c)
    BY <2>1, IngestBounds DEF LastPdu, Captures
  <2>3. Alike(LastPdu(frame'[i]), w[1])
    BY <2>1, <2>2 DEF Alike, Item
  <2> QED BY <1>3, <2>1, <2>3 DEF FrameShape
<1>6. CASE AddRegion(i)
  <2>1. /\ w[1].kind = "region"
        /\ frame' = [frame EXCEPT ![i].regions =
                       IF frame[i].id # 0 THEN Append(@, c) ELSE @]
    BY <1>1, <1>6 DEF AddRegion, InLoop, Receive, Arrives
  <2>2. frame[i].id = c /\ c \in Captures /\ frame[i].regions = <<>>
    BY <1>1, <1>2, <2>1, FrameCarried
  <2>3. frame'[i].id = c /\ frame'[i].regions = <<c>>
    <3>1. c # 0
      BY <2>2, IngestBounds DEF Captures
    <3>2. frame' = [frame EXCEPT ![i].regions = Append(@, c)]
      BY <2>1, <2>2, <3>1
    <3>3. frame'[i].id = frame[i].id /\ frame'[i].regions = Append(frame[i].regions, c)
      BY <1>1, <3>2
    <3> QED BY <2>2, <3>3
  <2>4. LastPdu(frame'[i]) = Item("region", c)
    BY <2>2, <2>3, IngestBounds DEF LastPdu, Captures
  <2>5. Alike(LastPdu(frame'[i]), w[1])
    BY <2>1, <2>4 DEF Alike, Item
  <2> QED BY <1>3, <2>1, <2>2, <2>3, <2>5 DEF FrameShape
<1> QED BY <1>4, <1>5, <1>6

\* The queue of pictures that wait.
LEMMA OneMoreWaits ==
  ASSUME NEW S, NEW q \in Seq(S), NEW m \in Nat, NEW f \in Nat, Waiting(q, m, f),
         f < m + PendingLimit, <<f>> \in S
  PROVE  Waiting(Enqueue(q, <<f>>), m, f + 1)
<1> DEFINE v == Append(q, <<f>>)
<1>1. Len(q) = f - m /\ Len(q) \in Nat /\ Enqueue(q, <<f>>) = v
  BY IngestBounds DEF Waiting, Enqueue
<1>2. Len(v) = Len(q) + 1 /\ v[Len(q) + 1] = <<f>> /\ \A k \in 1 .. Len(q) : v[k] = q[k]
  OBVIOUS
<1> HIDE DEF v
<1>3. Len(v) = f + 1 - m
  BY <1>1, <1>2
<1>4. ASSUME NEW k \in 1 .. Len(v) PROVE v[k] = <<m + k - 1>>
  <2>1. CASE k \in 1 .. Len(q)
    BY <1>2, <2>1 DEF Waiting
  <2>2. CASE k \notin 1 .. Len(q)
    <3>1. k = Len(q) + 1
      BY <1>1, <1>2, <2>2
    <3>2. m + k - 1 = f
      BY <1>1, <3>1
    <3> QED BY <1>2, <3>1, <3>2
  <2> QED BY <2>1, <2>2
<1>5. Len(v) = (f + 1) - m
  BY <1>3
<1>6. Waiting(v, m, f + 1)
  BY <1>4, <1>5 DEF Waiting
<1> QED BY <1>1, <1>6

LEMMA OneLessWaits ==
  ASSUME NEW S, NEW q \in Seq(S), NEW m \in Nat, NEW f \in Nat, Waiting(q, m, f), m < f
  PROVE  q # <<>> /\ Head(q) = <<m>> /\ Waiting(Tail(q), m + 1, f)
<1>1. Len(q) = f - m /\ Len(q) \in Nat /\ q # <<>>
  BY DEF Waiting
<1>2. /\ Head(q) = q[1] /\ 1 \in 1 .. Len(q) /\ Len(Tail(q)) = Len(q) - 1
      /\ \A k \in 1 .. Len(Tail(q)) : Tail(q)[k] = q[k + 1] /\ k + 1 \in 1 .. Len(q)
  BY <1>1
<1>3. q[1] = <<m>>
  BY <1>2 DEF Waiting
<1>4. \A k \in 1 .. Len(Tail(q)) : Tail(q)[k] = <<(m + 1) + k - 1>>
  <2> SUFFICES ASSUME NEW k \in 1 .. Len(Tail(q)) PROVE Tail(q)[k] = <<(m + 1) + k - 1>>
    OBVIOUS
  <2>1. Tail(q)[k] = <<m + (k + 1) - 1>>
    BY <1>2 DEF Waiting
  <2>2. m + (k + 1) - 1 = (m + 1) + k - 1
    BY <1>1, <1>2
  <2> QED BY <2>1, <2>2
<1>5. Len(Tail(q)) = f - (m + 1)
  BY <1>1, <1>2
<1> QED BY <1>1, <1>2, <1>3, <1>4, <1>5 DEF Waiting

LEMMA EndFrameCarries ==
  ASSUME TypeInv, Orderly, NEW i \in Conns, NEW m \in Nat, NEW f \in Nat, Carries(i, m, f),
         FrameShape(frame[i]), EndFrame(i)
  PROVE  Carries(i, m, f + 1)' /\ FrameShape(frame'[i])
<1> DEFINE w == wire[i]
           c == w[1].cap
<1>1. /\ w \in Seq(Items) /\ w # <<>> /\ Head(w) = w[1] /\ w[1].kind = "end"
      /\ wire'[i] = Tail(w) /\ UNCHANGED agent /\ st'[i] = "open"
  BY Typed, TailAt DEF EndFrame, InLoop, Receive, Arrives
<1>2. Stream(w, LastPdu(frame[i]), m, f) /\ Unbroken(w, LastPdu(frame[i]))
  BY DEF Carries, Stream
<1>3. frame[i].id = c /\ c \in Captures /\ frame[i].regions = <<c>>
  BY <1>1, <1>2, FrameCarried
<1>4. /\ pending'[i] = Enqueue(pending[i], <<c>>) /\ frame'[i] = NoFrame
      /\ pending[i] \in Seq(Seq(Captures))
  BY <1>1, <1>3, Typed DEF EndFrame
<1>5. LastPdu(frame'[i]) = Item("end", 0) /\ FrameShape(frame'[i])
  BY <1>4 DEF LastPdu, NoFrame, FrameShape
<1>6. Alike(LastPdu(frame'[i]), w[1])
  BY <1>1, <1>5 DEF Alike, Item
<1>7. c = f /\ f < m + Ahead /\ Stream(Tail(w), LastPdu(frame'[i]), m, f + 1)
  BY <1>1, <1>2, <1>6, ReadPicture
<1>8. Waiting(pending'[i], m, f + 1)
  <2>1. <<f>> \in Seq(Captures) /\ f < m + PendingLimit
    BY <1>3, <1>7, IngestBounds DEF Orderly
  <2> QED BY <1>4, <1>7, <2>1, OneMoreWaits DEF Carries
<1>9. conn = i => m <= named + 1 /\ f + 1 <= framed + 1
  <2>1. 1 \in 1 .. Len(w)
    BY <1>1, TailAt
  <2>2. ASSUME conn = i PROVE m <= named + 1 /\ c <= framed
    BY <1>1, <2>1, <2>2 DEF Carries, AllSent, Covers
  <2> QED BY <1>7, <2>2, Typed
<1>10. w[1].kind # "meta" /\ c < f + 1 /\ m <= m /\ f <= f + 1 /\ f + 1 \in Nat
       /\ st'[i] \notin {"put", "row"}
  BY <1>1, <1>7
<1> QED BY <1>1, <1>5, <1>6, <1>7, <1>8, <1>9, <1>10, CarriesAfterRead

\* A record finds the picture that was taken with it.
LEMMA TakeMetaCarries ==
  ASSUME TypeInv, DueOnce, NEW i \in Conns, NEW m \in Nat, NEW f \in Nat, Carries(i, m, f),
         FrameShape(frame[i]), TakeMeta(i)
  PROVE  /\ Carries(i, m + 1, f)' /\ FrameShape(frame'[i])
         /\ wire[i][1].cap = m /\ m \in Captures
         /\ hand' = [hand EXCEPT ![i] = [cap |-> m, picture |-> <<m>>]]
         /\ st' = [st EXCEPT ![i] = "put"]
<1> DEFINE w == wire[i]
<1>1. /\ w \in Seq(Items) /\ w # <<>> /\ Head(w) = w[1] /\ w[1].kind = "meta"
      /\ wire'[i] = Tail(w) /\ UNCHANGED agent /\ frame' = frame
  BY Typed, TailAt DEF TakeMeta, InLoop, Receive, Arrives
<1>2. Stream(w, LastPdu(frame[i]), m, f) /\ Unbroken(w, LastPdu(frame[i]))
  BY DEF Carries, Stream
<1>3. LastPdu(frame'[i]) = Item("end", 0)
  BY <1>1, <1>2, NoFrameBegun
<1>4. Alike(LastPdu(frame'[i]), w[1])
  BY <1>1, <1>3 DEF Alike, Item
<1>5. w[1].cap = m /\ m < f /\ Stream(Tail(w), LastPdu(frame'[i]), m + 1, f)
  BY <1>1, <1>2, <1>4, ReadMeta
<1>6. pending[i] # <<>> /\ Head(pending[i]) = <<m>> /\ Waiting(Tail(pending[i]), m + 1, f)
  <2>1. pending[i] \in Seq(Seq(Captures)) /\ Waiting(pending[i], m, f)
    BY Typed DEF Carries
  <2> QED BY <1>5, <2>1, OneLessWaits
<1>7. /\ hand' = [hand EXCEPT ![i] = [cap |-> m, picture |-> <<m>>]]
      /\ st' = [st EXCEPT ![i] = "put"] /\ pending' = [pending EXCEPT ![i] = Tail(pending[i])]
  BY <1>1, <1>5, <1>6 DEF TakeMeta
<1>8. hand'[i].cap = m /\ Waiting(pending'[i], m + 1, f)
  BY <1>6, <1>7, Typed
<1>9. m \in Captures
  BY <1>1, <1>5, HeadNamed DEF TakeMeta
<1>10. m <= named
  <2>1. 1 \in 1 .. Len(w) /\ MetaAt(w, 1, m)
    BY <1>1, <1>5, TailAt DEF MetaAt
  <2> QED BY <1>9, <2>1 DEF DueOnce, Due
<1>11. conn = i => m + 1 <= named + 1 /\ f <= framed + 1
  BY <1>10, Typed DEF Carries, AllSent, Covers
<1>12. /\ w[1].kind \notin {"end", "garbled"} /\ m < m + 1 /\ m <= m + 1 /\ f <= f
       /\ m + 1 \in Nat
  BY <1>1
<1>13. Carries(i, m + 1, f)'
  BY <1>1, <1>4, <1>5, <1>8, <1>11, <1>12, CarriesAfterRead
<1> QED BY <1>1, <1>5, <1>7, <1>9, <1>13

-----------------------------------------------------------------------------
(* The steps of the agent *)

\* What is in w is in w with an item more.
LEMMA StillThere ==
  ASSUME NEW w \in Seq(Items), NEW it \in Items
  PROVE  /\ Append(w, it) \in Seq(Items) /\ Len(Append(w, it)) = Len(w) + 1 /\ Len(w) \in Nat
         /\ Append(w, it)[Len(w) + 1] = it /\ Len(w) + 1 \in 1 .. Len(Append(w, it))
         /\ \A k \in 1 .. Len(w) : Append(w, it)[k] = w[k] /\ k \in 1 .. Len(Append(w, it))
         /\ \A k \in 1 .. Len(Append(w, it)) : k \in 1 .. Len(w) \/ k = Len(w) + 1
         /\ \A last : Prev(Append(w, it), last, Len(Append(w, it)) + 1) = it
  BY DEF Prev

LEMMA CoversOther ==
  ASSUME NEW w \in Seq(Items), NEW it \in Items, it.kind \notin {"meta", "end", "garbled"},
         NEW m \in Nat, NEW f \in Nat, NEW a \in Nat, NEW b \in Nat, Covers(w, m, f, a, b)
  PROVE  Covers(Append(w, it), m, f, a, b)
<1> DEFINE v == Append(w, it)
<1>1. \A k \in 1 .. Len(w) : v[k] = w[k] /\ k \in 1 .. Len(v)
  BY StillThere
<1>2. \A k \in 1 .. Len(v) : k \in 1 .. Len(w) \/ v[k] = it
  BY StillThere
<1> HIDE DEF v
<1>3. \A c : \A k \in 1 .. Len(w) :
        (MetaAt(w, k, c) => MetaAt(v, k, c)) /\ (DoneAt(w, k, c) => DoneAt(v, k, c))
  BY <1>1 DEF MetaAt, DoneAt
<1>4. \A c \in m .. a : \E n \in 1 .. Len(v) : MetaAt(v, n, c)
  BY <1>1, <1>3 DEF Covers
<1>5. \A c \in f .. b : \E n \in 1 .. Len(v) : DoneAt(v, n, c)
  BY <1>1, <1>3 DEF Covers
<1>6. \A n \in 1 .. Len(v) :
        /\ v[n].kind = "meta" => v[n].cap <= a
        /\ v[n].kind \in {"end", "garbled"} => v[n].cap <= b
  BY <1>1, <1>2 DEF Covers
<1> QED BY <1>4, <1>5, <1>6 DEF Covers, v

\* The next record fits if its picture was sent.
LEMMA AddMeta ==
  ASSUME NEW w \in Seq(Items), NEW last, NEW m \in Nat, NEW f \in Nat,
         NEW a \in Nat, NEW b \in Nat, Stream(w, last, m, f), Covers(w, m, f, a, b),
         NEW it \in Items, it.kind = "meta", it.cap = a + 1, a < b,
         Follows(Prev(w, last, Len(w) + 1), it)
  PROVE  Stream(Append(w, it), last, m, f) /\ Covers(Append(w, it), m, f, a + 1, b)
<1> DEFINE v == Append(w, it)
<1>1. /\ \A k \in 1 .. Len(w) : v[k] = w[k] /\ k \in 1 .. Len(v)
      /\ \A k \in 1 .. Len(v) : k \in 1 .. Len(w) \/ v[k] = it
      /\ Len(w) + 1 \in 1 .. Len(v) /\ v[Len(w) + 1] = it
  BY StillThere
<1>2. Fits(w, last, it, m, f)
  <2>1. m <= a + 1 /\ f <= b + 1
    BY DEF Covers
  <2>2. a + 1 = m \/ \E k \in 1 .. Len(w) : MetaAt(w, k, a)
    BY <2>1 DEF Covers
  <2>3. a + 1 < f \/ \E k \in 1 .. Len(w) : DoneAt(w, k, a + 1)
    BY <2>1 DEF Covers
  <2>4. \A k \in 1 .. Len(w) : w[k].kind = "meta" => w[k].cap < a + 1
    <3> SUFFICES ASSUME NEW k \in 1 .. Len(w), w[k].kind = "meta" PROVE w[k].cap < a + 1
      OBVIOUS
    <3>1. w[k].cap \in Nat
      BY CapIsNat
    <3> QED BY <3>1 DEF Covers
  <2>5. it.cap - 1 = a
    OBVIOUS
  <2> QED BY <2>1, <2>2, <2>3, <2>4, <2>5 DEF Fits
<1>3. Stream(v, last, m, f)
  BY <1>2, AddItem
<1> HIDE DEF v
<1>4. \A c : \A k \in 1 .. Len(w) :
        (MetaAt(w, k, c) => MetaAt(v, k, c)) /\ (DoneAt(w, k, c) => DoneAt(v, k, c))
  BY <1>1 DEF MetaAt, DoneAt
<1>5. ASSUME NEW c \in m .. a + 1 PROVE \E n \in 1 .. Len(v) : MetaAt(v, n, c)
  <2>1. CASE c = a + 1
    BY <1>1, <2>1 DEF MetaAt
  <2>2. CASE c # a + 1
    <3>1. c \in m .. a
      BY <2>2
    <3> QED BY <1>1, <1>4, <3>1 DEF Covers
  <2> QED BY <2>1, <2>2
<1>6. \A c \in f .. b : \E n \in 1 .. Len(v) : DoneAt(v, n, c)
  BY <1>1, <1>4 DEF Covers
<1>7. ASSUME NEW n \in 1 .. Len(v)
      PROVE  /\ v[n].kind = "meta" => v[n].cap <= a + 1
             /\ v[n].kind \in {"end", "garbled"} => v[n].cap <= b
  <2>1. CASE n \in 1 .. Len(w)
    <3>1. w[n].cap \in Nat
      BY <2>1, CapIsNat
    <3>2. v[n] = w[n] /\ \A x \in Nat : x <= a => x <= a + 1
      BY <1>1, <2>1
    <3> QED BY <2>1, <3>1, <3>2 DEF Covers
  <2>2. CASE n \notin 1 .. Len(w)
    BY <1>1, <2>2
  <2> QED BY <2>1, <2>2
<1>8. m <= a + 1 + 1 /\ f <= b + 1
  BY DEF Covers
<1> QED BY <1>3, <1>5, <1>6, <1>7, <1>8 DEF Covers, v

\* The next picture fits if it is not too far ahead.
LEMMA AddDone ==
  ASSUME NEW w \in Seq(Items), NEW last, NEW m \in Nat, NEW f \in Nat,
         NEW a \in Nat, NEW b \in Nat, Stream(w, last, m, f), Covers(w, m, f, a, b),
         NEW it \in Items, it.kind \in {"end", "garbled"}, it.cap = b + 1, b < a + Ahead,
         Follows(Prev(w, last, Len(w) + 1), it)
  PROVE  Stream(Append(w, it), last, m, f) /\ Covers(Append(w, it), m, f, a, b + 1)
<1> DEFINE v == Append(w, it)
<1>1. /\ \A k \in 1 .. Len(w) : v[k] = w[k] /\ k \in 1 .. Len(v)
      /\ \A k \in 1 .. Len(v) : k \in 1 .. Len(w) \/ v[k] = it
      /\ Len(w) + 1 \in 1 .. Len(v) /\ v[Len(w) + 1] = it
  BY StillThere
<1>2. Fits(w, last, it, m, f)
  <2>1. m <= a + 1 /\ f <= b + 1
    BY DEF Covers
  <2>2. b + 1 = f \/ \E k \in 1 .. Len(w) : DoneAt(w, k, b)
    BY <2>1 DEF Covers
  <2>3. b + 1 < m + Ahead \/ \E k \in 1 .. Len(w) : MetaAt(w, k, (b + 1) - Ahead)
    <3>1. CASE ~(b + 1 < m + Ahead)
      <4>1. (b + 1) - Ahead \in m .. a
        BY <3>1, IngestBounds
      <4> QED BY <4>1 DEF Covers
    <3> QED BY <3>1
  <2>4. \A k \in 1 .. Len(w) : w[k].kind \in {"end", "garbled"} => w[k].cap < b + 1
    <3> SUFFICES ASSUME NEW k \in 1 .. Len(w), w[k].kind \in {"end", "garbled"}
                 PROVE  w[k].cap < b + 1
      OBVIOUS
    <3>1. w[k].cap \in Nat
      BY CapIsNat
    <3> QED BY <3>1 DEF Covers
  <2>5. it.cap - 1 = b
    OBVIOUS
  <2> QED BY <2>1, <2>2, <2>3, <2>4, <2>5 DEF Fits
<1>3. Stream(v, last, m, f)
  BY <1>2, AddItem
<1> HIDE DEF v
<1>4. \A c : \A k \in 1 .. Len(w) :
        (MetaAt(w, k, c) => MetaAt(v, k, c)) /\ (DoneAt(w, k, c) => DoneAt(v, k, c))
  BY <1>1 DEF MetaAt, DoneAt
<1>5. ASSUME NEW c \in f .. b + 1 PROVE \E n \in 1 .. Len(v) : DoneAt(v, n, c)
  <2>1. CASE c = b + 1
    BY <1>1, <2>1 DEF DoneAt
  <2>2. CASE c # b + 1
    <3>1. c \in f .. b
      BY <2>2
    <3> QED BY <1>1, <1>4, <3>1 DEF Covers
  <2> QED BY <2>1, <2>2
<1>6. \A c \in m .. a : \E n \in 1 .. Len(v) : MetaAt(v, n, c)
  BY <1>1, <1>4 DEF Covers
<1>7. ASSUME NEW n \in 1 .. Len(v)
      PROVE  /\ v[n].kind = "meta" => v[n].cap <= a
             /\ v[n].kind \in {"end", "garbled"} => v[n].cap <= b + 1
  <2>1. CASE n \in 1 .. Len(w)
    <3>1. w[n].cap \in Nat
      BY <2>1, CapIsNat
    <3>2. v[n] = w[n] /\ \A x \in Nat : x <= b => x <= b + 1
      BY <1>1, <2>1
    <3> QED BY <2>1, <3>1, <3>2 DEF Covers
  <2>2. CASE n \notin 1 .. Len(w)
    BY <1>1, <2>2
  <2> QED BY <2>1, <2>2
<1>8. m <= a + 1 /\ f <= b + 1 + 1
  BY DEF Covers
<1> QED BY <1>3, <1>5, <1>6, <1>7, <1>8 DEF Covers, v

\* Connection i has the new items on its wire, and the rest is as it was.
LEMMA CarriesAfterSend ==
  ASSUME NEW i \in Conns, NEW m \in Nat, NEW f \in Nat, Carries(i, m, f), conn' = i,
         UNCHANGED <<st, session>>,
         Stream(wire'[i], LastPdu(frame[i]), m, f),
         Covers(wire'[i], m, f, named', framed'),
         Prev(wire'[i], LastPdu(frame[i]), Len(wire'[i]) + 1).kind \notin {"start", "region"}
  PROVE  Carries(i, m, f)'
  BY DEF Carries, AllSent, Covers, Waiting, session

LEMMA SendMetaCarries ==
  ASSUME TypeInv, SendMeta, NEW m \in Nat, NEW f \in Nat, Carries(conn, m, f)
  PROVE  Carries(conn, m, f)'
<1> DEFINE w == wire[conn]
           it == Item("meta", named + 1)
           last == LastPdu(frame[conn])
<1>1. /\ conn \in Conns /\ w \in Seq(Items) /\ named \in Nat /\ framed \in Nat
      /\ named < framed /\ named' = named + 1 /\ UNCHANGED <<conn, framed, st, session>>
      /\ wire'[conn] = w \o <<it>>
  <2>1. conn # 0 /\ conn \in Nat /\ conn <= NumConns
    BY Typed, IngestBounds DEF SendMeta, CanSend
  <2>2. conn \in Conns
    BY <2>1, IngestBounds DEF Conns
  <2>3. wire' = [wire EXCEPT ![conn] = @ \o <<it>>]
    BY DEF SendMeta, Send
  <2>4. wire \in [Conns -> Seq(Items)] /\ named \in Nat /\ framed \in Nat
    BY Typed
  <2>5. named < framed /\ named' = named + 1 /\ UNCHANGED <<conn, framed, st, session>>
    BY DEF SendMeta
  <2> QED BY <2>2, <2>3, <2>4, <2>5
<1>2. it \in Items /\ it.kind = "meta" /\ it.cap = named + 1
  BY <1>1, Typed, IngestBounds DEF Item, Items, ItemKinds
<1>3. wire'[conn] = Append(w, it)
  BY <1>1, <1>2
<1>4. Stream(w, last, m, f) /\ AllSent(w, last, m, f)
  BY DEF Carries
<1>5. Follows(Prev(w, last, Len(w) + 1), it)
  BY <1>2, <1>4 DEF AllSent, Follows
<1>6. Stream(Append(w, it), last, m, f) /\ Covers(Append(w, it), m, f, named + 1, framed)
  BY <1>1, <1>2, <1>4, <1>5, AddMeta DEF AllSent
<1>7. Prev(Append(w, it), last, Len(Append(w, it)) + 1) = it
  BY <1>1, <1>2, StillThere
<1> QED BY <1>1, <1>2, <1>3, <1>6, <1>7, CarriesAfterSend

LEMMA SendFrameCarries ==
  ASSUME TypeInv, SendFrame, NEW m \in Nat, NEW f \in Nat, Carries(conn, m, f)
  PROVE  Carries(conn, m, f)'
<1> DEFINE w == wire[conn]
           c == framed + 1
           last == LastPdu(frame[conn])
<1>1. /\ conn \in Conns /\ w \in Seq(Items) /\ named \in Nat /\ framed \in Nat
      /\ framed < named + Ahead /\ framed' = c /\ UNCHANGED <<conn, named, st, session>>
      /\ c \in Captures /\ conn \in DOMAIN wire
  <2>1. conn # 0 /\ conn \in Nat /\ conn <= NumConns
    BY Typed, IngestBounds DEF SendFrame, CanSend
  <2>2. conn \in Conns
    BY <2>1, IngestBounds DEF Conns
  <2>3. wire \in [Conns -> Seq(Items)] /\ named \in Nat /\ framed \in Nat
    BY Typed
  <2>4. /\ framed < NumCaptures /\ framed < named + Ahead /\ framed' = framed + 1
        /\ UNCHANGED <<conn, named, st, session>>
    BY DEF SendFrame
  <2>5. c \in Captures
    BY <2>3, <2>4, IngestBounds DEF Captures
  <2> QED BY <2>2, <2>3, <2>4, <2>5
<1>2. \A k \in {"start", "region", "end", "garbled"} :
        Item(k, c) \in Items /\ Item(k, c).kind = k /\ Item(k, c).cap = c
  BY <1>1, IngestBounds DEF Item, Items, ItemKinds, Captures
<1>3. Stream(w, last, m, f) /\ AllSent(w, last, m, f)
  BY DEF Carries
<1>4. \/ wire'[conn] = w \o <<Item("start", c), Item("region", c), Item("end", c)>>
      \/ wire'[conn] = w \o <<Item("garbled", c)>>
  BY <1>1 DEF SendFrame, Send
<1> HIDE DEF c
<1>5. CASE wire'[conn] = w \o <<Item("garbled", c)>>
  <2> DEFINE it == Item("garbled", c)
  <2>1. it \in Items /\ it.kind = "garbled" /\ it.cap = framed + 1
    BY <1>2 DEF c
  <2>2. wire'[conn] = Append(w, it)
    BY <1>1, <1>5, <2>1
  <2>3. Follows(Prev(w, last, Len(w) + 1), it)
    BY <1>3, <2>1 DEF AllSent, Follows
  <2>4. Stream(Append(w, it), last, m, f) /\ Covers(Append(w, it), m, f, named, framed + 1)
    BY <1>1, <1>3, <2>1, <2>3, AddDone DEF AllSent
  <2>5. Prev(Append(w, it), last, Len(Append(w, it)) + 1) = it
    BY <1>1, <2>1, StillThere
  <2> QED BY <1>1, <2>1, <2>2, <2>4, <2>5, CarriesAfterSend DEF c
<1>6. CASE wire'[conn] = w \o <<Item("start", c), Item("region", c), Item("end", c)>>
  <2> DEFINE s == Item("start", c)
             r == Item("region", c)
             e == Item("end", c)
             w1 == Append(w, s)
             w2 == Append(w1, r)
             w3 == Append(w2, e)
  <2>1. /\ s \in Items /\ s.kind = "start" /\ s.cap = c
        /\ r \in Items /\ r.kind = "region" /\ r.cap = c
        /\ e \in Items /\ e.kind = "end" /\ e.cap = c
    BY <1>2
  <2> HIDE DEF s, r, e
  <2>2. w1 \in Seq(Items) /\ w2 \in Seq(Items) /\ w3 \in Seq(Items)
    BY <1>1, <2>1
  <2>3. wire'[conn] = w3
    <3>1. w \o <<s, r, e>> = w3
      BY <1>1, <2>1
    <3> QED BY <1>6, <3>1 DEF s, r, e
  <2>4. /\ Prev(w1, last, Len(w1) + 1) = s /\ Prev(w2, last, Len(w2) + 1) = r
        /\ Prev(w3, last, Len(w3) + 1) = e
    <3>1. Prev(w1, last, Len(w1) + 1) = s
      BY <1>1, <2>1, StillThere
    <3>2. Prev(w2, last, Len(w2) + 1) = r
      <4> HIDE DEF w1
      <4> QED BY <2>1, <2>2, StillThere
    <3>3. Prev(w3, last, Len(w3) + 1) = e
      <4> HIDE DEF w2
      <4> QED BY <2>1, <2>2, StillThere
    <3> QED BY <3>1, <3>2, <3>3
  <2>5. Stream(w1, last, m, f) /\ Covers(w1, m, f, named, framed)
    <3>1. Follows(Prev(w, last, Len(w) + 1), s)
      BY <1>3, <2>1 DEF AllSent, Follows
    <3>2. Fits(w, last, s, m, f)
      BY <2>1, <3>1 DEF Fits
    <3> QED BY <1>1, <1>3, <2>1, <3>2, AddItem, CoversOther DEF AllSent
  <2>6. Stream(w2, last, m, f) /\ Covers(w2, m, f, named, framed)
    <3>1. Follows(Prev(w1, last, Len(w1) + 1), r)
      BY <2>1, <2>4 DEF Follows
    <3>2. Fits(w1, last, r, m, f)
      BY <2>1, <3>1 DEF Fits
    <3> HIDE DEF w1
    <3> QED BY <1>1, <2>1, <2>2, <2>5, <3>2, AddItem, CoversOther
  <2>7. Stream(w3, last, m, f) /\ Covers(w3, m, f, named, c)
    <3>1. Follows(Prev(w2, last, Len(w2) + 1), e)
      BY <2>1, <2>4 DEF Follows
    <3>2. e.cap = framed + 1
      BY <2>1 DEF c
    <3> HIDE DEF w2
    <3> QED BY <1>1, <2>1, <2>2, <2>6, <3>1, <3>2, AddDone DEF c
  <2> HIDE DEF w3
  <2> QED BY <1>1, <2>1, <2>3, <2>4, <2>7, CarriesAfterSend
<1> QED BY <1>4, <1>5, <1>6

-----------------------------------------------------------------------------
(* The streams and the frames stay in order *)

\* Connection j is left alone.
Same(j) ==
  /\ wire'[j] = wire[j] /\ frame'[j] = frame[j] /\ pending'[j] = pending[j]
  /\ hand'[j] = hand[j] /\ st'[j] = st[j]

\* Connection i is at its end.
Ended(i) ==
  /\ st'[i] = "closed" /\ wire'[i] = <<>>
  /\ frame'[i] = NoFrame /\ pending'[i] = <<>>

LEMMA CloseEnds ==
  ASSUME TypeInv, NEW i \in Conns, Close(i)
  PROVE  Ended(i) /\ \A j \in Conns \ {i} : Same(j)
BY Typed DEF Close, Drop, Ended, Same

\* A step of session i concerns nothing of another one.
LEMMA OthersSame ==
  ASSUME TypeInv, NEW i \in Conns, SessionStep(i) \/ StorageError(i)
  PROVE  UNCHANGED agent /\ \A j \in Conns \ {i} : Same(j)
<1>1. UNCHANGED agent
  BY DEF SessionStep, StorageError, Admission, Pictures, Metadata, Departure,
         Admit, TurnAway, Greet, Reject, BeginFrame, AddRegion, EndFrame, Undecodable,
         TakeMeta, PutObject, InsertRow, HangUp, HeartbeatTick
<1>2. CASE Reject(i) \/ Undecodable(i) \/ StorageError(i) \/ HangUp(i)
  BY <1>1, <1>2, CloseEnds DEF Reject, Undecodable, StorageError, HangUp
<1>3. CASE HeartbeatTick(i)
  BY <1>1, <1>3, CloseEnds DEF HeartbeatTick, Same, net
<1>4. CASE Admit(i) \/ TurnAway(i) \/ PutObject(i) \/ InsertRow(i)
  BY <1>1, <1>4, Typed DEF Admit, TurnAway, PutObject, InsertRow, Drop, Same, net, session
<1>5. CASE Greet(i) \/ BeginFrame(i) \/ AddRegion(i) \/ EndFrame(i)
  BY <1>1, <1>5, Typed
  DEF Greet, BeginFrame, AddRegion, EndFrame, InLoop, Receive, Same, session
<1>6. CASE TakeMeta(i)
  BY <1>1, <1>6, Typed DEF TakeMeta, InLoop, Receive, Same
<1> QED BY <1>2, <1>3, <1>4, <1>5, <1>6
        DEF SessionStep, Admission, Pictures, Metadata, Departure

LEMMA SessionStreams ==
  ASSUME TypeInv, Orderly, LogInv, NEW i \in Conns, SessionStep(i) \/ StorageError(i)
  PROVE  Streams' /\ Frames'
<1>0. Streams /\ Frames /\ DueOnce /\ st \in [Conns -> States]
  BY Typed DEF LogInv
<1>1. ASSUME NEW j \in Conns \ {i}
      PROVE  /\ st'[j] \in Alive => \E m, f \in Nat : Carries(j, m, f)'
             /\ FrameShape(frame[j])'
             /\ st'[j] \notin Serving => frame'[j] = NoFrame /\ pending'[j] = <<>>
  <2>1. Same(j) /\ UNCHANGED agent
    BY OthersSame
  <2>2. \A m, f \in Nat : Carries(j, m, f) => Carries(j, m, f)'
    BY <2>1, CarriesOn DEF Same
  <2>3. st'[j] \in Alive => \E m, f \in Nat : Carries(j, m, f)'
    BY <1>0, <2>1, <2>2 DEF Streams, Same
  <2> QED BY <1>0, <2>1, <2>3 DEF Same, Frames
<1>2. SUFFICES /\ st'[i] \in Alive => \E m, f \in Nat : Carries(i, m, f)'
               /\ FrameShape(frame[i])'
               /\ st'[i] \notin Serving => frame'[i] = NoFrame /\ pending'[i] = <<>>
  BY <1>1 DEF Streams, Frames
<1>3. CASE Ended(i)
  BY <1>3 DEF Ended, Alive, FrameShape
<1>4. FrameShape(frame[i]) /\ (st[i] \notin Serving => frame[i] = NoFrame /\ pending[i] = <<>>)
  BY <1>0 DEF Frames
<1>5. CASE /\ UNCHANGED agent /\ st[i] \in Alive
           /\ wire'[i] = wire[i] /\ frame'[i] = frame[i] /\ pending'[i] = pending[i]
           /\ st'[i] \in {"put", "row"} => st[i] \in {"put", "row"} /\ hand'[i] = hand[i]
           /\ st'[i] \notin Serving => st[i] \notin Serving
  <2>1. PICK m \in Nat, f \in Nat : Carries(i, m, f)
    BY <1>0, <1>5 DEF Streams
  <2>2. Carries(i, m, f)'
    BY <1>5, <2>1, CarriesOn
  <2> QED BY <1>4, <1>5, <2>2
<1>6. CASE Reject(i) \/ Undecodable(i) \/ StorageError(i) \/ HangUp(i)
  BY <1>3, <1>6, CloseEnds DEF Reject, Undecodable, StorageError, HangUp
<1>7. CASE HeartbeatTick(i)
  <2>1. st[i] \in Alive /\ UNCHANGED agent
    BY <1>7 DEF HeartbeatTick, Alive, States
  <2>2. CASE Close(i)
    BY <1>3, <2>2, CloseEnds
  <2>3. CASE UNCHANGED <<net, st, count, frame, pending, hand>>
    BY <1>5, <2>1, <2>3 DEF net
  <2> QED BY <1>7, <2>2, <2>3 DEF HeartbeatTick
<1>8. CASE Admit(i) \/ PutObject(i) \/ InsertRow(i)
  BY <1>0, <1>5, <1>8 DEF Admit, PutObject, InsertRow, Alive, States, Serving, net, session
<1>9. CASE TurnAway(i)
  BY <1>0, <1>3, <1>4, <1>9, Typed DEF TurnAway, Drop, Ended, Serving, session
<1>10. ASSUME Greet(i) \/ BeginFrame(i) \/ AddRegion(i) \/ EndFrame(i) \/ TakeMeta(i)
       PROVE  st[i] \in Alive /\ st'[i] \in Serving
  BY <1>0, <1>10
  DEF Greet, BeginFrame, AddRegion, EndFrame, TakeMeta, InLoop, Alive, States, Serving
<1>11. CASE Greet(i) \/ BeginFrame(i) \/ AddRegion(i)
  BY <1>0, <1>4, <1>10, <1>11, ReadFrameCarries DEF Streams
<1>12. CASE EndFrame(i)
  <2>1. PICK m \in Nat, f \in Nat : Carries(i, m, f)
    BY <1>0, <1>10, <1>12 DEF Streams
  <2>2. Carries(i, m, f + 1)' /\ FrameShape(frame'[i]) /\ f + 1 \in Nat
    BY <1>4, <1>12, <2>1, EndFrameCarries
  <2> QED BY <1>10, <1>12, <2>2
<1>13. CASE TakeMeta(i)
  <2>1. PICK m \in Nat, f \in Nat : Carries(i, m, f)
    BY <1>0, <1>10, <1>13 DEF Streams
  <2>2. Carries(i, m + 1, f)' /\ FrameShape(frame'[i]) /\ m + 1 \in Nat
    BY <1>0, <1>4, <1>13, <2>1, TakeMetaCarries
  <2> QED BY <1>10, <1>13, <2>2
<1> QED BY <1>6, <1>7, <1>8, <1>9, <1>11, <1>12, <1>13
        DEF SessionStep, Admission, Pictures, Metadata, Departure

\* A connection of which nothing changes, the agent being elsewhere.
LEMMA CarriesElsewhere ==
  ASSUME NEW j \in Conns, NEW m \in Nat, NEW f \in Nat, Carries(j, m, f), Same(j), conn' # j
  PROVE  Carries(j, m, f)'
  BY DEF Carries, Same, Waiting

LEMMA NoMore ==
  ASSUME NEW w \in Seq(Items), NEW last, NEW m \in Nat,
         \A n \in 1 .. Len(w) : w[n].kind \in {"goodHello", "badHello"},
         last.kind \notin {"start", "region"}
  PROVE  Stream(w, last, m, m)
<1>1. Unbroken(w, last)
  <2> SUFFICES ASSUME NEW n \in 1 .. Len(w) PROVE Follows(Prev(w, last, n), w[n])
    BY DEF Unbroken
  <2>1. n # 1 => n - 1 \in 1 .. Len(w)
    OBVIOUS
  <2>2. Prev(w, last, n).kind \notin {"start", "region"}
    BY <2>1 DEF Prev
  <2> QED BY <2>2 DEF Follows
<1> QED BY <1>1 DEF Stream, MetasFrom, PicturesFrom, MetaAfterPicture, NotFarAhead

LEMMA AgentStreams ==
  ASSUME TypeInv, Orderly, LogInv, Agent \/ Cut \/ Crash
  PROVE  Streams' /\ Frames' /\ (conn' = 0 => named' = framed')
<1>0. Streams /\ Frames /\ (conn = 0 => named = framed)
  BY DEF LogInv
<1>t. /\ st \in [Conns -> States] /\ wire \in [Conns -> Seq(Items)]
      /\ conn \in Nat /\ conn <= NumConns /\ opened \in Nat /\ named \in Nat
      /\ \A i \in Conns : i > opened => st[i] = "none"
      /\ 0 \notin Conns
  BY Typed, IngestBounds DEF Conns
<1>1. ASSUME NEW i \in Conns, \A j \in Conns \ {i} : Same(j) /\ conn' # j, conn' = i => conn = i,
             frame'[i] = frame[i], pending'[i] = pending[i], st'[i] = st[i],
             \A m, f \in Nat : Carries(i, m, f) => Carries(i, m, f)'
      PROVE  Streams' /\ Frames'
  <2>1. Streams'
    <3> SUFFICES ASSUME NEW j \in Conns, st'[j] \in Alive
                 PROVE  \E m, f \in Nat : Carries(j, m, f)'
      BY DEF Streams
    <3>1. PICK m \in Nat, f \in Nat : Carries(j, m, f)
      BY <1>0, <1>1 DEF Streams, Same
    <3>2. Carries(j, m, f)'
      BY <1>1, <3>1, CarriesElsewhere
    <3> QED BY <3>2
  <2>2. Frames'
    BY <1>0, <1>1 DEF Frames, Same
  <2> QED BY <2>1, <2>2
<1>2. CASE Connect
  <2>a. PICK i \in Conns : i = opened + 1
    BY <1>t, <1>2, IngestBounds DEF Connect, Conns
  <2>b. PICK m \in Nat : m = named + 1
    BY <1>t
  <2>1. /\ conn = 0 /\ conn' = i /\ named' = named /\ framed' = framed
        /\ st' = [st EXCEPT ![i] = "accepted"] /\ UNCHANGED session
    BY <1>2, <2>a DEF Connect
  <2>2. PICK it \in {Item("goodHello", 0), Item("badHello", 0)} :
          wire' = [wire EXCEPT ![i] = <<it>>]
    BY <1>2, <2>a DEF Connect
  <2>3. it \in Items /\ it.kind \in {"goodHello", "badHello"}
    BY <2>2, IngestBounds DEF Item, Items, ItemKinds
  <2>4. /\ wire'[i] = <<it>> /\ wire'[i] \in Seq(Items) /\ Len(wire'[i]) = 1
        /\ \A n \in 1 .. Len(wire'[i]) : wire'[i][n].kind \in {"goodHello", "badHello"}
    BY <1>t, <2>1, <2>2, <2>3
  <2>5. frame'[i] = NoFrame /\ pending'[i] = <<>>
    <3>1. st[i] \notin Serving
      BY <1>t, <2>a DEF Serving
    <3> QED BY <1>0, <2>1, <3>1 DEF Frames, session
  <2>6. LastPdu(frame'[i]) = Item("end", 0) /\ Item("end", 0).kind = "end"
    BY <2>5 DEF LastPdu, NoFrame, Item
  <2>7. Stream(wire'[i], LastPdu(frame'[i]), m, m)
    BY <2>4, <2>6, NoMore
  <2>8. Waiting(pending'[i], m, m)
    BY <1>t, <2>5 DEF Waiting
  <2>9. /\ Covers(wire'[i], m, m, named', framed')
        /\ Prev(wire'[i], LastPdu(frame'[i]), Len(wire'[i]) + 1).kind \notin {"start", "region"}
    <3>1. \A c : c \notin m .. named
      BY <1>t, <2>b
    <3>2. Covers(wire'[i], m, m, named, framed)
      BY <1>0, <1>t, <2>b, <2>1, <2>4, <3>1 DEF Covers
    <3>3. Prev(wire'[i], LastPdu(frame'[i]), Len(wire'[i]) + 1) = wire'[i][1]
      BY <2>4 DEF Prev
    <3> QED BY <2>1, <2>4, <3>2, <3>3
  <2>10. Carries(i, m, m)'
    <3>1. st'[i] \notin {"put", "row"}
      BY <1>t, <2>1
    <3> QED BY <2>1, <2>7, <2>8, <2>9, <3>1 DEF Carries, AllSent, Covers, Waiting
  <2>11. \A j \in Conns \ {i} : Same(j) /\ conn' # j
    BY <1>t, <2>1, <2>2 DEF Same, session
  <2>12. Streams'
    <3> SUFFICES ASSUME NEW j \in Conns, st'[j] \in Alive
                 PROVE  \E k, f \in Nat : Carries(j, k, f)'
      BY DEF Streams
    <3>1. CASE j = i
      BY <2>10, <3>1
    <3>2. CASE j # i
      <4>1. PICK k \in Nat, f \in Nat : Carries(j, k, f)
        BY <1>0, <2>11, <3>2 DEF Streams, Same
      <4> QED BY <2>11, <3>2, <4>1, CarriesElsewhere
    <3> QED BY <3>1, <3>2
  <2>13. Frames'
    BY <1>0, <2>1, <2>5, <2>11 DEF Frames, Same, FrameShape
  <2> QED BY <1>t, <2>1, <2>12, <2>13
<1>3. CASE SendFrame \/ SendMeta
  <2>1. conn # 0 /\ conn \in Conns /\ conn' = conn
    BY <1>t, <1>3, IngestBounds DEF SendFrame, SendMeta, CanSend, Conns
  <2>2. \A j \in Conns \ {conn} : Same(j) /\ conn' # j
    BY <1>t, <1>3, <2>1 DEF SendFrame, SendMeta, Send, Same, session
  <2>3. frame' = frame /\ pending' = pending /\ st' = st
    BY <1>3 DEF SendFrame, SendMeta, session
  <2>4. \A m, f \in Nat : Carries(conn, m, f) => Carries(conn, m, f)'
    BY <1>3, SendFrameCarries, SendMetaCarries
  <2> QED BY <1>1, <1>t, <2>1, <2>2, <2>3, <2>4
<1>4. CASE Reconnect
  <2>1. conn' = 0 /\ named' = framed /\ framed' = framed /\ \A j \in Conns : Same(j)
    BY <1>4 DEF Reconnect, Disconnected, Same, net, session
  <2>2. Streams'
    <3> SUFFICES ASSUME NEW j \in Conns, st'[j] \in Alive
                 PROVE  \E m, f \in Nat : Carries(j, m, f)'
      BY DEF Streams
    <3>1. PICK m \in Nat, f \in Nat : Carries(j, m, f)
      BY <1>0, <2>1 DEF Streams, Same
    <3> QED BY <1>t, <2>1, <3>1, CarriesElsewhere
  <2> QED BY <1>0, <2>1, <2>2 DEF Frames, Same
<1>5. CASE Cut
  <2>1. conn \in Conns /\ conn' = 0 /\ named' = framed /\ framed' = framed
    BY <1>t, <1>5, IngestBounds DEF Cut, Conns, Disconnected, Orderly, StartedOver
  <2>2. PICK n \in 0 .. Len(wire[conn]) : wire' = [wire EXCEPT ![conn] = SubSeq(@, 1, n)]
    BY <1>5 DEF Cut
  <2>3. \A j \in Conns \ {conn} : Same(j) /\ conn' # j
    BY <1>t, <1>5, <2>1, <2>2 DEF Cut, Same, session
  <2>4. frame' = frame /\ pending' = pending /\ st' = st /\ hand' = hand
    BY <1>5 DEF Cut, session
  <2>5. ASSUME NEW m \in Nat, NEW f \in Nat, Carries(conn, m, f)
        PROVE  /\ Stream(wire'[conn], LastPdu(frame'[conn]), m, f)
               /\ Waiting(pending'[conn], m, f)
               /\ st'[conn] \in {"put", "row"} => hand'[conn].cap < m
    BY <1>t, <2>1, <2>2, <2>4, <2>5, CutStream DEF Carries
  <2>6. Streams'
    <3> SUFFICES ASSUME NEW j \in Conns, st'[j] \in Alive
                 PROVE  \E m, f \in Nat : Carries(j, m, f)'
      BY DEF Streams
    <3>1. PICK m \in Nat, f \in Nat : Carries(j, m, f)
      BY <1>0, <2>4 DEF Streams
    <3>2. CASE j # conn
      BY <2>3, <3>1, <3>2, CarriesElsewhere
    <3>3. CASE j = conn
      BY <1>t, <2>1, <2>5, <3>1, <3>3 DEF Carries, Waiting
    <3> QED BY <3>2, <3>3
  <2>7. Frames'
    BY <1>0, <2>4 DEF Frames
  <2> QED BY <2>1, <2>6, <2>7
<1>6. CASE Crash
  <2>1. /\ \A i \in Conns : st'[i] \in {"none", "closed"} /\ frame'[i] = NoFrame
                            /\ pending'[i] = <<>>
        /\ UNCHANGED agent
    BY <1>6 DEF Crash
  <2> QED BY <1>0, <2>1 DEF Streams, Frames, Alive, FrameShape, agent
<1> QED BY <1>2, <1>3, <1>4, <1>5, <1>6 DEF Agent

-----------------------------------------------------------------------------
(* Each capture is due once *)

LEMMA DueInTail ==
  ASSUME NEW w \in Seq(Items), w # <<>>, NEW c, NEW n \in 1 .. Len(Tail(w)), MetaAt(Tail(w), n, c)
  PROVE  \E k \in 1 .. Len(w) : MetaAt(w, k, c)
<1>1. n + 1 \in 1 .. Len(w) /\ Tail(w)[n] = w[n + 1]
  BY TailAt
<1>2. MetaAt(w, n + 1, c)
  BY <1>1 DEF MetaAt
<1> QED BY <1>1, <1>2

\* Nothing becomes due except by sending a record.
LEMMA DueInSession ==
  ASSUME TypeInv, Orderly, LogInv, NEW i \in Conns, SessionStep(i) \/ StorageError(i),
         NEW j \in Conns, NEW c, Due(j, c)'
  PROVE  Due(j, c)
<1>t. /\ st \in [Conns -> States] /\ wire \in [Conns -> Seq(Items)]
      /\ hand \in [Conns -> [cap : 0 .. NumCaptures, picture : Seq(Captures)]]
  BY Typed
<1>0. Streams /\ Frames /\ DueOnce
  BY DEF LogInv
<1>1. CASE j # i
  BY <1>1, OthersSame DEF Same, Due, InHandOf
<1>2. CASE j = i /\ Ended(i)
  BY <1>2 DEF Due, InHandOf, MetaAt, Ended
<1>3. ASSUME j = i, wire'[i] = wire[i],
             st'[i] \in {"put", "row"} => st[i] \in {"put", "row"} /\ hand'[i] = hand[i]
      PROVE  Due(j, c)
  BY <1>3 DEF Due, InHandOf
<1>4. ASSUME j = i, wire[i] # <<>>, wire'[i] = Tail(wire[i]),
             InHandOf(i, c)' => \E k \in 1 .. Len(wire[i]) : MetaAt(wire[i], k, c)
      PROVE  Due(j, c)
  BY <1>t, <1>4, DueInTail DEF Due
<1>5. CASE j = i /\ (Reject(i) \/ Undecodable(i) \/ StorageError(i) \/ HangUp(i))
  BY <1>2, <1>5, CloseEnds DEF Reject, Undecodable, StorageError, HangUp
<1>6. CASE j = i /\ HeartbeatTick(i)
  BY <1>2, <1>3, <1>6, CloseEnds DEF HeartbeatTick, net
<1>7. CASE j = i /\ (Admit(i) \/ PutObject(i) \/ InsertRow(i))
  BY <1>t, <1>3, <1>7 DEF Admit, PutObject, InsertRow, net, session
<1>8. CASE j = i /\ TurnAway(i)
  BY <1>t, <1>8 DEF TurnAway, Drop, Due, InHandOf, MetaAt
<1>9. CASE j = i /\ (Greet(i) \/ BeginFrame(i) \/ AddRegion(i) \/ EndFrame(i))
  <2>1. wire[i] # <<>> /\ wire'[i] = Tail(wire[i])
    BY <1>t, <1>9 DEF Greet, BeginFrame, AddRegion, EndFrame, InLoop, Receive, Arrives
  <2>2. ~InHandOf(i, c)'
    BY <1>t, <1>9 DEF Greet, BeginFrame, AddRegion, EndFrame, InLoop, InHandOf
  <2> QED BY <1>4, <1>9, <2>1, <2>2
<1>10. CASE j = i /\ TakeMeta(i)
  <2>1. wire[i] # <<>> /\ wire'[i] = Tail(wire[i]) /\ wire[i][1].kind = "meta"
    BY <1>t, <1>10, TailAt DEF TakeMeta, InLoop, Receive, Arrives
  <2>2. st[i] \in Alive
    BY <1>10 DEF TakeMeta, InLoop, Alive, States
  <2>3. PICK m \in Nat, f \in Nat : Carries(i, m, f)
    BY <1>0, <2>2 DEF Streams
  <2>4. wire[i][1].cap = m /\ hand'[i].cap = m
    BY <1>0, <1>t, <1>10, <2>3, TakeMetaCarries DEF Frames
  <2>5. 1 \in 1 .. Len(wire[i]) /\ MetaAt(wire[i], 1, m)
    BY <1>t, <2>1, <2>4, TailAt DEF MetaAt
  <2>6. InHandOf(i, c)' => c = m
    BY <2>4 DEF InHandOf
  <2> QED BY <1>4, <1>10, <2>1, <2>5, <2>6
<1> QED BY <1>1, <1>5, <1>6, <1>7, <1>8, <1>9, <1>10
        DEF SessionStep, Admission, Pictures, Metadata, Departure

LEMMA DueOfAgent ==
  ASSUME TypeInv, Orderly, LogInv, Agent \/ Cut \/ Crash, NEW j \in Conns, NEW c, Due(j, c)'
  PROVE  Due(j, c) \/ (SendMeta /\ j = conn /\ c = named + 1)
<1>t. /\ st \in [Conns -> States] /\ wire \in [Conns -> Seq(Items)]
      /\ conn \in Nat /\ conn <= NumConns /\ opened \in Nat
      /\ hand \in [Conns -> [cap : 0 .. NumCaptures, picture : Seq(Captures)]]
  <2>1. conn \in Nat /\ opened \in Nat /\ conn <= opened /\ opened <= NumConns
    BY Typed
  <2>2. conn <= NumConns
    BY <2>1, IngestBounds
  <2> QED BY <2>1, <2>2, Typed
<1>1. ASSUME wire'[j] = wire[j],
             st'[j] \in {"put", "row"} => st[j] \in {"put", "row"} /\ hand'[j] = hand[j]
      PROVE  Due(j, c)
  BY <1>1 DEF Due, InHandOf
<1>2. CASE Connect
  <2>1. ASSUME j = opened + 1 PROVE FALSE
    <3>1. PICK it \in {Item("goodHello", 0), Item("badHello", 0)} : wire'[j] = <<it>>
      BY <1>2, <1>t, <2>1 DEF Connect
    <3>2. it.kind # "meta" /\ st'[j] = "accepted"
      BY <1>2, <1>t, <2>1, <3>1 DEF Item, Connect
    <3> QED BY <3>1, <3>2 DEF Due, InHandOf, MetaAt
  <2>2. wire'[j] = wire[j] /\ st'[j] = st[j] /\ hand'[j] = hand[j]
    BY <1>2, <1>t, <2>1 DEF Connect, session
  <2> QED BY <1>1, <2>2
<1>3. CASE Reconnect
  BY <1>1, <1>3 DEF Reconnect, net, session
<1>4. CASE Crash
  BY <1>4 DEF Crash, Due, InHandOf, MetaAt
<1>5. ASSUME NEW more \in Seq(Items), conn \in Conns, wire' = [wire EXCEPT ![conn] = @ \o more],
             UNCHANGED <<st, hand>>
      PROVE  Due(j, c) \/ (j = conn /\ \E n \in 1 .. Len(more) : MetaAt(more, n, c))
  <2>1. CASE j # conn
    BY <1>t, <1>1, <1>5, <2>1
  <2>2. CASE j = conn /\ InHandOf(j, c)'
    BY <1>5, <2>2 DEF Due, InHandOf
  <2>3. CASE j = conn /\ \E n \in 1 .. Len(wire'[j]) : MetaAt(wire'[j], n, c)
    <3> DEFINE w == wire[j]
    <3>1. PICK n \in 1 .. Len(wire'[j]) : MetaAt(wire'[j], n, c)
      BY <2>3
    <3>2. w \in Seq(Items) /\ wire'[j] = w \o more
      BY <1>t, <1>5, <2>3
    <3>3. /\ n \in 1 .. Len(w) => wire'[j][n] = w[n]
          /\ n \notin 1 .. Len(w) =>
               n - Len(w) \in 1 .. Len(more) /\ wire'[j][n] = more[n - Len(w)]
      BY <1>5, <3>1, <3>2
    <3>4. CASE n \in 1 .. Len(w)
      BY <3>1, <3>3, <3>4 DEF Due, MetaAt
    <3>5. CASE n \notin 1 .. Len(w)
      <4>1. MetaAt(more, n - Len(w), c)
        BY <3>1, <3>3, <3>5 DEF MetaAt
      <4> QED BY <2>3, <3>3, <3>5, <4>1
    <3> QED BY <3>4, <3>5
  <2> QED BY <2>1, <2>2, <2>3 DEF Due
<1>6. conn # 0 => conn \in Conns
  BY <1>t, IngestBounds DEF Conns
<1>7. CASE SendMeta
  <2> DEFINE it == Item("meta", named + 1)
  <2>1. it \in Items /\ it.kind = "meta" /\ it.cap = named + 1
    <3>1. named \in Nat /\ framed \in Nat /\ framed <= NumCaptures /\ named < framed
      BY <1>7, Typed DEF SendMeta
    <3>2. named + 1 \in 0 .. NumCaptures
      BY <3>1, IngestBounds
    <3> QED BY <3>2 DEF Item, Items, ItemKinds
  <2>2. conn \in Conns /\ wire' = [wire EXCEPT ![conn] = @ \o <<it>>] /\ UNCHANGED <<st, hand>>
    BY <1>6, <1>7 DEF SendMeta, CanSend, Send, session
  <2>3. <<it>> \in Seq(Items) /\ \A n \in 1 .. Len(<<it>>) : <<it>>[n].cap = named + 1
    BY <2>1
  <2> HIDE DEF it
  <2> QED BY <1>5, <1>7, <2>2, <2>3 DEF MetaAt
<1>8. CASE SendFrame
  <2> DEFINE b == framed + 1
             pic == <<Item("start", b), Item("region", b), Item("end", b)>>
             bad == <<Item("garbled", b)>>
  <2>0. b \in 0 .. NumCaptures
    <3>1. framed \in Nat /\ framed < NumCaptures
      BY <1>8, Typed DEF SendFrame
    <3> QED BY <3>1, IngestBounds
  <2>1. \A k \in {"start", "region", "end", "garbled"} :
          Item(k, b) \in Items /\ Item(k, b).kind = k
    BY <2>0 DEF Item, Items, ItemKinds
  <2>2. pic \in Seq(Items) /\ \A n \in 1 .. Len(pic) : pic[n].kind # "meta"
    <3>1. pic \in Seq(Items) /\ Len(pic) = 3
      BY <2>1
    <3>2. pic[1].kind # "meta" /\ pic[2].kind # "meta" /\ pic[3].kind # "meta"
      BY <2>1
    <3>3. \A n \in 1 .. 3 : n = 1 \/ n = 2 \/ n = 3
      OBVIOUS
    <3> HIDE DEF pic
    <3> QED BY <3>1, <3>2, <3>3
  <2>3. bad \in Seq(Items) /\ \A n \in 1 .. Len(bad) : bad[n].kind # "meta"
    BY <2>1
  <2>4. /\ conn \in Conns /\ UNCHANGED <<st, hand>>
        /\ \/ wire' = [wire EXCEPT ![conn] = @ \o pic]
           \/ wire' = [wire EXCEPT ![conn] = @ \o bad]
    BY <1>6, <1>8 DEF SendFrame, CanSend, Send, session
  <2> HIDE DEF pic, bad
  <2> QED BY <1>5, <2>2, <2>3, <2>4 DEF MetaAt
<1>9. CASE Cut
  <2>1. PICK n \in 0 .. Len(wire[conn]) : wire' = [wire EXCEPT ![conn] = SubSeq(@, 1, n)]
    BY <1>9 DEF Cut
  <2>2. conn \in Conns /\ UNCHANGED <<st, hand>>
    BY <1>6, <1>9 DEF Cut, session
  <2>3. CASE j # conn
    BY <1>t, <1>1, <2>1, <2>2, <2>3
  <2>4. CASE j = conn
    <3>1. /\ wire'[j] = SubSeq(wire[j], 1, n) /\ Len(wire'[j]) = n
          /\ \A k \in 1 .. n : wire'[j][k] = wire[j][k] /\ k \in 1 .. Len(wire[j])
      BY <1>t, <2>1, <2>2, <2>4
    <3>2. \A k \in 1 .. n : MetaAt(wire'[j], k, c) => MetaAt(wire[j], k, c)
      BY <3>1 DEF MetaAt
    <3> QED BY <2>2, <3>1, <3>2 DEF Due, InHandOf
  <2> QED BY <2>3, <2>4
<1> QED BY <1>2, <1>3, <1>4, <1>7, <1>8, <1>9 DEF Agent

\* A row is new, and nothing of its capture is due any more.
LEMMA RowStep ==
  ASSUME TypeInv, Orderly, LogInv, NEW i \in Conns, InsertRow(i)
  PROVE  /\ hand[i].cap \in Captures /\ ~Stored(hand[i].cap) /\ hand[i].cap <= named
         /\ rows' = Append(rows, hand[i].cap)
         /\ \A c : Stored(c)' <=> Stored(c) \/ c = hand[i].cap
         /\ \A j \in Conns, c \in Captures : Due(j, c)' => c # hand[i].cap
<1>h. PICK h : h = hand[i].cap
  OBVIOUS
<1>t. /\ st \in [Conns -> States] /\ wire \in [Conns -> Seq(Items)] /\ rows \in Seq(Captures)
      /\ h \in Captures /\ st[i] = "row"
  BY <1>h, Typed DEF InsertRow, TypeInv, HandNamed
<1>0. Streams /\ DueOnce
  BY DEF LogInv
<1>1. Due(i, h)
  BY <1>h, <1>t DEF Due, InHandOf
<1>2. h <= named /\ ~Stored(h) /\ \A j \in Conns \ {i} : ~Due(j, h)
  BY <1>0, <1>t, <1>1 DEF DueOnce
<1>3. rows' = Append(rows, h)
  <2>1. ~\E n \in DOMAIN rows : rows[n] = h
    BY <1>t, <1>2 DEF Stored
  <2> QED BY <1>h, <2>1 DEF InsertRow
<1>4. \A c : Stored(c)' <=> Stored(c) \/ c = h
  <2> DEFINE v == Append(rows, h)
  <2>1. /\ \A k \in 1 .. Len(rows) : v[k] = rows[k] /\ k \in 1 .. Len(v)
        /\ \A k \in 1 .. Len(v) : k \in 1 .. Len(rows) \/ v[k] = h
        /\ Len(rows) + 1 \in 1 .. Len(v) /\ v[Len(rows) + 1] = h
    BY <1>t
  <2> HIDE DEF v
  <2>2. rows' = v
    BY <1>3 DEF v
  <2> QED BY <2>1, <2>2 DEF Stored
<1>5. \A n \in 1 .. Len(wire[i]) : ~MetaAt(wire[i], n, h)
  <2>0. st[i] \in Alive
    BY <1>t DEF Alive, States
  <2>1. PICK m \in Nat, f \in Nat : Carries(i, m, f)
    BY <1>0, <2>0 DEF Streams
  <2>2. h < m /\ MetasFrom(wire[i], m)
    BY <1>h, <1>t, <2>1 DEF Carries, Stream
  <2>3. h \in Nat
    BY <1>t, IngestBounds DEF Captures
  <2> QED BY <2>2, <2>3 DEF MetasFrom, MetaAt
<1>6. ASSUME NEW j \in Conns PROVE ~Due(j, h)'
  <2>1. CASE j # i
    <3>1. SessionStep(i)
      BY DEF SessionStep, Metadata
    <3> QED BY <1>2, <2>1, <3>1, DueInSession
  <2>2. CASE j = i
    <3>1. ~InHandOf(i, h)' /\ wire' = wire
      BY <1>t DEF InsertRow, InHandOf, net
    <3> QED BY <1>5, <2>2, <3>1 DEF Due
  <2> QED BY <2>1, <2>2
<1> QED BY <1>h, <1>t, <1>2, <1>3, <1>4, <1>6

LEMMA RowsOnlyGrow ==
  ASSUME [Next]_vars
  PROVE  rows' = rows \/ \E i \in Conns : InsertRow(i)
  BY DEF Next, Agent, vars, disk, Connect, SendFrame, SendMeta, Reconnect, Cut, Crash,
         SessionStep, StorageError, Admission, Pictures, Metadata, Departure, Admit, TurnAway,
         Greet, Reject, BeginFrame, AddRegion, EndFrame, Undecodable, TakeMeta, PutObject,
         HangUp, HeartbeatTick

LEMMA NamedGrows ==
  ASSUME TypeInv, Orderly, [Next]_vars
  PROVE  named' \in Nat /\ named <= named'
<1>1. named \in Nat /\ framed \in Nat /\ named <= framed
  BY Typed
<1>2. CASE Agent \/ Cut \/ Crash
  BY <1>1, <1>2 DEF Agent, Connect, SendFrame, SendMeta, Reconnect, Cut, Crash, Disconnected,
     StartedOver, Orderly, agent
<1>3. CASE UNCHANGED agent
  BY <1>1, <1>3 DEF agent
<1> QED BY <1>2, <1>3, OthersSame DEF Next, vars

LEMMA DueOnceStep ==
  ASSUME TypeInv, Orderly, LogInv, [Next]_vars
  PROVE  DueOnce'
<1>0. DueOnce /\ named \in Nat /\ framed \in Nat /\ conn \in Nat
  BY Typed DEF LogInv
<1>1. \A c \in Captures : c \in Nat
  BY IngestBounds DEF Captures
<1>2. ASSUME NEW j \in Conns, NEW c, Due(j, c)', ~SendMeta PROVE Due(j, c)
  <2>1. CASE vars' = vars
    BY <1>2, <2>1 DEF vars, net, session, Due, InHandOf
  <2> QED BY <1>2, <2>1, DueInSession, DueOfAgent DEF Next
<1>3. CASE SendMeta
  <2>1. rows' = rows /\ named' = named + 1
    BY <1>3 DEF SendMeta, disk
  <2>2. \A j \in Conns, c \in Captures : Due(j, c)' => Due(j, c) \/ (j = conn /\ c = named + 1)
    BY <1>3, DueOfAgent DEF Agent
  <2>3. \A c \in Captures : c <= named => c <= named + 1 /\ c # named + 1
    BY <1>0, <1>1
  <2> QED BY <1>0, <2>1, <2>2, <2>3 DEF DueOnce, Stored
<1>4. CASE ~SendMeta /\ rows' = rows
  <2>1. \A c \in Captures : c <= named => c <= named'
    BY <1>0, <1>1, NamedGrows
  <2> QED BY <1>0, <1>2, <1>4, <2>1 DEF DueOnce, Stored
<1>5. ASSUME NEW i \in Conns, InsertRow(i) PROVE DueOnce'
  <2>1. named' = named
    BY <1>5 DEF InsertRow, agent
  <2>2. \A j \in Conns, c \in Captures : Due(j, c)' => Due(j, c)
    <3>1. SessionStep(i)
      BY <1>5 DEF SessionStep, Metadata
    <3> QED BY <3>1, DueInSession
  <2> QED BY <1>0, <1>5, <2>1, <2>2, RowStep DEF DueOnce
<1>6. CASE ~SendMeta /\ rows' # rows
  BY <1>5, <1>6, RowsOnlyGrow
<1> QED BY <1>3, <1>4, <1>6

-----------------------------------------------------------------------------
(* The pictures *)

\* Only the object of a capture in hand is written or torn.
LEMMA ObjectsWritten ==
  ASSUME TypeInv, [Next]_vars
  PROVE  \/ UNCHANGED objects
         \/ Crash /\ \A c \in Captures : (\A i \in Conns : ~InHandOf(i, c))
                                            => objects'[c] = objects[c]
         \/ \E i \in Conns :
              /\ hand[i].cap \in Captures /\ InHandOf(i, hand[i].cap)
              /\ \A c \in Captures \ {hand[i].cap} : objects'[c] = objects[c]
              /\ \A j \in Conns \ {i} : Same(j)
              /\ rows' = rows
              /\ \/ PutObject(i) /\ objects'[hand[i].cap] = hand[i].picture
                 \/ st'[i] = "closed"
<1>t. /\ st \in [Conns -> States] /\ objects \in [Captures -> Seq(Captures)]
      /\ \A i \in Conns : st[i] \in {"put", "row"} => hand[i].cap \in Captures
  BY Typed DEF TypeInv, HandNamed
<1>1. ASSUME Crash, NEW c \in Captures, \A i \in Conns : ~InHandOf(i, c)
      PROVE  objects'[c] = objects[c]
  <2>1. PICK torn \in SUBSET {hand[i].cap : i \in {j \in Conns : st[j] = "put"}} : Tear(torn)
    BY <1>1 DEF Crash
  <2>2. c \notin torn
    BY <1>1, <2>1 DEF InHandOf
  <2> QED BY <2>1, <2>2 DEF Tear
<1>2. ASSUME NEW i \in Conns, PutObject(i) PROVE \E k \in Conns :
              /\ hand[k].cap \in Captures /\ InHandOf(k, hand[k].cap)
              /\ \A c \in Captures \ {hand[k].cap} : objects'[c] = objects[c]
              /\ \A j \in Conns \ {k} : Same(j)
              /\ rows' = rows
              /\ PutObject(k) /\ objects'[hand[k].cap] = hand[k].picture
  <2>1. \A j \in Conns \ {i} : Same(j)
    BY <1>2, OthersSame DEF SessionStep, Metadata
  <2>2. st[i] = "put" /\ rows' = rows
        /\ objects' = [objects EXCEPT ![hand[i].cap] = hand[i].picture]
    BY <1>2 DEF PutObject
  <2> QED BY <1>t, <1>2, <2>1, <2>2 DEF InHandOf
<1>3. ASSUME NEW i \in Conns, StorageError(i), ~UNCHANGED objects
      PROVE  /\ hand[i].cap \in Captures /\ InHandOf(i, hand[i].cap)
             /\ \A c \in Captures \ {hand[i].cap} : objects'[c] = objects[c]
             /\ \A j \in Conns \ {i} : Same(j)
             /\ rows' = rows /\ st'[i] = "closed"
  <2>1. st[i] = "put" /\ rows' = rows /\ Close(i)
        /\ \E torn \in SUBSET {hand[i].cap} : Tear(torn)
    BY <1>3 DEF StorageError
  <2>2. Ended(i) /\ \A j \in Conns \ {i} : Same(j)
    BY <2>1, CloseEnds
  <2> QED BY <1>t, <2>1, <2>2 DEF InHandOf, Tear, Ended
<1>4. CASE UNCHANGED objects
  BY <1>4
<1>5. ASSUME ~Crash, ~UNCHANGED objects
      PROVE  \E i \in Conns : PutObject(i) \/ StorageError(i)
  BY <1>5 DEF Next, Agent, vars, disk, Connect, SendFrame, SendMeta, Reconnect, Cut,
     SessionStep, Admission, Pictures, Metadata, Departure, Admit, TurnAway,
     Greet, Reject, BeginFrame, AddRegion, EndFrame, Undecodable, TakeMeta, InsertRow,
     HangUp, HeartbeatTick
<1> QED BY <1>1, <1>2, <1>3, <1>4, <1>5

\* The object behind a row is not touched again.
LEMMA StoredKept ==
  ASSUME TypeInv, Orderly, LogInv, [Next]_vars, NEW c \in Captures, Stored(c)
  PROVE  objects'[c] = objects[c]
<1>1. \A i \in Conns : ~InHandOf(i, c)
  BY DEF LogInv, DueOnce, Due
<1> QED BY <1>1, ObjectsWritten

\* How a capture gets in hand, and on from the object to the row.
LEMMA HandSteps ==
  ASSUME TypeInv, [Next]_vars, NEW i \in Conns, st'[i] \in {"put", "row"}
  PROVE  \/ st'[i] = st[i] /\ hand'[i] = hand[i]
         \/ PutObject(i) /\ st'[i] = "row" /\ hand'[i] = hand[i] /\ st[i] = "put"
         \/ TakeMeta(i)
<1>t. /\ st \in [Conns -> States]
      /\ hand \in [Conns -> [cap : 0 .. NumCaptures, picture : Seq(Captures)]]
  BY Typed
<1>1. CASE \E j \in Conns \ {i} : SessionStep(j) \/ StorageError(j)
  BY <1>1, OthersSame DEF Same
<1>2. CASE Agent \/ Cut \/ Crash \/ UNCHANGED vars
  BY <1>t, <1>2 DEF Agent, Connect, SendFrame, SendMeta, Reconnect, Cut, Crash, vars, session
<1>3. CASE SessionStep(i) \/ StorageError(i)
  <2>1. CASE Ended(i)
    BY <2>1 DEF Ended
  <2>2. CASE Reject(i) \/ Undecodable(i) \/ StorageError(i) \/ HangUp(i)
    BY <2>1, <2>2, CloseEnds DEF Reject, Undecodable, StorageError, HangUp
  <2>3. CASE HeartbeatTick(i)
    BY <2>1, <2>3, CloseEnds DEF HeartbeatTick
  <2>4. CASE Admit(i) \/ TurnAway(i) \/ Greet(i) \/ InsertRow(i)
    BY <1>t, <2>4 DEF Admit, TurnAway, Greet, InsertRow, Drop, session
  <2>5. CASE BeginFrame(i) \/ AddRegion(i) \/ EndFrame(i)
    BY <1>t, <2>5 DEF BeginFrame, AddRegion, EndFrame
  <2>6. CASE PutObject(i)
    BY <1>t, <2>6 DEF PutObject, session
  <2> QED BY <1>3, <2>2, <2>3, <2>4, <2>5, <2>6
          DEF SessionStep, Admission, Pictures, Metadata, Departure
<1> QED BY <1>1, <1>2, <1>3 DEF Next

LEMMA RightPictureStep ==
  ASSUME TypeInv, Orderly, LogInv, [Next]_vars
  PROVE  RightPicture'
<1>0. Streams /\ Frames /\ DueOnce /\ RightPicture
  BY DEF LogInv
<1>t. /\ st \in [Conns -> States]
      /\ hand \in [Conns -> [cap : 0 .. NumCaptures, picture : Seq(Captures)]]
      /\ \A i \in Conns : st[i] \in {"put", "row"} => hand[i].cap \in Captures
  BY Typed DEF TypeInv, HandNamed
<1>1. ASSUME NEW i \in Conns, st'[i] = "put"
      PROVE  hand'[i].picture = <<hand'[i].cap>>
  <2>1. CASE TakeMeta(i)
    <3>1. st[i] \in Alive
      BY <2>1 DEF TakeMeta, InLoop, Alive, States
    <3>2. PICK m \in Nat, f \in Nat : Carries(i, m, f)
      BY <1>0, <3>1 DEF Streams
    <3>3. hand'[i] = [cap |-> m, picture |-> <<m>>]
      BY <1>0, <1>t, <2>1, <3>2, TakeMetaCarries DEF Frames
    <3> QED BY <3>3
  <2> QED BY <1>0, <1>1, <2>1, HandSteps DEF RightPicture
<1>2. ASSUME NEW i \in Conns, st'[i] = "row"
      PROVE  objects'[hand'[i].cap] = <<hand'[i].cap>>
  <2>1. ~TakeMeta(i)
    <3>1. ASSUME TakeMeta(i) PROVE FALSE
      <4>1. st[i] \in Alive
        BY <3>1 DEF TakeMeta, InLoop, Alive, States
      <4>2. PICK m \in Nat, f \in Nat : Carries(i, m, f)
        BY <1>0, <4>1 DEF Streams
      <4>3. st'[i] = "put"
        BY <1>0, <1>t, <3>1, <4>2, TakeMetaCarries DEF Frames
      <4> QED BY <1>2, <4>3
    <3> QED BY <3>1
  <2>2. PICK h : h = hand[i].cap
    OBVIOUS
  <2>3. CASE PutObject(i)
    <3>1. st[i] = "put" /\ objects' = [objects EXCEPT ![h] = hand[i].picture] /\ hand'[i] = hand[i]
      BY <2>2, <2>3 DEF PutObject, session
    <3> QED BY <1>0, <1>t, <2>2, <3>1, Typed DEF RightPicture
  <2>4. CASE st[i] = "row" /\ hand'[i] = hand[i]
    <3>1. h \in Captures /\ InHandOf(i, h) /\ objects[h] = <<h>>
      BY <1>0, <1>t, <2>2, <2>4 DEF InHandOf, RightPicture
    <3>2. \A j \in Conns \ {i} : ~InHandOf(j, h)
      BY <1>0, <3>1 DEF DueOnce, Due
    <3>3. ~Crash /\ ~PutObject(i)
      BY <1>2, <2>4 DEF Crash, PutObject
    <3>4. objects'[h] = objects[h]
      BY <1>2, <3>1, <3>2, <3>3, ObjectsWritten DEF InHandOf
    <3> QED BY <2>2, <2>4, <3>1, <3>4
  <2> QED BY <1>2, <2>1, <2>3, <2>4, HandSteps
<1>3. ASSUME NEW c \in Captures, Stored(c)' PROVE objects'[c] = <<c>>
  <2>1. CASE Stored(c)
    BY <1>0, <2>1, StoredKept DEF RightPicture
  <2>2. CASE ~Stored(c)
    <3>1. rows' # rows
      BY <1>3, <2>2 DEF Stored
    <3>2. PICK i \in Conns : InsertRow(i)
      BY <3>1, RowsOnlyGrow
    <3>3. c = hand[i].cap
      BY <1>3, <2>2, <3>2, RowStep
    <3>4. st[i] = "row" /\ objects' = objects
      BY <3>2 DEF InsertRow
    <3> QED BY <1>0, <3>3, <3>4 DEF RightPicture
  <2> QED BY <2>1, <2>2
<1> QED BY <1>1, <1>2, <1>3 DEF RightPicture

-----------------------------------------------------------------------------
(* The theorem *)

LEMMA LogInit == Init => LogInv
<1> SUFFICES ASSUME Init PROVE LogInv
  OBVIOUS
<1>1. \A i \in Conns : st[i] = "none" /\ wire[i] = <<>> /\ frame[i] = NoFrame /\ pending[i] = <<>>
  BY DEF Init
<1>2. Streams /\ Frames
  BY <1>1 DEF Streams, Alive, Frames, FrameShape
<1>3. \A c : ~Stored(c)
  BY DEF Init, Stored
<1>4. \A i \in Conns, c \in Captures : ~Due(i, c)
  BY <1>1 DEF Due, InHandOf
<1>5. DueOnce /\ RightPicture
  BY <1>1, <1>3, <1>4 DEF DueOnce, RightPicture
<1> QED BY <1>2, <1>5 DEF LogInv, Init

LEMMA LogStep ==
  ASSUME Orderly
  PROVE  TypeInv /\ LogInv /\ [Next]_vars => LogInv'
<1> SUFFICES ASSUME TypeInv, LogInv, [Next]_vars PROVE LogInv'
  OBVIOUS
<1>1. DueOnce' /\ RightPicture'
  BY DueOnceStep, RightPictureStep
<1>2. Streams' /\ Frames' /\ (conn' = 0 => named' = framed')
  <2>1. CASE Agent \/ Cut \/ Crash
    BY <2>1, AgentStreams
  <2>2. ASSUME NEW i \in Conns, SessionStep(i) \/ StorageError(i)
        PROVE  Streams' /\ Frames' /\ (conn' = 0 => named' = framed')
    <3>1. conn' = conn /\ named' = named /\ framed' = framed
      BY <2>2, OthersSame DEF agent
    <3> QED BY <2>2, <3>1, SessionStreams DEF LogInv
  <2>3. CASE UNCHANGED vars
    <3>1. UNCHANGED <<conn, named, framed, st, wire, frame, pending, hand>>
      BY <2>3 DEF vars, agent, net, session
    <3>2. Frames' /\ (conn' = 0 => named' = framed')
      BY <3>1 DEF LogInv, Frames, FrameShape
    <3>3. ASSUME NEW j \in Conns, st'[j] \in Alive PROVE \E m, f \in Nat : Carries(j, m, f)'
      <4>1. PICK m \in Nat, f \in Nat : Carries(j, m, f)
        BY <3>1, <3>3 DEF LogInv, Streams
      <4>2. AllSent(wire[j], LastPdu(frame[j]), m, f)'
              <=> AllSent(wire[j], LastPdu(frame[j]), m, f)
        BY <3>1 DEF AllSent, Covers
      <4>3. Carries(j, m, f)'
        BY <3>1, <4>1, <4>2 DEF Carries
      <4> QED BY <4>3
    <3> QED BY <3>2, <3>3 DEF Streams
  <2> QED BY <2>1, <2>2, <2>3 DEF Next
<1> QED BY <1>1, <1>2 DEF LogInv

\* The log of the refinement, row by row.
LogNow == [n \in DOMAIN rows |-> [capture |-> rows[n], picture |-> objects[rows[n]]]]

LEMMA LogFollows ==
  ASSUME Orderly, TypeInv, LogInv, [Next]_vars
  PROVE  \/ LogNow' = LogNow
         \/ \E c \in Captures :
              /\ \A n \in 1 .. Len(LogNow) : LogNow[n].capture # c
              /\ LogNow' = Append(LogNow, [capture |-> c, picture |-> <<c>>])
<1>t. rows \in Seq(Captures) /\ DOMAIN rows = 1 .. Len(rows) /\ Len(rows) \in Nat
  BY Typed
<1>1. \A n \in 1 .. Len(rows) : objects'[rows[n]] = objects[rows[n]]
  BY <1>t, StoredKept DEF Stored
<1>2. CASE rows' = rows
  BY <1>1, <1>2, <1>t, Zenon DEF LogNow
<1>3. ASSUME NEW i \in Conns, InsertRow(i)
      PROVE  \E c \in Captures :
               /\ \A n \in 1 .. Len(LogNow) : LogNow[n].capture # c
               /\ LogNow' = Append(LogNow, [capture |-> c, picture |-> <<c>>])
  <2>1. PICK h \in Captures : h = hand[i].cap
    BY <1>3, RowStep
  <2>2. ~Stored(h) /\ rows' = Append(rows, h)
    BY <1>3, <2>1, RowStep
  <2>3. objects' = objects /\ objects[h] = <<h>>
    BY <1>3, <2>1 DEF InsertRow, LogInv, RightPicture
  <2>4. /\ DOMAIN rows' = 1 .. Len(rows) + 1
        /\ \A n \in 1 .. Len(rows) : rows'[n] = rows[n]
        /\ rows'[Len(rows) + 1] = h
    BY <1>t, <2>2
  <2>5. /\ LogNow \in Seq([capture : Captures, picture : {objects[c] : c \in Captures}])
        /\ Len(LogNow) = Len(rows)
    BY <1>t DEF LogNow
  <2>6. \A n \in 1 .. Len(LogNow) : LogNow[n].capture # h
    BY <1>t, <2>2, <2>5 DEF LogNow, Stored
  <2>7. LogNow' = [n \in 1 .. Len(rows) + 1 |->
                     IF n = Len(rows) + 1 THEN [capture |-> h, picture |-> <<h>>] ELSE LogNow[n]]
    BY <1>t, <2>3, <2>4 DEF LogNow
  <2>8. LogNow' = Append(LogNow, [capture |-> h, picture |-> <<h>>])
    BY <2>5, <2>7, <1>t
  <2> QED BY <2>6, <2>8
<1> QED BY <1>2, <1>3, RowsOnlyGrow

(***************************************************************************)
(* As long as an agent has no more pictures ahead of their metadata than   *)
(* the queue of handle_meta holds (64), and never begins again with its    *)
(* first token, what a client's connections store is a CaptureLog: the     *)
(* pairing by order of arrival gives each row its own picture, and the     *)
(* object behind a row is not touched again (handle_meta, put and          *)
(* insert_capture).                                                        *)
(***************************************************************************)
THEOREM RowsKeepTheirPictures == ASSUME Orderly PROVE Spec => CaptureLogSpec
<1>1. Init => Log!Init
  BY DEF Init, Log!Init
<1>2. TypeInv /\ LogInv /\ [Next]_vars => [Log!Next]_LogNow
  BY LogFollows DEF Log!Next, Log!Add, Log!Complete, LogNow
<1> QED
  BY <1>1, <1>2, TypeInit, TypeStep, LogInit, LogStep, PTL
  DEF Spec, CaptureLogSpec, Log!Spec, LogNow

==============================================================================
