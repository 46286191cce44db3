---------------------------- MODULE AgentProofs ----------------------------
(***************************************************************************)
(* Proofs about Agent, for any windows, exclusions, orders, channel        *)
(* capacity and number of happenings.                                      *)
(***************************************************************************)
EXTENDS Agent, SequenceTheorems, TLAPS

Hands == [frame : Frames, named : Windows]
Items == Frames \cup {Failure}

\* Everything AgentTypeOK says but that a frame in hand is not newer than the
\* newest captured, which takes the order of the queues (below).
Shapes ==
  /\ fg \in Windows
  /\ thread \in BOOLEAN /\ bridge \in BOOLEAN /\ paused \in BOOLEAN /\ stop \in BOOLEAN
  /\ captured \in Nat /\ raw \in Seq(Items)
  /\ held \in Seq(Frames) /\ Len(held) <= 1
  /\ chan \in Seq(Frames) /\ Len(chan) <= ChanCap
  /\ chunks \in Nat
  /\ pc \in {"top", "connecting", "backoff", "select", "sending", "recording", "returned"}
  /\ backoff \in FirstBackoff .. LastBackoff
  /\ latest \in Seq(Frames) /\ Len(latest) <= 1
  /\ lastHash \in Windows \cup {None}
  /\ hand \in Seq(Hands) /\ Len(hand) <= 1
  /\ hand # <<>> <=> pc \in {"sending", "recording"}
  /\ link \in {"none", "up", "cut"} /\ inbox \in Seq(Orders)
  /\ link # "none" <=> pc \in {"select", "sending", "recording"}
  /\ budget \in [Happenings -> Nat]
  /\ sent \in Seq(Hands)
  /\ wire \in Seq([kind : {"frame", "record"}, no : Nat])
  /\ settled \in Nat /\ heard \in {"pause", "resume"}

-----------------------------------------------------------------------------
(* Sequences *)

\* The domain of a sequence.
LEMMA Places ==
  ASSUME NEW S, NEW q \in Seq(S)
  PROVE  Len(q) \in Nat /\ DOMAIN q = 1 .. Len(q) /\ \A i \in DOMAIN q : q[i] \in S
<1>1. Len(q) \in Nat /\ DOMAIN q = 1 .. Len(q)
  BY LenProperties
<1> QED
  BY <1>1, ElementOfSeq

\* A sequence of at most one element, and its element.
LEMMA OneElement ==
  ASSUME NEW S, NEW q \in Seq(S), Len(q) <= 1, q # <<>>
  PROVE  Len(q) = 1 /\ q[1] \in S /\ DOMAIN q = {1}
<1>1. Len(q) \in Nat \ {0}
  BY EmptySeq
<1>2. Len(q) = 1
  BY <1>1
<1>3. DOMAIN q = 1 .. 1
  BY <1>2, LenProperties
<1> QED
  BY <1>2, <1>3, ElementOfSeq

\* What a new last element leaves of a sequence.
LEMMA Appended ==
  ASSUME NEW S, NEW q \in Seq(S), NEW e \in S
  PROVE  /\ Append(q, e) \in Seq(S)
         /\ Len(Append(q, e)) = Len(q) + 1
         /\ DOMAIN Append(q, e) = 1 .. Len(q) + 1
         /\ \A i \in 1 .. Len(q) : Append(q, e)[i] = q[i]
         /\ Append(q, e)[Len(q) + 1] = e
<1>1. Append(q, e) \in Seq(S) /\ Len(Append(q, e)) = Len(q) + 1
  OBVIOUS
<1>2. DOMAIN Append(q, e) = 1 .. Len(q) + 1
  BY <1>1, LenProperties
<1>3. Len(q) \in Nat
  OBVIOUS
<1> QED
  BY <1>1, <1>2, <1>3

\* Sequences of one element and of none.
LEMMA Single ==
  ASSUME NEW S
  PROVE  /\ <<>> \in Seq(S) /\ Len(<<>>) = 0 /\ DOMAIN <<>> = {}
         /\ \A e \in S : <<e>> \in Seq(S) /\ Len(<<e>>) = 1 /\ <<e>>[1] = e /\ DOMAIN <<e>> = {1}
<1>1. <<>> \in Seq(S) /\ Len(<<>>) = 0
  BY EmptySeq
<1>2. DOMAIN <<>> = 1 .. 0
  BY <1>1, LenProperties
<1>3. ASSUME NEW e \in S PROVE <<e>> \in Seq(S) /\ Len(<<e>>) = 1 /\ <<e>>[1] = e
  BY <1>3
<1>4. ASSUME NEW e \in S PROVE DOMAIN <<e>> = 1 .. 1
  BY <1>3, <1>4, LenProperties
<1> QED
  BY <1>1, <1>2, <1>3, <1>4

\* The first element of a sequence, and what is left without it.
LEMMA Shifted ==
  ASSUME NEW S, NEW q \in Seq(S), q # <<>>
  PROVE  /\ 1 \in DOMAIN q /\ Head(q) = q[1] /\ q[1] \in S
         /\ Tail(q) \in Seq(S) /\ Len(Tail(q)) = Len(q) - 1
         /\ \A i \in DOMAIN Tail(q) : i + 1 \in DOMAIN q /\ Tail(q)[i] = q[i + 1]
<1>1. Len(q) \in Nat \ {0} /\ DOMAIN q = 1 .. Len(q)
  BY EmptySeq, LenProperties
<1>2. /\ Tail(q) \in Seq(S) /\ Len(Tail(q)) = Len(q) - 1
      /\ \A i \in 1 .. Len(Tail(q)) : Tail(q)[i] = q[i + 1]
  BY HeadTailProperties
<1>3. DOMAIN Tail(q) = 1 .. Len(Tail(q))
  BY <1>2, LenProperties
<1>4. Head(q) = q[1]
  OBVIOUS
<1>5. 1 \in DOMAIN q /\ \A i \in DOMAIN Tail(q) : i + 1 \in DOMAIN q
  BY <1>1, <1>2, <1>3
<1> QED
  BY <1>2, <1>3, <1>4, <1>5, ElementOfSeq, <1>1

\* What Spend leaves.
LEMMA SpendType ==
  ASSUME NEW what \in Happenings, budget \in [Happenings -> Nat], Spend(what)
  PROVE  budget' \in [Happenings -> Nat]
  BY DEF Spend

-----------------------------------------------------------------------------
(* Type correctness *)

\* What a queue that was emptied is.
LEMMA Emptied ==
  /\ <<>> \in Seq(Frames) /\ <<>> \in Seq(Items) /\ <<>> \in Seq(Hands) /\ <<>> \in Seq(Orders)
  /\ Len(<<>>) = 0
<1>1. <<>> \in Seq(Frames) /\ Len(<<>>) = 0
  BY Single, Zenon
<1>2. <<>> \in Seq(Items)
  BY Single, Zenon
<1>3. <<>> \in Seq(Hands)
  BY Single, Zenon
<1>4. <<>> \in Seq(Orders)
  BY Single, Zenon
<1> QED
  BY <1>1, <1>2, <1>3, <1>4

LEMMA ShapesInit == Init => Shapes
<1> SUFFICES ASSUME Init PROVE Shapes
  OBVIOUS
<1>1. /\ raw \in Seq(Items) /\ held \in Seq(Frames) /\ Len(held) <= 1
      /\ chan \in Seq(Frames) /\ Len(chan) <= ChanCap /\ latest \in Seq(Frames) /\ Len(latest) <= 1
      /\ hand \in Seq(Hands) /\ Len(hand) <= 1 /\ inbox \in Seq(Orders)
      /\ sent \in Seq(Hands) /\ wire \in Seq([kind : {"frame", "record"}, no : Nat])
  BY Single, AgentAssumption DEF Init
<1>2. /\ hand # <<>> <=> pc \in {"sending", "recording"}
      /\ link # "none" <=> pc \in {"select", "sending", "recording"}
  BY DEF Init
<1>3. budget \in [Happenings -> Nat] /\ settled \in Nat
  BY AgentAssumption DEF Init
<1>4. thread \in BOOLEAN /\ bridge \in BOOLEAN /\ paused \in BOOLEAN /\ stop \in BOOLEAN
  BY DEF Init
<1>5. captured \in Nat /\ chunks \in Nat /\ backoff \in FirstBackoff .. LastBackoff
  BY DEF Init, FirstBackoff, LastBackoff
<1>6. /\ fg \in Windows /\ lastHash \in Windows \cup {None} /\ link \in {"none", "up", "cut"}
      /\ heard \in {"pause", "resume"}
      /\ pc \in {"top", "connecting", "backoff", "select", "sending", "recording", "returned"}
  BY DEF Init
<1> QED
  BY <1>1, <1>2, <1>3, <1>4, <1>5, <1>6 DEF Shapes

LEMMA ShapesEnvironment == Shapes /\ Environment => Shapes'
<1> SUFFICES ASSUME Shapes, Environment PROVE Shapes'
  OBVIOUS
<1> USE AgentAssumption DEF Shapes, feed, loop, net, hist
<1>1. ASSUME NEW w \in Windows, Switch(w) PROVE Shapes'
  BY <1>1, SpendType DEF Switch, Happenings
<1>2. ASSUME NEW o \in Orders, Order(o) PROVE Shapes'
  BY <1>2, SpendType DEF Order, Happenings
<1>3. CASE RequestStop
  BY <1>3 DEF RequestStop
<1>4. CASE Cut
  <2>1. PICK n \in 0 .. Len(inbox) : inbox' = SubSeq(inbox, 1, n)
    BY <1>4 DEF Cut
  <2>2. Len(inbox) \in Nat /\ \A i \in 1 .. n : inbox[i] \in Orders
    BY <2>1, Places
  <2>3. n \in Int
    BY <2>2
  <2>4. inbox' \in Seq(Orders)
    BY <2>1, <2>2, <2>3, SubSeqProperties
  <2> QED
    BY <1>4, <2>4, SpendType DEF Cut, Happenings
<1>5. CASE Listen
  BY <1>5, SpendType DEF Listen, Happenings
<1> QED
  BY <1>1, <1>2, <1>3, <1>4, <1>5 DEF Environment

LEMMA ShapesFeed == Shapes /\ Feed => Shapes'
<1> SUFFICES ASSUME Shapes, Feed PROVE Shapes'
  OBVIOUS
<1> USE AgentAssumption DEF Shapes, loop, net, hist
<1>1. CASE Capture
  <2>1. CASE bridge
    <3>1. PICK d \in BOOLEAN : raw' = Append(raw, [no |-> captured + 1, shows |-> fg, dirty |-> d])
      BY <1>1, <2>1, Zenon DEF Capture
    <3>2. [no |-> captured + 1, shows |-> fg, dirty |-> d] \in Items
      BY DEF Items, Frames
    <3>3. raw' \in Seq(Items)
      BY <3>1, <3>2, Appended
    <3>4. captured' = captured + 1 /\ thread' = thread
      BY <1>1, <2>1, Zenon DEF Capture
    <3>5. budget' \in [Happenings -> Nat]
      BY <1>1, SpendType DEF Capture, Happenings
    <3> QED
      BY <1>1, <3>3, <3>4, <3>5 DEF Capture
  <2>2. CASE ~bridge
    <3>1. budget' \in [Happenings -> Nat]
      BY <1>1, SpendType DEF Capture, Happenings
    <3> QED
      BY <1>1, <2>2, <3>1 DEF Capture
  <2> QED
    BY <2>1, <2>2
<1>2. CASE ThreadDies
  <2>1. Append(raw, Failure) \in Seq(Items)
    BY Appended DEF Items
  <2>2. budget' \in [Happenings -> Nat]
    BY <1>2, SpendType DEF ThreadDies, Happenings
  <2> QED
    BY <1>2, <2>1, <2>2 DEF ThreadDies
<1>3. CASE BridgeTakes
  <2>1. Head(raw) \in Items /\ Tail(raw) \in Seq(Items)
    BY <1>3, Shifted DEF BridgeTakes
  <2>2. held' \in Seq(Frames) /\ Len(held') <= 1 /\ raw' \in Seq(Items) /\ bridge' \in BOOLEAN
    <3>1. Head(raw) # Failure => Head(raw) \in Frames
      BY <1>3, <2>1 DEF BridgeTakes, Items
    <3>2. CASE Head(raw) = Failure
      <4>1. held' = <<>> /\ raw' = <<>> /\ bridge' = FALSE
        BY <1>3, <3>2, Zenon DEF BridgeTakes, BridgeEnds
      <4>2. held' \in Seq(Frames) /\ Len(held') = 0 /\ raw' \in Seq(Items) /\ bridge' \in BOOLEAN
        BY <4>1, Emptied, Zenon
      <4> QED
        BY <4>2
    <3>3. CASE Head(raw) # Failure
      <4>1. held' = <<Head(raw)>> /\ raw' = Tail(raw) /\ bridge' = bridge
        BY <1>3, <3>3, Zenon DEF BridgeTakes
      <4>2. held' \in Seq(Frames) /\ Len(held') = 1
        BY <3>1, <3>3, <4>1, Single
      <4> QED
        BY <2>1, <4>1, <4>2
    <3> QED
      BY <3>2, <3>3
  <2> QED
    BY <1>3, <2>2 DEF BridgeTakes
<1>4. CASE BridgePuts
  <2>1. held[1] \in Frames
    BY <1>4, OneElement DEF BridgePuts
  <2>2. /\ held' \in Seq(Frames) /\ Len(held') <= 1 /\ raw' \in Seq(Items) /\ bridge' \in BOOLEAN
        /\ chan' \in Seq(Frames) /\ Len(chan') <= ChanCap
    <3>1. Append(chan, held[1]) \in Seq(Frames) /\ Len(Append(chan, held[1])) = Len(chan) + 1
      BY <2>1, Appended
    <3>2. Len(chan) \in Nat
      BY Places
    <3>3. CASE pc = "returned"
      <4>1. held' = <<>> /\ raw' = <<>> /\ bridge' = FALSE /\ chan' = chan
        BY <1>4, <3>3, Zenon DEF BridgePuts, BridgeEnds
      <4>2. held' \in Seq(Frames) /\ Len(held') = 0 /\ raw' \in Seq(Items) /\ bridge' \in BOOLEAN
        BY <4>1, Emptied, Zenon
      <4> QED
        BY <4>1, <4>2
    <3>4. CASE pc # "returned"
      <4>1. Len(chan) < ChanCap /\ chan' = Append(chan, held[1]) /\ held' = <<>>
            /\ bridge' = bridge /\ raw' = raw
        BY <1>4, <3>4, Zenon DEF BridgePuts
      <4> QED
        BY <3>1, <3>2, <4>1, Emptied
    <3> QED
      BY <3>3, <3>4
  <2> QED
    BY <1>4, <2>2 DEF BridgePuts
<1> QED
  BY <1>1, <1>2, <1>3, <1>4 DEF Feed

\* However a connection ends.
LEMMA ShapesDisconnect ==
  ASSUME Shapes, Disconnect, chunks' \in Nat, paused' \in BOOLEAN, heard' \in {"pause", "resume"}
  PROVE  Shapes'
<1> USE DEF Shapes
<1>1. /\ latest' \in Seq(Frames) /\ Len(latest') <= 1 /\ hand' \in Seq(Hands) /\ Len(hand') <= 1
      /\ inbox' \in Seq(Orders) /\ hand' = <<>>
  BY Emptied DEF Disconnect
<1>2. latest # <<>> => latest[1].no \in Nat
  <2>1. latest # <<>> => latest[1] \in Frames
    BY OneElement
  <2> QED
    BY <2>1 DEF Frames
<1>3. settled' \in Nat
  BY <1>2 DEF Disconnect
<1>4. pc' = "top" /\ link' = "none"
  BY DEF Disconnect
<1> QED
  BY <1>1, <1>3, <1>4 DEF Disconnect, feed

\* What every tick leaves as it was.
LEMMA ShapesTick ==
  ASSUME Shapes, Tick, lastHash' \in Windows \cup {None},
         \/ pc' = "select" /\ hand' = hand
         \/ pc' \in {"sending", "recording"} /\ hand' # <<>>,
         hand' \in Seq(Hands), Len(hand') <= 1
  PROVE  Shapes'
<1> USE DEF Shapes
<1>1. latest' \in Seq(Frames) /\ Len(latest') <= 1
  BY Emptied DEF Tick, Take
<1>2. latest[1].no \in Nat
  <2>1. latest[1] \in Frames
    BY OneElement DEF Tick
  <2> QED
    BY <2>1 DEF Frames
<1>3. settled' \in Nat /\ pc = "select" /\ hand = <<>> /\ link # "none"
  BY <1>2 DEF Tick, Take
<1>4. hand' # <<>> <=> pc' \in {"sending", "recording"}
  BY <1>3
<1>5. pc' \in {"select", "sending", "recording"}
  OBVIOUS
<1> QED
  BY <1>1, <1>3, <1>4, <1>5 DEF Tick, feed, net

LEMMA BackoffBounds ==
  FirstBackoff \in Nat /\ LastBackoff \in Nat /\ FirstBackoff <= LastBackoff
  BY DEF FirstBackoff, LastBackoff

LEMMA ShapesLoop == Shapes /\ Loop => Shapes'
<1> SUFFICES ASSUME Shapes, Loop PROVE Shapes'
  OBVIOUS
<1> USE AgentAssumption DEF feed, net, hist
<1>1. CASE Top
  <2>1. pc = "top" /\ pc' \in {"returned", "connecting"}
    BY <1>1 DEF Top
  <2> QED
    BY <1>1, <2>1 DEF Shapes, Top
<1>2. CASE Connects
  BY <1>2, Single DEF Shapes, Connects, FirstBackoff, LastBackoff
<1>3. CASE ConnectFails
  BY <1>3, SpendType DEF Shapes, ConnectFails, Happenings
<1>4. CASE BackoffOver
  <2> DEFINE twice == 2 * backoff
  <2>1. backoff \in FirstBackoff .. LastBackoff /\ twice \in Int /\ twice >= backoff
    BY BackoffBounds DEF Shapes
  <2>2. pc' \in {"returned", "top"} /\ pc = "backoff"
    BY <1>4 DEF BackoffOver
  <2>3. backoff' = backoff \/ (backoff' = twice /\ twice < LastBackoff) \/ backoff' = LastBackoff
    BY <1>4 DEF BackoffOver
  <2> HIDE DEF twice
  <2>4. backoff' \in FirstBackoff .. LastBackoff
    BY <2>1, <2>3, BackoffBounds
  <2> QED
    BY <1>4, <2>2, <2>4 DEF Shapes, BackoffOver
<1>5. CASE Stops
  BY <1>5, ShapesDisconnect DEF Shapes, Stops
<1>6. CASE ReceiveFrame
  <2>1. Head(chan) \in Frames /\ Tail(chan) \in Seq(Frames) /\ Len(Tail(chan)) = Len(chan) - 1
    BY <1>6, Shifted DEF Shapes, ReceiveFrame
  <2>2. latest' \in Seq(Frames) /\ Len(latest') <= 1 /\ chan' \in Seq(Frames)
    BY <1>6, <2>1, Single DEF ReceiveFrame
  <2>3. Len(chan) \in Nat /\ chan' = Tail(chan)
    BY <1>6, Places DEF Shapes, ReceiveFrame
  <2>4. Len(chan') <= ChanCap
    BY <2>1, <2>3 DEF Shapes
  <2> QED
    BY <1>6, <2>2, <2>4 DEF Shapes, ReceiveFrame
<1>7. CASE FramesEnd
  BY <1>7, ShapesDisconnect DEF Shapes, FramesEnd
<1>8. CASE SendAudio
  <2>1. chunks' \in Nat
    BY <1>8 DEF Shapes, SendAudio
  <2>2. CASE UNCHANGED <<fg, feed, chan, loop, stop, net, budget, hist>>
    BY <2>1, <2>2 DEF Shapes, loop
  <2>3. CASE Disconnect /\ UNCHANGED <<paused, heard>>
    BY <2>1, <2>3, ShapesDisconnect DEF Shapes
  <2> QED
    BY <1>8, <2>2, <2>3 DEF SendAudio
<1>9. CASE SkipUnchanged
  <2>1. lastHash' \in Windows \cup {None} /\ hand' \in Seq(Hands) /\ Len(hand') <= 1
    BY <1>9 DEF Shapes, SkipUnchanged
  <2>2. Tick /\ pc' = "select" /\ hand' = hand
    BY <1>9 DEF SkipUnchanged, Tick
  <2> QED
    BY <2>1, <2>2, ShapesTick
<1>10. ASSUME TakeUp,
              \/ UNCHANGED <<pc, hand>>
              \/ hand' = <<[frame |-> latest[1], named |-> fg]>> /\ pc' = "sending"
       PROVE  Shapes'
  <2>1. /\ lastHash' \in Windows \cup {None} /\ latest[1] \in Frames
        /\ pc = "select" /\ hand = <<>> /\ fg \in Windows
    BY <1>10, OneElement DEF Shapes, TakeUp, Tick, Frames
  <2>2. CASE UNCHANGED <<pc, hand>>
    <3>1. hand' \in Seq(Hands) /\ Len(hand') <= 1
      BY <2>2 DEF Shapes
    <3> QED
      BY <1>10, <2>1, <2>2, <3>1, ShapesTick DEF TakeUp
  <2>3. CASE hand' = <<[frame |-> latest[1], named |-> fg]>> /\ pc' = "sending"
    <3>1. [frame |-> latest[1], named |-> fg] \in Hands
      BY <2>1 DEF Hands
    <3>2. hand' \in Seq(Hands) /\ Len(hand') = 1 /\ hand' # <<>>
      BY <2>3, <3>1, Single
    <3> QED
      BY <1>10, <2>1, <2>3, <3>2, ShapesTick DEF TakeUp
  <2> QED
    BY <1>10, <2>2, <2>3
<1>11. CASE SendFrame
  <2>1. hand[1] \in Hands
    BY <1>11, OneElement DEF Shapes, SendFrame
  <2>2. hand[1].frame.no \in Nat
    BY <2>1 DEF Hands, Frames
  <2>3. sent' \in Seq(Hands) /\ wire' \in Seq([kind : {"frame", "record"}, no : Nat])
    BY <1>11, <2>1, <2>2, Appended DEF Shapes, SendFrame
  <2> QED
    BY <1>11, <2>3 DEF Shapes, SendFrame
<1>12. CASE SendMeta
  <2>1. hand[1] \in Hands
    BY <1>12, OneElement DEF Shapes, SendMeta
  <2>2. hand[1].frame.no \in Nat
    BY <2>1 DEF Hands, Frames
  <2>3. wire' \in Seq([kind : {"frame", "record"}, no : Nat]) /\ hand' \in Seq(Hands) /\ Len(hand') = 0
    BY <1>12, <2>2, Appended, Single DEF Shapes, SendMeta
  <2> QED
    BY <1>12, <2>3 DEF Shapes, SendMeta
<1>13. CASE SendFails
  BY <1>13, ShapesDisconnect DEF Shapes, SendFails
<1>14. CASE NoticeCut
  BY <1>14, ShapesDisconnect DEF Shapes, NoticeCut
<1>15. CASE Control
  <2>1. CASE Disconnect /\ UNCHANGED <<chunks, paused, heard>>
    BY <2>1, ShapesDisconnect DEF Shapes
  <2>2. CASE ~(Disconnect /\ UNCHANGED <<chunks, paused, heard>>)
    <3>1. Tail(inbox) \in Seq(Orders)
      BY <1>15, Shifted DEF Shapes, Control
    <3>2. paused' \in BOOLEAN /\ heard' \in {"pause", "resume"} /\ inbox' = Tail(inbox)
      BY <1>15, <2>2 DEF Control
    <3> QED
      BY <1>15, <2>2, <3>1, <3>2 DEF Shapes, Control
  <2> QED
    BY <2>1, <2>2
<1> QED
  BY <1>1, <1>2, <1>3, <1>4, <1>5, <1>6, <1>7, <1>8, <1>9, <1>10, <1>11, <1>12, <1>13, <1>14,
     <1>15 DEF Loop, SkipPrivate, SkipUnencodable, Prepare

-----------------------------------------------------------------------------
(* The order of the queues: what a frame on its way comes after *)

Above(q, n)   == \A i \in DOMAIN q : q[i].no = 0 \/ q[i].no > n
AtMost(q, n)  == \A i \in DOMAIN q : q[i].no <= n
Before(p, q)  == \A i \in DOMAIN p : Above(q, p[i].no)
Ascending(q)  == \A i, j \in DOMAIN q : i < j => q[j].no = 0 \/ q[i].no < q[j].no

\* The queues hold frames newer than the last one settled, in the order they
\* were captured: first what the loop received, then the bounded channel, the
\* bridge, and the unbounded one.
Queued ==
  /\ settled <= captured
  /\ Above(latest, settled) /\ Above(chan, settled) /\ Above(held, settled) /\ Above(raw, settled)
  /\ Before(latest, chan) /\ Before(latest, held) /\ Before(latest, raw)
  /\ Before(chan, held) /\ Before(chan, raw) /\ Before(held, raw)
  /\ Ascending(chan) /\ Ascending(raw)
  /\ AtMost(latest, captured) /\ AtMost(chan, captured)
  /\ AtMost(held, captured) /\ AtMost(raw, captured)

Numbered == [no : Nat, shows : Windows \cup {None}, dirty : BOOLEAN]

LEMMA FramesNumbered == /\ Frames \subseteq Numbered /\ Items \subseteq Numbered /\ Failure \in Numbered
                        /\ \A q \in Seq(Frames) : q \in Seq(Numbered)
                        /\ \A q \in Seq(Items) : q \in Seq(Numbered)
                        /\ \A f \in Numbered : f.no \in Nat
                        /\ \A f \in Frames : f.no \in Nat /\ f.no > 0
<1>1. Frames \subseteq Numbered /\ Failure \in Numbered
  BY DEF Frames, Numbered, Failure
<1>2. Items \subseteq Numbered
  BY <1>1 DEF Items
<1>3. \A q \in Seq(Frames) : q \in Seq(Numbered)
  BY <1>1, SeqMonotonic
<1>4. \A q \in Seq(Items) : q \in Seq(Numbered)
  BY <1>2, SeqMonotonic
<1>5. \A f \in Numbered : f.no \in Nat
  BY DEF Numbered
<1>6. \A f \in Frames : f.no \in Nat /\ f.no > 0
  BY DEF Frames
<1> QED
  BY <1>1, <1>2, <1>3, <1>4, <1>5, <1>6

\* Nothing comes before or after an empty queue.
LEMMA EmptyQueue ==
  ASSUME NEW q, NEW n
  PROVE  /\ Above(<<>>, n) /\ AtMost(<<>>, n) /\ Ascending(<<>>)
         /\ Before(<<>>, q) /\ Before(q, <<>>)
<1>1. DOMAIN <<>> = {}
  BY Single
<1> QED
  BY <1>1 DEF Above, AtMost, Ascending, Before

\* A frame at the end of a queue.
LEMMA AtTheEnd ==
  ASSUME NEW q \in Seq(Numbered), NEW e \in Numbered
  PROVE  /\ \A n \in Nat : Above(q, n) /\ (e.no = 0 \/ e.no > n) => Above(Append(q, e), n)
         /\ \A n \in Nat : AtMost(q, n) /\ e.no <= n => AtMost(Append(q, e), n)
         /\ \A p : Before(q, p) /\ Above(p, e.no) => Before(Append(q, e), p)
         /\ Ascending(q) /\ (e.no = 0 \/ (\A i \in DOMAIN q : q[i].no < e.no))
              => Ascending(Append(q, e))
<1> DEFINE r == Append(q, e)
<1>1. /\ DOMAIN r = 1 .. Len(q) + 1 /\ DOMAIN q = 1 .. Len(q) /\ Len(q) \in Nat
      /\ r[Len(q) + 1] = e /\ \A i \in 1 .. Len(q) : r[i] = q[i]
  BY Appended, Places
<1>2. \A i \in DOMAIN r : (i \in DOMAIN q /\ r[i] = q[i]) \/ (i = Len(q) + 1 /\ r[i] = e)
  BY <1>1
<1> HIDE DEF r
<1>3. \A n \in Nat : Above(q, n) /\ (e.no = 0 \/ e.no > n) => Above(r, n)
  BY <1>2 DEF Above
<1>4. \A n \in Nat : AtMost(q, n) /\ e.no <= n => AtMost(r, n)
  BY <1>2 DEF AtMost
<1>5. \A p : Before(q, p) /\ Above(p, e.no) => Before(r, p)
  BY <1>2 DEF Before
<1>6. ASSUME Ascending(q), e.no = 0 \/ (\A i \in DOMAIN q : q[i].no < e.no) PROVE Ascending(r)
  <2>1. SUFFICES ASSUME NEW i \in DOMAIN r, NEW j \in DOMAIN r, i < j
                 PROVE  r[j].no = 0 \/ r[i].no < r[j].no
    BY DEF Ascending
  <2>2. i \in DOMAIN q /\ r[i] = q[i]
    BY <1>1, <1>2, <2>1
  <2>3. CASE j \in DOMAIN q /\ r[j] = q[j]
    BY <1>6, <2>1, <2>2, <2>3 DEF Ascending
  <2>4. CASE r[j] = e
    BY <1>6, <2>2, <2>4
  <2> QED
    BY <1>2, <2>3, <2>4
<1> QED
  BY <1>3, <1>4, <1>5, <1>6 DEF r

\* A queue whose frames all come before one that is put at the end of another.
LEMMA BehindAll ==
  ASSUME NEW p \in Seq(Numbered), NEW q \in Seq(Numbered), NEW e \in Numbered,
         Before(p, q), e.no = 0 \/ (\A i \in DOMAIN p : p[i].no < e.no)
  PROVE  Before(p, Append(q, e))
<1>1. SUFFICES ASSUME NEW i \in DOMAIN p PROVE Above(Append(q, e), p[i].no)
  BY DEF Before
<1>2. p[i] \in Numbered /\ p[i].no \in Nat
  BY Places, FramesNumbered
<1>3. e.no \in Nat /\ (e.no = 0 \/ e.no > p[i].no)
  BY <1>2, FramesNumbered
<1> QED
  BY <1>2, <1>3, AtTheEnd DEF Before

\* The first frame of a queue, taken out of it.
LEMMA FirstOut ==
  ASSUME NEW q \in Seq(Numbered), q # <<>>
  PROVE  /\ \A n : Above(q, n) => Above(Tail(q), n) /\ (q[1].no = 0 \/ q[1].no > n)
         /\ \A n : AtMost(q, n) => AtMost(Tail(q), n) /\ q[1].no <= n
         /\ \A p : Before(q, p) => Before(Tail(q), p) /\ Above(p, q[1].no)
         /\ \A p : Before(p, q) => Before(p, Tail(q))
         /\ Ascending(q) => Ascending(Tail(q)) /\ Above(Tail(q), q[1].no)
<1> DEFINE r == Tail(q)
<1>1. 1 \in DOMAIN q /\ \A i \in DOMAIN r : i + 1 \in DOMAIN q /\ r[i] = q[i + 1]
  BY Shifted
<1>2. DOMAIN r \subseteq Nat \ {0}
  BY Shifted, Places
<1> HIDE DEF r
<1>3. \A n : Above(q, n) => Above(r, n) /\ (q[1].no = 0 \/ q[1].no > n)
  BY <1>1 DEF Above
<1>4. \A n : AtMost(q, n) => AtMost(r, n) /\ q[1].no <= n
  BY <1>1 DEF AtMost
<1>5. \A p : Before(q, p) => Before(r, p) /\ Above(p, q[1].no)
  BY <1>1 DEF Before
<1>6. \A p : Before(p, q) => Before(p, r)
  BY <1>3 DEF Before
<1>7. ASSUME Ascending(q) PROVE Ascending(r) /\ Above(r, q[1].no)
  <2>1. \A i, j \in DOMAIN r : i < j => i + 1 < j + 1
    BY <1>2
  <2>2. Ascending(r)
    BY <1>1, <1>7, <2>1 DEF Ascending
  <2>3. \A i \in DOMAIN r : 1 < i + 1
    BY <1>2
  <2>4. Above(r, q[1].no)
    <3>1. SUFFICES ASSUME NEW i \in DOMAIN r PROVE r[i].no = 0 \/ r[i].no > q[1].no
      BY DEF Above
    <3>2. q[i + 1].no = 0 \/ q[1].no < q[i + 1].no
      BY <1>1, <1>7, <2>3 DEF Ascending
    <3> QED
      BY <1>1, <3>2
  <2> QED
    BY <2>2, <2>4
<1> QED
  BY <1>3, <1>4, <1>5, <1>6, <1>7 DEF r

\* A queue of one frame.
LEMMA OneQueued ==
  ASSUME NEW e \in Numbered
  PROVE  /\ \A n : Above(<<e>>, n) <=> (e.no = 0 \/ e.no > n)
         /\ \A n : AtMost(<<e>>, n) <=> e.no <= n
         /\ \A p : Before(<<e>>, p) <=> Above(p, e.no)
         /\ \A p : Before(p, <<e>>) <=> \A i \in DOMAIN p : e.no = 0 \/ e.no > p[i].no
<1> DEFINE r == <<e>>
<1>1. DOMAIN r = {1} /\ r[1] = e
  BY Single
<1> HIDE DEF r
<1>2. /\ \A n : Above(r, n) <=> (e.no = 0 \/ e.no > n)
      /\ \A n : AtMost(r, n) <=> e.no <= n
      /\ \A p : Before(r, p) <=> Above(p, e.no)
      /\ \A p : Before(p, r) <=> \A i \in DOMAIN p : e.no = 0 \/ e.no > p[i].no
  BY <1>1 DEF Above, AtMost, Before
<1> QED
  BY <1>2 DEF r

\* A bound that grows.
LEMMA StillAtMost ==
  ASSUME NEW q \in Seq(Numbered), NEW m \in Nat, NEW n \in Nat, m <= n, AtMost(q, m)
  PROVE  AtMost(q, n)
<1>1. \A i \in DOMAIN q : q[i].no \in Nat
  BY Places, FramesNumbered
<1> QED
  BY <1>1 DEF AtMost

LEMMA Queues ==
  Shapes => /\ latest \in Seq(Numbered) /\ chan \in Seq(Numbered)
            /\ held \in Seq(Numbered) /\ raw \in Seq(Numbered)
  BY FramesNumbered DEF Shapes

LEMMA QueuedInit == Init => Queued
  BY EmptyQueue DEF Init, Queued

\* The thread and the bridge keep the order: a frame is captured after all
\* others, and moves on from the front of one queue to the end of the next.
LEMMA QueuedFeed == Shapes /\ Queued /\ Feed => Queued'
<1> SUFFICES ASSUME Shapes, Queued, Feed PROVE Queued'
  OBVIOUS
<1> USE DEF loop, net, hist
<1>1. /\ latest \in Seq(Numbered) /\ chan \in Seq(Numbered)
      /\ held \in Seq(Numbered) /\ raw \in Seq(Numbered)
  BY Queues
<1>2. captured \in Nat /\ settled \in Nat /\ settled <= captured
  BY DEF Shapes, Queued
<1>3. CASE Capture
  <2>1. CASE bridge
    <3>1. PICK d \in BOOLEAN : raw' = Append(raw, [no |-> captured + 1, shows |-> fg, dirty |-> d])
      BY <1>3, <2>1, Zenon DEF Capture
    <3>2. /\ captured' = captured + 1 /\ UNCHANGED <<latest, chan, held, settled>>
      BY <1>3, <2>1, Zenon DEF Capture
    <3> DEFINE e == [no |-> captured + 1, shows |-> fg, dirty |-> d]
    <3>3. e \in Numbered /\ e.no = captured + 1
      BY <1>2 DEF Numbered, Shapes
    <3> HIDE DEF e
    <3>4. raw' = Append(raw, e)
      BY <3>1 DEF e
    <3>5. ASSUME NEW q \in Seq(Numbered), AtMost(q, captured)
          PROVE  (\A i \in DOMAIN q : q[i].no < e.no) /\ AtMost(q, captured + 1)
      <4>1. \A i \in DOMAIN q : q[i].no \in Nat /\ q[i].no <= captured
        BY <3>5, Places, FramesNumbered DEF AtMost
      <4> QED
        BY <1>2, <3>3, <4>1 DEF AtMost
    <3>6. Above(raw', settled) /\ Ascending(raw') /\ AtMost(raw', captured + 1)
      BY <1>1, <1>2, <3>3, <3>4, <3>5, AtTheEnd DEF Queued
    <3>7. Before(latest, raw') /\ Before(chan, raw') /\ Before(held, raw')
      BY <1>1, <3>3, <3>4, <3>5, BehindAll DEF Queued
    <3>8. AtMost(latest, captured + 1) /\ AtMost(chan, captured + 1) /\ AtMost(held, captured + 1)
      BY <1>1, <3>5 DEF Queued
    <3> QED
      BY <1>2, <3>2, <3>6, <3>7, <3>8 DEF Queued
  <2>2. CASE ~bridge
    BY <1>3, <2>2 DEF Capture, Queued
  <2> QED
    BY <2>1, <2>2
<1>4. CASE ThreadDies
  <2>1. UNCHANGED <<latest, chan, held, settled, captured>>
    BY <1>4 DEF ThreadDies
  <2>2. CASE raw' = Append(raw, Failure)
    <3>1. Failure \in Numbered /\ Failure.no = 0
      BY FramesNumbered DEF Failure
    <3>2. Above(raw', settled) /\ Ascending(raw') /\ AtMost(raw', captured)
      BY <1>1, <1>2, <2>2, <3>1, AtTheEnd DEF Queued
    <3>3. Before(latest, raw') /\ Before(chan, raw') /\ Before(held, raw')
      BY <1>1, <2>2, <3>1, BehindAll DEF Queued
    <3> QED
      BY <2>1, <3>2, <3>3 DEF Queued
  <2>3. CASE raw' = raw
    BY <2>1, <2>3 DEF Queued
  <2> QED
    BY <1>4, <2>2, <2>3, Zenon DEF ThreadDies
<1>5. ASSUME BridgeEnds, UNCHANGED <<latest, chan, settled, captured>> PROVE Queued'
  BY <1>5, EmptyQueue DEF BridgeEnds, Queued
<1>6. CASE BridgeTakes
  <2>1. CASE Head(raw) = Failure
    BY <1>5, <1>6, <2>1 DEF BridgeTakes
  <2>2. CASE Head(raw) # Failure
    <3>1. /\ raw # <<>> /\ held' = <<Head(raw)>> /\ raw' = Tail(raw)
          /\ UNCHANGED <<latest, chan, settled, captured>>
      BY <1>6, <2>2, Zenon DEF BridgeTakes
    <3>2. Head(raw) = raw[1] /\ raw[1] \in Numbered
      BY <1>1, <3>1, Shifted
    <3>3. /\ Above(raw', settled) /\ (raw[1].no = 0 \/ raw[1].no > settled)
          /\ AtMost(raw', captured) /\ raw[1].no <= captured
          /\ Before(latest, raw') /\ Before(chan, raw')
          /\ Ascending(raw') /\ Above(raw', raw[1].no)
      BY <1>1, <3>1, FirstOut DEF Queued
    <3>4. ASSUME NEW q, Before(q, raw)
          PROVE  \A i \in DOMAIN q : raw[1].no = 0 \/ raw[1].no > q[i].no
      BY <1>1, <3>1, <3>4, FirstOut DEF Before
    <3>5. Above(held', settled) /\ AtMost(held', captured) /\ Before(held', raw')
      BY <3>1, <3>2, <3>3, OneQueued
    <3>6. Before(latest, held') /\ Before(chan, held')
      BY <3>1, <3>2, <3>4, OneQueued DEF Queued
    <3> QED
      BY <3>1, <3>3, <3>5, <3>6 DEF Queued
  <2> QED
    BY <2>1, <2>2
<1>7. CASE BridgePuts
  <2>1. CASE pc = "returned"
    BY <1>5, <1>7, <2>1 DEF BridgePuts
  <2>2. CASE pc # "returned"
    <3>1. /\ held # <<>> /\ chan' = Append(chan, held[1]) /\ held' = <<>>
          /\ UNCHANGED <<latest, raw, settled, captured>>
      BY <1>7, <2>2, Zenon DEF BridgePuts
    <3>2. held[1] \in Frames /\ held[1].no \in Nat /\ held[1].no > 0 /\ held[1] \in Numbered
      BY <3>1, OneElement, FramesNumbered DEF Shapes
    <3>3. /\ held[1].no > settled /\ held[1].no <= captured /\ Above(raw, held[1].no)
      BY <1>1, <3>1, <3>2, FirstOut DEF Queued
    <3>4. ASSUME NEW q, Before(q, held)
          PROVE  \A i \in DOMAIN q : q[i].no < held[1].no
      BY <1>1, <3>1, <3>2, <3>4, FirstOut DEF Before
    <3>5. Above(chan', settled) /\ AtMost(chan', captured) /\ Ascending(chan') /\ Before(chan', raw)
      BY <1>1, <1>2, <3>1, <3>2, <3>3, <3>4, AtTheEnd DEF Queued
    <3>6. Before(latest, chan')
      BY <1>1, <3>1, <3>2, <3>4, BehindAll DEF Queued
    <3> QED
      BY <3>1, <3>5, <3>6, EmptyQueue DEF Queued
  <2> QED
    BY <2>1, <2>2
<1> QED
  BY <1>3, <1>4, <1>6, <1>7 DEF Feed

\* The frame the loop holds is settled, by a tick or with its connection.
LEMMA QueuedSettles ==
  ASSUME Shapes, Queued, latest' = <<>>, UNCHANGED <<chan, held, raw, captured>>,
         settled' = IF latest # <<>> THEN latest[1].no ELSE settled
  PROVE  Queued' /\ settled <= settled'
<1>1. latest \in Seq(Numbered) /\ captured \in Nat /\ settled \in Nat
  BY Queues DEF Shapes
<1>2. CASE latest = <<>>
  BY <1>1, <1>2, EmptyQueue DEF Queued
<1>3. CASE latest # <<>>
  <2>1. /\ Above(chan, latest[1].no) /\ Above(held, latest[1].no) /\ Above(raw, latest[1].no)
        /\ latest[1].no <= captured /\ (latest[1].no = 0 \/ latest[1].no > settled)
    BY <1>1, <1>3, FirstOut DEF Queued
  <2>2. latest[1].no \in Nat /\ latest[1].no > 0
    BY <1>3, OneElement, FramesNumbered DEF Shapes
  <2>3. settled' = latest[1].no
    BY <1>3
  <2>4. settled < settled' /\ settled' <= captured
    BY <1>1, <2>1, <2>2, <2>3
  <2>5. /\ Above(chan', settled') /\ Above(held', settled') /\ Above(raw', settled')
        /\ Above(latest', settled') /\ AtMost(latest', captured')
        /\ Before(latest', chan') /\ Before(latest', held') /\ Before(latest', raw')
    BY <2>1, <2>3, EmptyQueue
  <2>6. Queued'
    BY <2>4, <2>5 DEF Queued
  <2> QED
    BY <1>1, <2>2, <2>3, <2>4, <2>6
<1> QED
  BY <1>2, <1>3

\* The loop keeps the order, and what is settled never goes back.
LEMMA QueuedLoop == Shapes /\ Queued /\ Loop => Queued' /\ settled <= settled'
<1> SUFFICES ASSUME Shapes, Queued, Loop PROVE Queued' /\ settled <= settled'
  OBVIOUS
<1> USE DEF feed, net, hist
<1>1. CASE Disconnect
  BY <1>1, QueuedSettles DEF Disconnect
<1>2. CASE Tick
  BY <1>2, QueuedSettles DEF Tick, Take
<1>3. CASE ReceiveFrame
  <2>1. /\ chan # <<>> /\ latest' = <<Head(chan)>> /\ chan' = Tail(chan)
        /\ UNCHANGED <<held, raw, settled, captured>>
    BY <1>3 DEF ReceiveFrame
  <2>2. chan \in Seq(Numbered) /\ Head(chan) = chan[1] /\ chan[1] \in Numbered
    BY <2>1, Queues, Shifted
  <2>3. /\ Above(chan', settled) /\ (chan[1].no = 0 \/ chan[1].no > settled)
        /\ AtMost(chan', captured) /\ chan[1].no <= captured
        /\ Before(chan', held) /\ Above(held, chan[1].no)
        /\ Before(chan', raw) /\ Above(raw, chan[1].no)
        /\ Ascending(chan') /\ Above(chan', chan[1].no)
    BY <2>1, <2>2, FirstOut DEF Queued
  <2>4. /\ Above(latest', settled) /\ AtMost(latest', captured)
        /\ Before(latest', chan') /\ Before(latest', held) /\ Before(latest', raw)
    BY <2>1, <2>2, <2>3, OneQueued
  <2> QED
    BY <2>1, <2>3, <2>4 DEF Queued, Shapes
<1>4. ASSUME UNCHANGED <<latest, chan, held, raw, captured, settled>>
      PROVE  Queued' /\ settled <= settled'
  BY <1>4 DEF Queued, Shapes
<1> QED
  BY <1>1, <1>2, <1>3, <1>4 DEF Loop, Top, Connects, ConnectFails, BackoffOver, Stops, FramesEnd,
     SendAudio, SkipUnchanged, TakeUp, SkipPrivate, SkipUnencodable, Prepare, SendFrame, SendMeta,
     SendFails, NoticeCut, Control, loop

-----------------------------------------------------------------------------
(* What was sent *)

\* Nothing that was sent, or is in hand, is newer than what is settled, and a
\* frame about to be sent is newer than all that were.
SentSoFar ==
  /\ InOrder
  /\ \A i \in DOMAIN sent : sent[i].frame.no <= settled
  /\ hand # <<>> => hand[1].frame.no <= settled
  /\ pc = "sending" => \A i \in DOMAIN sent : sent[i].frame.no < hand[1].frame.no

\* The flag is what the last order left, and a frame about to be sent was
\* prepared while it was down.
FlagKept == (paused <=> heard = "pause") /\ (pc = "sending" => ~paused)

\* Between pictures the connection has carried whole pairs; after a picture
\* its record is the next thing.
Paired ==
  /\ PictureAndRecord
  /\ pc \in {"select", "sending"} => Len(wire) % 2 = 0
  /\ pc = "recording" => Len(wire) % 2 = 1 /\ wire[Len(wire)].no = hand[1].frame.no

\* What the environment, the thread and the bridge leave alone.
LEMMA OutsideTheLoop ==
  Environment \/ Feed => UNCHANGED <<pc, hand, paused, latest, sent, wire, settled, heard>>
<1> USE DEF loop, hist, net
<1>1. Environment => UNCHANGED <<pc, hand, paused, latest, sent, wire, settled, heard>>
  BY DEF Environment, Switch, Order, RequestStop, Cut, Listen
<1>2. Feed => UNCHANGED <<pc, hand, paused, latest, sent, wire, settled, heard>>
  BY DEF Feed, Capture, ThreadDies, BridgeTakes, BridgePuts
<1> QED
  BY <1>1, <1>2

\* What a step of the loop does to the frame in hand and to what was sent.
LEMMA InTheLoop ==
  Loop => \/ SendFrame
          \/ Prepare
          \/ SendMeta
          \/ sent' = sent /\ hand' = <<>> /\ pc' = "top" /\ UNCHANGED wire
          \/ sent' = sent /\ pc = "connecting" /\ pc' = "select" /\ wire' = <<>> /\ UNCHANGED hand
          \/ /\ UNCHANGED <<sent, hand, wire>>
             /\ pc' = pc \/ pc' \in {"top", "connecting", "backoff", "returned"}
  BY DEF Loop, Top, Connects, ConnectFails, BackoffOver, Stops, ReceiveFrame, FramesEnd, SendAudio,
     SkipUnchanged, TakeUp, Tick, SkipPrivate, SkipUnencodable, SendFails, NoticeCut, Control,
     Disconnect, loop, hist

LEMMA SentInit == Init => SentSoFar /\ FlagKept /\ Paired
<1> SUFFICES ASSUME Init PROVE SentSoFar /\ FlagKept /\ Paired
  OBVIOUS
<1>1. DOMAIN sent = {} /\ DOMAIN wire = {} /\ hand = <<>> /\ pc = "top"
  BY Single DEF Init
<1>2. SentSoFar
  BY <1>1 DEF SentSoFar, InOrder
<1>3. FlagKept
  BY DEF Init, FlagKept
<1>4. Paired
  BY <1>1 DEF Paired, PictureAndRecord
<1> QED
  BY <1>2, <1>3, <1>4

LEMMA SentStep ==
  ASSUME Shapes, Queued, SentSoFar, Shapes', [Next]_vars
  PROVE  SentSoFar'
<1>1. settled \in Nat /\ settled' \in Nat /\ sent \in Seq(Hands) /\ hand \in Seq(Hands)
  BY DEF Shapes
<1>2. \A i \in DOMAIN sent : sent[i].frame.no \in Nat
  <2>1. \A i \in DOMAIN sent : sent[i] \in Hands
    BY <1>1, Places
  <2> QED
    BY <2>1, FramesNumbered DEF Hands
<1>3. hand # <<>> => hand[1] \in Hands /\ hand[1].frame.no \in Nat
  <2>1. hand # <<>> => hand[1] \in Hands
    BY <1>1, Shifted
  <2> QED
    BY <2>1, FramesNumbered DEF Hands
<1>4. ASSUME UNCHANGED <<pc, hand, sent, settled>> PROVE SentSoFar'
  BY <1>4 DEF SentSoFar, InOrder
<1>5. CASE Environment \/ Feed
  BY <1>4, <1>5, OutsideTheLoop
<1>6. CASE UNCHANGED vars
  BY <1>4, <1>6 DEF vars, loop, hist
<1>7. CASE Loop
  <2>1. settled <= settled'
    BY <1>7, QueuedLoop
  <2>2. CASE SendFrame
    <3>1. hand # <<>> /\ pc = "sending"
      BY <2>2 DEF Shapes, SendFrame
    <3>2. /\ sent' = Append(sent, hand[1]) /\ pc' = "recording" /\ hand' = hand /\ settled' = settled
      BY <2>2 DEF SendFrame
    <3>3. /\ DOMAIN sent' = 1 .. Len(sent) + 1 /\ DOMAIN sent = 1 .. Len(sent) /\ Len(sent) \in Nat
          /\ sent'[Len(sent) + 1] = hand[1] /\ \A i \in 1 .. Len(sent) : sent'[i] = sent[i]
      BY <1>1, <1>3, <3>1, <3>2, Appended, Places
    <3>4. InOrder'
      <4>1. SUFFICES ASSUME NEW i \in DOMAIN sent', NEW j \in DOMAIN sent', i < j
                     PROVE  sent'[i].frame.no < sent'[j].frame.no
        BY DEF InOrder
      <4>2. i \in DOMAIN sent /\ sent'[i] = sent[i]
        BY <3>3, <4>1
      <4>3. CASE j \in DOMAIN sent
        BY <3>3, <4>1, <4>2, <4>3 DEF SentSoFar, InOrder
      <4>4. CASE j = Len(sent) + 1
        BY <3>1, <3>3, <4>2, <4>4 DEF SentSoFar
      <4> QED
        BY <3>3, <4>3, <4>4
    <3>5. \A i \in DOMAIN sent' : sent'[i].frame.no <= settled'
      <4>1. SUFFICES ASSUME NEW i \in DOMAIN sent' PROVE sent'[i].frame.no <= settled
        BY <3>2
      <4>2. (i \in DOMAIN sent /\ sent'[i] = sent[i]) \/ sent'[i] = hand[1]
        BY <3>3
      <4> QED
        BY <3>1, <4>2 DEF SentSoFar
    <3> QED
      BY <3>2, <3>4, <3>5 DEF SentSoFar
  <2>3. CASE Prepare
    <3>1. /\ pc = "select" /\ latest # <<>> /\ settled' = latest[1].no /\ sent' = sent
          /\ hand' = <<[frame |-> latest[1], named |-> fg]>>
      BY <2>3 DEF Prepare, TakeUp, Tick, Take
    <3>2. latest \in Seq(Numbered) /\ latest[1] \in Frames /\ latest[1].no > 0
      BY <3>1, Queues, OneElement, FramesNumbered DEF Shapes
    <3>3. latest[1].no > settled
      BY <3>1, <3>2, FirstOut DEF Queued
    <3>4. hand'[1].frame = latest[1]
      BY <3>1
    <3>5. \A i \in DOMAIN sent : sent[i].frame.no < latest[1].no
      BY <1>1, <1>2, <3>2, <3>3, FramesNumbered DEF SentSoFar
    <3> QED
      BY <1>1, <1>2, <2>1, <3>1, <3>4, <3>5 DEF SentSoFar, InOrder
  <2>4. CASE sent' = sent /\ pc' # "sending" /\ (hand' = <<>> \/ hand' = hand)
    <3>1. \A i \in DOMAIN sent : sent[i].frame.no <= settled'
      BY <1>1, <1>2, <2>1 DEF SentSoFar
    <3>2. hand # <<>> => hand[1].frame.no <= settled'
      BY <1>1, <1>3, <2>1 DEF SentSoFar
    <3> QED
      BY <2>4, <3>1, <3>2 DEF SentSoFar, InOrder
  <2>5. CASE SendMeta
    BY <2>4, <2>5 DEF SendMeta
  <2>6. CASE UNCHANGED <<sent, hand, pc>>
    <3>1. \A i \in DOMAIN sent : sent[i].frame.no <= settled'
      BY <1>1, <1>2, <2>1 DEF SentSoFar
    <3>2. hand # <<>> => hand[1].frame.no <= settled'
      BY <1>1, <1>3, <2>1 DEF SentSoFar
    <3> QED
      BY <2>6, <3>1, <3>2 DEF SentSoFar, InOrder
  <2> QED
    BY <1>7, <2>2, <2>3, <2>4, <2>5, <2>6, InTheLoop
<1> QED
  BY <1>5, <1>6, <1>7 DEF Next

LEMMA FlagStep == Shapes /\ FlagKept /\ [Next]_vars => FlagKept'
<1> SUFFICES ASSUME Shapes, FlagKept, [Next]_vars PROVE FlagKept'
  OBVIOUS
<1>1. ASSUME UNCHANGED <<pc, paused, heard>> PROVE FlagKept'
  BY <1>1 DEF FlagKept
<1>2. ASSUME UNCHANGED <<paused, heard>>, pc' # "sending" PROVE FlagKept'
  BY <1>2 DEF FlagKept
<1>3. CASE Environment \/ Feed
  BY <1>1, <1>3, OutsideTheLoop
<1>4. CASE UNCHANGED vars
  BY <1>1, <1>4 DEF vars, loop, hist
<1>5. CASE Prepare
  <2>1. ~paused /\ UNCHANGED <<paused, heard>>
    BY <1>5 DEF Prepare, TakeUp, Tick, Check
  <2> QED
    BY <2>1 DEF FlagKept
<1>6. CASE Control
  <2>1. CASE UNCHANGED <<paused, heard>> /\ pc' = "top"
    BY <1>2, <2>1
  <2>2. CASE /\ paused' = (Head(inbox) # "resume") /\ pc' = pc
             /\ heard' = IF Head(inbox) = "resume" THEN "resume" ELSE "pause"
    BY <1>6, <2>2 DEF FlagKept, Control
  <2> QED
    BY <1>6, <2>1, <2>2 DEF Control, Disconnect
<1>7. CASE Top \/ Connects \/ ConnectFails \/ BackoffOver \/ Stops \/ FramesEnd
             \/ SendFrame \/ SendMeta \/ SendFails \/ NoticeCut
  BY <1>2, <1>7 DEF Top, Connects, ConnectFails, BackoffOver, Stops, FramesEnd, SendFrame, SendMeta,
     SendFails, NoticeCut, Disconnect, hist
<1>8. CASE ReceiveFrame \/ SkipUnchanged \/ SkipPrivate \/ SkipUnencodable
  BY <1>1, <1>8 DEF ReceiveFrame, SkipUnchanged, SkipPrivate, SkipUnencodable, TakeUp, Tick, hist
<1>9. CASE SendAudio
  BY <1>1, <1>2, <1>9 DEF SendAudio, Disconnect, loop, hist
<1> QED
  BY <1>3, <1>4, <1>5, <1>6, <1>7, <1>8, <1>9 DEF Next, Loop

\* A picture goes out only from a state in which the flag is down.
LEMMA SendsUnpaused ==
  Shapes /\ FlagKept /\ [Next]_vars => (sent' # sent => heard # "pause")
<1> SUFFICES ASSUME Shapes, FlagKept, [Next]_vars, sent' # sent PROVE heard # "pause"
  OBVIOUS
<1>1. ~(Environment \/ Feed)
  BY OutsideTheLoop
<1>2. ~UNCHANGED vars
  BY DEF vars, hist
<1>3. SendFrame
  BY <1>1, <1>2, InTheLoop DEF Next, Prepare, TakeUp, Tick, SendMeta, hist
<1> QED
  BY <1>3 DEF SendFrame, FlagKept

LEMMA Parity ==
  \A n \in Nat : /\ n % 2 = 0 \/ n % 2 = 1
                 /\ n % 2 = 0 => (n + 1) % 2 = 1
                 /\ n % 2 = 1 => (n + 1) % 2 = 0
  OBVIOUS

Alternates(w) ==
  \A i \in DOMAIN w : /\ w[i].kind = IF i % 2 = 1 THEN "frame" ELSE "record"
                      /\ i % 2 = 0 => w[i].no = w[i - 1].no

\* One more item on the wire.
LEMMA OneMore ==
  ASSUME NEW T, NEW w \in Seq(T), NEW e \in T, Alternates(w),
         e.kind = IF Len(w) % 2 = 0 THEN "frame" ELSE "record",
         Len(w) % 2 = 1 => e.no = w[Len(w)].no
  PROVE  /\ Alternates(Append(w, e))
         /\ Len(w) % 2 = 0 => Len(Append(w, e)) % 2 = 1
         /\ Len(w) % 2 = 1 => Len(Append(w, e)) % 2 = 0
         /\ Append(w, e)[Len(Append(w, e))] = e
<1> DEFINE n == Len(w)
           r == Append(w, e)
<1>1. /\ DOMAIN r = 1 .. n + 1 /\ DOMAIN w = 1 .. n /\ n \in Nat /\ Len(r) = n + 1
      /\ r[n + 1] = e /\ \A i \in 1 .. n : r[i] = w[i]
  BY Appended, Places
<1> HIDE DEF n, r
<1>2. n % 2 = 0 \/ n % 2 = 1
  BY <1>1, Parity
<1>3. (n % 2 = 0 => (n + 1) % 2 = 1) /\ (n % 2 = 1 => (n + 1) % 2 = 0)
  BY <1>1, Parity
<1>4. ASSUME NEW i \in DOMAIN r
      PROVE  /\ r[i].kind = IF i % 2 = 1 THEN "frame" ELSE "record"
             /\ i % 2 = 0 => r[i].no = r[i - 1].no
  <2>1. CASE i \in 1 .. n
    <3>1. r[i] = w[i] /\ i \in DOMAIN w
      BY <1>1, <2>1
    <3>2. i % 2 = 0 => i - 1 \in 1 .. n
      BY <1>1, <2>1
    <3> QED
      BY <1>1, <3>1, <3>2 DEF Alternates
  <2>2. CASE i = n + 1
    <3>1. r[i] = e /\ i - 1 = n
      BY <1>1, <2>2
    <3>2. CASE n % 2 = 0
      BY <1>3, <2>2, <3>1, <3>2 DEF n
    <3>3. CASE n % 2 = 1
      <4>1. n \in 1 .. n
        BY <1>1, <3>3
      <4>2. r[n] = w[n]
        BY <1>1, <4>1
      <4> QED
        BY <1>3, <2>2, <3>1, <3>3, <4>2 DEF n
    <3> QED
      BY <1>2, <3>2, <3>3
  <2> QED
    BY <1>1, <1>4, <2>1, <2>2
<1>5. Alternates(r)
  BY <1>4 DEF Alternates
<1> QED
  BY <1>1, <1>3, <1>5 DEF n, r

LEMMA PairedStep == Shapes /\ Paired /\ [Next]_vars => Paired'
<1> SUFFICES ASSUME Shapes, Paired, [Next]_vars PROVE Paired'
  OBVIOUS
<1> DEFINE Entries == [kind : {"frame", "record"}, no : Nat]
<1>1. wire \in Seq(Entries) /\ hand \in Seq(Hands)
  BY DEF Shapes
<1>2. ASSUME UNCHANGED <<pc, hand, wire>> PROVE Paired'
  BY <1>2 DEF Paired, PictureAndRecord
<1>3. CASE Environment \/ Feed
  BY <1>2, <1>3, OutsideTheLoop
<1>4. CASE UNCHANGED vars
  BY <1>2, <1>4 DEF vars, loop, hist
<1>5. ASSUME hand # <<>> PROVE hand[1].frame.no \in Nat
  <2>1. hand[1] \in Hands
    BY <1>1, <1>5, Shifted
  <2> QED
    BY <2>1, FramesNumbered DEF Hands
<1>6. CASE SendFrame
  <2>1. /\ pc = "sending" /\ pc' = "recording" /\ hand' = hand /\ hand # <<>>
        /\ wire' = Append(wire, [kind |-> "frame", no |-> hand[1].frame.no])
    BY <1>6 DEF SendFrame, Shapes
  <2> DEFINE e == [kind |-> "frame", no |-> hand[1].frame.no]
  <2>2. e \in Entries /\ e.kind = "frame" /\ e.no = hand[1].frame.no
    BY <1>5, <2>1
  <2>3. wire' = Append(wire, e)
    BY <2>1
  <2>4. Len(wire) % 2 = 0
    BY <2>1 DEF Paired
  <2> HIDE DEF e, Entries
  <2>5. PictureAndRecord' /\ Len(wire') % 2 = 1 /\ wire'[Len(wire')] = e
    <3>1. Alternates(wire)
      BY DEF Paired, PictureAndRecord, Alternates
    <3>2. Alternates(wire') /\ Len(wire') % 2 = 1 /\ wire'[Len(wire')] = e
      BY <1>1, <2>2, <2>3, <2>4, <3>1, OneMore
    <3> QED
      BY <3>2 DEF PictureAndRecord, Alternates
  <2> QED
    BY <2>1, <2>2, <2>5 DEF Paired
<1>7. CASE SendMeta
  <2>1. /\ pc = "recording" /\ pc' = "select" /\ hand # <<>>
        /\ wire' = Append(wire, [kind |-> "record", no |-> hand[1].frame.no])
    BY <1>7 DEF SendMeta, Shapes
  <2> DEFINE e == [kind |-> "record", no |-> hand[1].frame.no]
  <2>2. e \in Entries /\ e.kind = "record" /\ e.no = hand[1].frame.no
    BY <1>5, <2>1
  <2>3. wire' = Append(wire, e)
    BY <2>1
  <2>4. Len(wire) % 2 = 1 /\ wire[Len(wire)].no = hand[1].frame.no
    BY <2>1 DEF Paired
  <2> HIDE DEF e, Entries
  <2>5. PictureAndRecord' /\ Len(wire') % 2 = 0
    <3>1. Alternates(wire)
      BY DEF Paired, PictureAndRecord, Alternates
    <3>2. Alternates(wire') /\ Len(wire') % 2 = 0
      BY <1>1, <2>2, <2>3, <2>4, <3>1, OneMore
    <3> QED
      BY <3>2 DEF PictureAndRecord, Alternates
  <2> QED
    BY <2>1, <2>5 DEF Paired
<1>8. CASE Prepare
  BY <1>8 DEF Prepare, TakeUp, Tick, Paired, PictureAndRecord
<1>9. CASE pc' = "select" /\ wire' = <<>>
  <2>1. DOMAIN wire' = {} /\ Len(wire') = 0
    BY <1>9, Single
  <2> QED
    BY <1>9, <2>1 DEF Paired, PictureAndRecord
<1>10. CASE UNCHANGED wire /\ pc' \in {"top", "connecting", "backoff", "returned"}
  BY <1>10 DEF Paired, PictureAndRecord
<1> QED
  BY <1>2, <1>3, <1>4, <1>6, <1>7, <1>8, <1>9, <1>10, InTheLoop DEF Next

-----------------------------------------------------------------------------
(* The theorems *)

Inductive == Shapes /\ Queued /\ SentSoFar /\ FlagKept /\ Paired

LEMMA InductiveInit == Init => Inductive
  BY ShapesInit, QueuedInit, SentInit DEF Inductive

LEMMA InductiveStep == Inductive /\ [Next]_vars => Inductive'
<1> SUFFICES ASSUME Inductive, [Next]_vars PROVE Inductive'
  OBVIOUS
<1> USE DEF Inductive
<1>1. Shapes'
  <2>1. CASE UNCHANGED vars
    BY <2>1 DEF Shapes, vars, feed, loop, net, hist
  <2> QED
    BY <2>1, ShapesEnvironment, ShapesFeed, ShapesLoop DEF Next
<1>2. Queued'
  <2>1. ASSUME UNCHANGED <<latest, chan, held, raw, captured, settled>> PROVE Queued'
    BY <2>1 DEF Queued
  <2>2. CASE UNCHANGED vars
    BY <2>1, <2>2 DEF vars, feed, loop, hist
  <2>3. CASE Environment
    BY <2>1, <2>3 DEF Environment, Switch, Order, RequestStop, Cut, Listen, feed, loop, hist
  <2> QED
    BY <2>2, <2>3, QueuedFeed, QueuedLoop DEF Next
<1> QED
  BY <1>1, <1>2, SentStep, FlagStep, PairedStep

LEMMA Invariant == Spec => []Inductive
  BY InductiveInit, InductiveStep, PTL DEF Spec

\* Every variable keeps its shape, the bounded channel its capacity, the waits
\* between connections their bounds, and no tick settles a frame that was not
\* captured (run.rs:30-62, run.rs:222).
THEOREM TypeCorrect == Spec => []AgentTypeOK
<1>1. Inductive => AgentTypeOK
  <2> SUFFICES ASSUME Inductive PROVE AgentTypeOK
    OBVIOUS
  <2>1. settled \in 0 .. captured
    BY DEF Inductive, Shapes, Queued
  <2> QED
    BY <2>1 DEF Inductive, Shapes, AgentTypeOK, Items, Hands
<1> QED
  BY <1>1, Invariant, PTL

\* However connections break, frames pile up and threads die, no picture is
\* sent twice or behind a newer one (run.rs:120-131).
THEOREM PicturesInOrder == Spec => []InOrder
<1>1. Inductive => InOrder
  BY DEF Inductive, SentSoFar
<1> QED
  BY <1>1, Invariant, PTL

\* Every record follows its own picture on the connection (run.rs:194-201),
\* which is what the broker's pairing by arrival needs.
THEOREM RecordsFollowPictures == Spec => []PictureAndRecord
<1>1. Inductive => PictureAndRecord
  BY DEF Inductive, Paired
<1> QED
  BY <1>1, Invariant, PTL

\* After a pause or a wipe no picture leaves before a resume, on any
\* connection (run.rs:208-217, privacy.rs:15-19).
THEOREM PauseRespected == Spec => PauseHolds
<1>1. Inductive /\ [Next]_vars => [sent' # sent => heard # "pause"]_vars
  BY SendsUnpaused DEF Inductive
<1> QED
  BY <1>1, Invariant, PTL DEF Spec, PauseHolds
=============================================================================
