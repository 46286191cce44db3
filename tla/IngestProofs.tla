---------------------------- MODULE IngestProofs ----------------------------
(***************************************************************************)
(* Proofs about Ingest, for any number of connections and captures: the    *)
(* session counter is exact and max_clients is respected.                  *)
(***************************************************************************)
EXTENDS Ingest, FiniteSetTheorems, TLAPS

\* The connections whose task is in one of the phases K.
At(K) == {i \in Conns : st[i] \in K}

(***************************************************************************)
(* What the counter needs to know: the phases are phases, the counter is a *)
(* number, and a connection that was never opened has no task.             *)
(***************************************************************************)
PhaseInv ==
  /\ st \in [Conns -> States]
  /\ count \in Int
  /\ opened \in 0 .. NumConns
  /\ \A i \in Conns : i > opened => st[i] = "none"

PlacesInv == PhaseInv /\ PlacesCounted /\ NeverOverbooked

\* One for a phase that is counted, nothing for another.
Weight(s) == IF s \in Counted THEN 1 ELSE 0

\* What a step does to the counter: the task of i moves to phase s and the
\* counter follows it; a place is given only while one is free.
Moves(i, s) ==
  /\ st' = [st EXCEPT ![i] = s]
  /\ count' = count + Weight(s) - Weight(st[i])
  /\ s \in Holding => st[i] \in Holding \/ count < MaxSessions

-----------------------------------------------------------------------------
(* Counting tasks by phase *)

\* The connections are finitely many, and so are those in any phases.
LEMMA AtFinite ==
  ASSUME NEW K
  PROVE  IsFiniteSet(At(K)) /\ Cardinality(At(K)) \in Nat
<1>1. IsFiniteSet(Conns)
  BY FS_Interval, IngestBounds DEF Conns
<1>2. At(K) \in SUBSET Conns
  BY DEF At
<1> QED
  BY <1>1, <1>2, FS_Subset, FS_CardinalityType

\* One task that changes its phase changes the number by one at most.
LEMMA AtMoves ==
  ASSUME NEW K, NEW i \in Conns, NEW s,
         st \in [Conns -> States], st' = [st EXCEPT ![i] = s]
  PROVE  Cardinality(At(K)') = Cardinality(At(K))
           + (IF s \in K THEN 1 ELSE 0) - (IF st[i] \in K THEN 1 ELSE 0)
<1>1. \A j \in Conns : st'[j] = IF j = i THEN s ELSE st[j]
  OBVIOUS
<1>2. IsFiniteSet(At(K)) /\ Cardinality(At(K)) \in Nat
  BY AtFinite
<1>3. CASE s \in K
  <2>1. At(K)' = At(K) \cup {i}
    BY <1>1, <1>3 DEF At
  <2>2. i \in At(K) <=> st[i] \in K
    BY DEF At
  <2>3. Cardinality(At(K) \cup {i})
          = IF i \in At(K) THEN Cardinality(At(K)) ELSE Cardinality(At(K)) + 1
    BY <1>2, FS_AddElement
  <2> QED
    BY <1>2, <1>3, <2>1, <2>2, <2>3
<1>4. CASE s \notin K
  <2>1. At(K)' = At(K) \ {i}
    BY <1>1, <1>4 DEF At
  <2>2. i \in At(K) <=> st[i] \in K
    BY DEF At
  <2>3. Cardinality(At(K) \ {i})
          = IF i \in At(K) THEN Cardinality(At(K)) - 1 ELSE Cardinality(At(K))
    BY <1>2, FS_RemoveElement
  <2> QED
    BY <1>2, <1>4, <2>1, <2>2, <2>3
<1> QED
  BY <1>3, <1>4

\* Whoever holds a place is counted.
LEMMA HoldersCounted == Cardinality(At(Holding)) <= Cardinality(At(Counted))
<1>1. At(Holding) \in SUBSET At(Counted)
  BY DEF At, Counted
<1> QED
  BY <1>1, AtFinite, FS_Subset

LEMMA PlacesAt ==
  /\ PlacesCounted <=> count = Cardinality(At(Counted))
  /\ NeverOverbooked <=> Cardinality(At(Holding)) <= MaxSessions
BY DEF PlacesCounted, NeverOverbooked, At

-----------------------------------------------------------------------------
(* Every step moves one task, all of them, or none *)

LEMMA MovesKeepPlaces ==
  ASSUME PlacesInv, NEW i \in Conns, NEW s, Moves(i, s)
  PROVE  PlacesCounted' /\ NeverOverbooked'
<1>1. st \in [Conns -> States] /\ st' = [st EXCEPT ![i] = s]
  BY DEF PlacesInv, PhaseInv, Moves
<1>2. /\ Cardinality(At(Counted)') = Cardinality(At(Counted)) + Weight(s) - Weight(st[i])
      /\ Cardinality(At(Holding)') = Cardinality(At(Holding))
           + (IF s \in Holding THEN 1 ELSE 0) - (IF st[i] \in Holding THEN 1 ELSE 0)
  BY <1>1, AtMoves DEF Weight
<1>3. Cardinality(At(Counted)) \in Nat /\ Cardinality(At(Holding)) \in Nat
  BY AtFinite
<1>4. count = Cardinality(At(Counted)) /\ Cardinality(At(Holding)) <= MaxSessions
  BY PlacesAt DEF PlacesInv
<1>5. count' = Cardinality(At(Counted)')
  BY <1>2, <1>4 DEF Moves
<1>6. Cardinality(At(Holding)') <= MaxSessions
  BY <1>2, <1>3, <1>4, HoldersCounted, IngestBounds DEF Moves
<1> QED
  BY <1>5, <1>6 DEF PlacesCounted, NeverOverbooked, At

\* Everything the phases and the counter are read from.
LEMMA UnmovedKeepsPlaces ==
  ASSUME PlacesInv, UNCHANGED <<st, count>>
  PROVE  PlacesCounted' /\ NeverOverbooked'
BY DEF PlacesInv, PlacesCounted, NeverOverbooked

\* The steps of one task, by what they do to the counter.
LEMMA SessionMoves ==
  ASSUME PlacesInv, NEW i \in Conns, SessionStep(i) \/ StorageError(i)
  PROVE  /\ opened' = opened
         /\ st[i] # "none"
         /\ UNCHANGED <<st, count>> \/ \E s \in States : Moves(i, s)
<1> USE DEF States, Counted, Holding, Serving, Weight, Moves, agent
<1> st \in [Conns -> States] /\ count \in Int
  BY DEF PlacesInv, PhaseInv
<1>1. CASE Admit(i)
  <2>1. CASE count >= MaxSessions
    <3>1. Moves(i, "turnedAway")
      BY <1>1, <2>1 DEF Admit
    <3> QED
      BY <1>1, <3>1 DEF Admit
  <2>2. CASE ~(count >= MaxSessions)
    <3>1. count < MaxSessions
      BY <2>2, IngestBounds
    <3>2. Moves(i, "greeting")
      BY <1>1, <2>2, <3>1 DEF Admit
    <3> QED
      BY <1>1, <3>2 DEF Admit
  <2> QED
    BY <2>1, <2>2
<1>2. CASE TurnAway(i)
  BY <1>2 DEF TurnAway, Drop
<1>3. CASE Greet(i)
  <2>1. Moves(i, "open") /\ st[i] = "greeting" /\ opened' = opened
    BY <1>3 DEF Greet
  <2> QED
    BY <2>1
<1>4. CASE Reject(i) \/ Undecodable(i) \/ StorageError(i) \/ HangUp(i)
  <2>1. Moves(i, "closed") /\ st[i] \in Holding /\ opened' = opened
    BY <1>4 DEF Reject, Undecodable, StorageError, HangUp, Close, Drop
  <2> QED
    BY <2>1
<1>5. CASE BeginFrame(i) \/ AddRegion(i) \/ EndFrame(i)
  BY <1>5 DEF BeginFrame, AddRegion, EndFrame, InLoop
<1>6. CASE TakeMeta(i) \/ PutObject(i) \/ InsertRow(i)
  <2>1. /\ st[i] \in Serving /\ opened' = opened
        /\ \E s \in Serving : Moves(i, s)
    BY <1>6 DEF TakeMeta, PutObject, InsertRow, InLoop
  <2> QED
    BY <2>1
<1>7. CASE HeartbeatTick(i)
  BY <1>7 DEF HeartbeatTick, Close, Drop
<1> QED
  BY <1>1, <1>2, <1>3, <1>4, <1>5, <1>6, <1>7
     DEF SessionStep, Admission, Pictures, Metadata, Departure

-----------------------------------------------------------------------------
(* The invariant *)

LEMMA PlacesInit == Init => PlacesInv
<1> SUFFICES ASSUME Init PROVE PlacesInv
  OBVIOUS
<1>1. PhaseInv
  BY IngestBounds DEF Init, PhaseInv, States
<1>2. At(Counted) = {} /\ At(Holding) = {}
  BY DEF Init, At, Counted, Holding, Serving
<1> QED
  BY <1>1, <1>2, PlacesAt, FS_EmptySet, IngestBounds DEF PlacesInv, Init

LEMMA PlacesStep == PlacesInv /\ [Next]_vars => PlacesInv'
<1> SUFFICES ASSUME PlacesInv, [Next]_vars PROVE PlacesInv'
  OBVIOUS
<1>p. /\ st \in [Conns -> States] /\ count \in Int /\ opened \in 0 .. NumConns
      /\ \A i \in Conns : i > opened => st[i] = "none"
  BY DEF PlacesInv, PhaseInv
<1>1. CASE Connect
  <2>1. opened + 1 \in Conns /\ st[opened + 1] = "none" /\ opened' = opened + 1
    BY <1>1, <1>p, IngestBounds DEF Connect, Conns
  <2>2. Moves(opened + 1, "accepted")
    BY <1>1, <1>p, <2>1 DEF Connect, Moves, Weight, Counted, Holding, Serving
  <2>3. PhaseInv'
    BY <1>1, <1>p, <2>1, IngestBounds DEF Connect, PhaseInv, States, Conns
  <2> QED
    BY <2>1, <2>2, <2>3, MovesKeepPlaces DEF PlacesInv
<1>2. CASE SendFrame \/ SendMeta \/ Reconnect \/ Cut \/ UNCHANGED vars
  <2>1. UNCHANGED <<st, count, opened>>
    BY <1>2 DEF SendFrame, SendMeta, Reconnect, Cut, Disconnected, StartedOver, vars, agent
  <2>2. PhaseInv'
    BY <1>p, <2>1 DEF PhaseInv
  <2> QED
    BY <2>1, <2>2, UnmovedKeepsPlaces DEF PlacesInv
<1>3. CASE Crash
  <2>1. PhaseInv'
    BY <1>3, <1>p DEF Crash, PhaseInv, States, agent
  <2>2. At(Counted)' = {} /\ At(Holding)' = {}
    BY <1>3, <1>p DEF Crash, At, Counted, Holding, Serving
  <2>3. count' = Cardinality(At(Counted)') /\ Cardinality(At(Holding)') <= MaxSessions
    BY <1>3, <2>2, FS_EmptySet, IngestBounds DEF Crash
  <2> QED
    BY <2>1, <2>3 DEF PlacesInv, PlacesCounted, NeverOverbooked, At
<1>4. CASE \E i \in Conns : SessionStep(i) \/ StorageError(i)
  <2> PICK i \in Conns : SessionStep(i) \/ StorageError(i)
    BY <1>4
  <2>1. /\ opened' = opened /\ st[i] # "none"
        /\ UNCHANGED <<st, count>> \/ \E s \in States : Moves(i, s)
    BY SessionMoves
  <2>2. CASE UNCHANGED <<st, count>>
    BY <1>p, <2>1, <2>2, UnmovedKeepsPlaces DEF PlacesInv, PhaseInv
  <2>3. CASE \E s \in States : Moves(i, s)
    <3> PICK s \in States : Moves(i, s)
      BY <2>3
    <3>1. PhaseInv'
      BY <1>p, <2>1 DEF PhaseInv, Moves, Weight
    <3> QED
      BY <3>1, MovesKeepPlaces DEF PlacesInv
  <2> QED
    BY <2>1, <2>2, <2>3
<1> QED
  BY <1>1, <1>2, <1>3, <1>4 DEF Next, Agent

(***************************************************************************)
(* Broker.sessions is exact in every reachable state, through every way a  *)
(* session can be turned away, refused, fail, time out or be killed        *)
(* (fetch_add, fetch_sub and SessionGuard, ingest.rs).                     *)
(***************************************************************************)
THEOREM CounterExact == Spec => []PlacesCounted
<1>1. PlacesInv => PlacesCounted
  BY DEF PlacesInv
<1> QED
  BY <1>1, PlacesInit, PlacesStep, PTL DEF Spec

(***************************************************************************)
(* However many connections race for the last place, never more than       *)
(* max_clients of them are served (handle_conn, ingest.rs).                *)
(***************************************************************************)
THEOREM MaxClientsRespected == Spec => []NeverOverbooked
<1>1. PlacesInv => NeverOverbooked
  BY DEF PlacesInv
<1> QED
  BY <1>1, PlacesInit, PlacesStep, PTL DEF Spec

-----------------------------------------------------------------------------
(* Type correctness *)

\* An item that carries a capture carries one, and so does a capture in hand.
ItemsNamed ==
  \A i \in Conns : \A n \in 1 .. Len(wire[i]) :
    wire[i][n].kind \in ItemKinds \ {"goodHello", "badHello"} => wire[i][n].cap \in Captures

HandNamed == \A i \in Conns : st[i] \in {"put", "row"} => hand[i].cap \in Captures

TypeInv == TypeOK /\ ItemsNamed /\ HandNamed /\ PlacesInv

Items == [kind : ItemKinds, cap : 0 .. NumCaptures]

\* No set of connections is larger than all of them.
LEMMA SomeConns ==
  ASSUME NEW T \in SUBSET Conns
  PROVE  Cardinality(T) \in 0 .. NumConns
<1>1. IsFiniteSet(Conns) /\ Cardinality(Conns) = NumConns
  BY FS_Interval, IngestBounds DEF Conns
<1>2. IsFiniteSet(T) /\ Cardinality(T) <= NumConns
  BY <1>1, FS_Subset
<1> QED
  BY <1>2, FS_CardinalityType, IngestBounds

LEMMA TypeInit == Init => TypeInv
<1> SUFFICES ASSUME Init PROVE TypeInv
  OBVIOUS
<1>1. PlacesInv
  BY PlacesInit
<1>2. AgentType /\ NetType
  BY IngestBounds DEF Init, AgentType, NetType
<1>3. SessionType
  BY IngestBounds DEF Init, SessionType, States, NoFrame, NoHand
<1>4. DiskType /\ cuts \in 0 .. MaxCuts /\ faults \in 0 .. MaxFaults
  BY IngestBounds DEF Init, DiskType
<1>5. ItemsNamed /\ HandNamed
  BY DEF Init, ItemsNamed, HandNamed
<1> QED
  BY <1>1, <1>2, <1>3, <1>4, <1>5 DEF TypeInv, TypeOK

\* What is on the wire: taken off at the head, cut at the tail, added at the end.
LEMMA AgentNetStep ==
  ASSUME TypeInv, [Next]_vars
  PROVE  AgentType' /\ NetType' /\ ItemsNamed'
<1> USE IngestBounds
<1>t. AgentType /\ NetType /\ ItemsNamed /\ st \in [Conns -> States]
  BY DEF TypeInv, TypeOK, SessionType
<1>w. wire \in [Conns -> Seq(Items)]
  BY <1>t DEF NetType, Items
<1> USE DEF Conns, Captures
<1>1. CASE UNCHANGED <<agent, net>>
  BY <1>t, <1>1 DEF agent, net, AgentType, NetType, ItemsNamed
<1>2. CASE Connect
  <2> DEFINE c == opened + 1
  <2>1. PICK it \in {Item("goodHello", 0), Item("badHello", 0)} :
          wire' = [wire EXCEPT ![c] = <<it>>]
    BY <1>2 DEF Connect
  <2>2. c \in Conns /\ <<it>> \in Seq(Items) /\ it.kind \in {"goodHello", "badHello"}
    BY <1>2, <1>t DEF Connect, AgentType, Items, Item, ItemKinds
  <2>3. wire' \in [Conns -> Seq(Items)]
    BY <1>w, <2>1, <2>2
  <2>4. ItemsNamed'
    BY <1>t, <1>w, <2>1, <2>2 DEF ItemsNamed
  <2>5. AgentType' /\ UNCHANGED link
    BY <1>2, <1>t DEF Connect, AgentType
  <2> QED
    BY <1>t, <2>3, <2>4, <2>5 DEF NetType, Items
<1>3. ASSUME NEW more \in Seq(Items), conn \in Conns, Send(more), UNCHANGED link,
             \A n \in 1 .. Len(more) : more[n].cap \in Captures
      PROVE  NetType' /\ ItemsNamed'
  <2>1. wire' \in [Conns -> Seq(Items)]
    BY <1>w, <1>3 DEF Send
  <2>2. ASSUME NEW i \in Conns, NEW n \in 1 .. Len(wire'[i]),
               wire'[i][n].kind \in ItemKinds \ {"goodHello", "badHello"}
        PROVE  wire'[i][n].cap \in Captures
    <3>1. CASE i # conn
      BY <1>t, <1>w, <1>3, <2>2, <3>1 DEF Send, ItemsNamed
    <3>2. CASE i = conn /\ n <= Len(wire[i])
      BY <1>t, <1>w, <1>3, <2>2, <3>2 DEF Send, ItemsNamed
    <3>3. CASE i = conn /\ n > Len(wire[i])
      <4>1. /\ wire'[i] = wire[i] \o more
            /\ Len(wire[i]) \in Nat /\ Len(more) \in Nat
        BY <1>w, <1>3, <3>3 DEF Send
      <4>2. n - Len(wire[i]) \in 1 .. Len(more)
        BY <1>w, <1>3, <2>2, <3>3, <4>1
      <4>3. wire'[i][n] = more[n - Len(wire[i])]
        BY <1>w, <1>3, <2>2, <3>3, <4>1, <4>2
      <4> QED
        BY <1>3, <4>2, <4>3
    <3>4. n \in Int /\ Len(wire[i]) \in Int
      BY <1>w
    <3> QED
      BY <3>1, <3>2, <3>3, <3>4
  <2> QED
    BY <1>t, <1>3, <2>1, <2>2 DEF NetType, ItemsNamed, Items
<1>4. CASE SendFrame
  <2> DEFINE c == framed + 1
  <2>1. c \in Captures /\ conn \in Conns /\ AgentType' /\ UNCHANGED link
    BY <1>4, <1>t DEF SendFrame, AgentType, CanSend
  <2>2. PICK more \in {<<Item("start", c), Item("region", c), Item("end", c)>>,
                       <<Item("garbled", c)>>} : Send(more)
    BY <1>4 DEF SendFrame
  <2>3. more \in Seq(Items) /\ \A n \in 1 .. Len(more) : more[n].cap \in Captures
    <3> DEFINE pic == <<Item("start", c), Item("region", c), Item("end", c)>>
               bad == <<Item("garbled", c)>>
    <3>1. pic \in Seq(Items) /\ \A n \in 1 .. Len(pic) : pic[n].cap \in Captures
      <4>1. /\ Item("start", c) \in Items /\ Item("region", c) \in Items
            /\ Item("end", c) \in Items
        BY <2>1 DEF Item, Items, ItemKinds
      <4>2. \A k \in {"start", "region", "end"} : Item(k, c).cap = c
        BY DEF Item
      <4>3. Len(pic) = 3
        OBVIOUS
      <4>4. \A n \in 1 .. 3 : n = 1 \/ n = 2 \/ n = 3
        OBVIOUS
      <4>5. pic[1].cap = c /\ pic[2].cap = c /\ pic[3].cap = c
        BY <4>2
      <4>6. pic \in Seq(Items)
        BY <4>1
      <4> HIDE DEF pic
      <4> QED
        BY <2>1, <4>3, <4>4, <4>5, <4>6
    <3>2. bad \in Seq(Items) /\ \A n \in 1 .. Len(bad) : bad[n].cap \in Captures
      BY <2>1 DEF Item, Items, ItemKinds
    <3> QED
      BY <2>2, <3>1, <3>2
  <2> QED
    BY <1>3, <2>1, <2>2, <2>3
<1>5. CASE SendMeta
  <2> DEFINE more == <<Item("meta", named + 1)>>
  <2>1. named + 1 \in Captures /\ conn \in Conns /\ AgentType' /\ UNCHANGED link
    BY <1>5, <1>t DEF SendMeta, AgentType, CanSend
  <2>2. more \in Seq(Items) /\ \A n \in 1 .. Len(more) : more[n].cap \in Captures
    BY <2>1 DEF Item, Items, ItemKinds
  <2>3. Send(more)
    BY <1>5 DEF SendMeta
  <2> HIDE DEF more
  <2> QED
    BY <1>3, <2>1, <2>2, <2>3
<1>6. CASE Reconnect
  <2>1. AgentType'
    BY <1>6, <1>t DEF Reconnect, Disconnected, AgentType
  <2>2. wire' = wire /\ link' = link
    BY <1>6 DEF Reconnect, net
  <2> QED
    BY <1>t, <2>1, <2>2 DEF NetType, ItemsNamed
<1>7. CASE Cut
  <2>1. conn \in Conns
    BY <1>7, <1>t DEF Cut, AgentType
  <2>2. PICK n \in 0 .. Len(wire[conn]) : wire' = [wire EXCEPT ![conn] = SubSeq(@, 1, n)]
    BY <1>7 DEF Cut
  <2>3. /\ SubSeq(wire[conn], 1, n) \in Seq(Items)
        /\ Len(SubSeq(wire[conn], 1, n)) = n
        /\ \A m \in 1 .. n : SubSeq(wire[conn], 1, n)[m] = wire[conn][m]
    BY <1>w, <2>1, <2>2
  <2>4. wire' \in [Conns -> Seq(Items)]
    BY <1>w, <2>1, <2>2, <2>3
  <2>5. ItemsNamed'
    BY <1>t, <1>w, <2>1, <2>2, <2>3 DEF ItemsNamed
  <2>6. AgentType'
    <3>1. /\ conn' = 0 /\ opened' = opened
          /\ \/ named' = framed /\ framed' = framed
             \/ named' = 0 /\ framed' = 0
      BY <1>7 DEF Cut, Disconnected, StartedOver
    <3> QED
      BY <1>t, <3>1 DEF AgentType
  <2>7. link' \in [Conns -> {"up", "reset", "silent"}]
    BY <1>7, <1>t, <2>1 DEF Cut, NetType
  <2> QED
    BY <2>4, <2>5, <2>6, <2>7 DEF NetType, Items
<1>8. CASE Crash
  BY <1>8, <1>t, <1>w DEF Crash, AgentType, NetType, ItemsNamed, agent
<1>9. ASSUME NEW i \in Conns, Drop(i), UNCHANGED agent
      PROVE  AgentType' /\ NetType' /\ ItemsNamed'
  <2>1. AgentType'
    BY <1>t, <1>9 DEF AgentType, agent
  <2>2. wire' = [wire EXCEPT ![i] = <<>>] /\ link' = [link EXCEPT ![i] = "reset"]
    BY <1>9 DEF Drop
  <2>3. NetType'
    <3>1. wire' \in [Conns -> Seq(Items)]
      BY <1>w, <2>2
    <3>2. link' \in [Conns -> {"up", "reset", "silent"}]
      BY <1>t, <2>2 DEF NetType
    <3> QED
      BY <3>1, <3>2 DEF NetType, Items
  <2>4. ItemsNamed'
    BY <1>t, <1>w, <2>2 DEF ItemsNamed
  <2> QED
    BY <2>1, <2>3, <2>4
<1>10. ASSUME NEW i \in Conns, NEW kind, Receive(i, kind), UNCHANGED agent
       PROVE  AgentType' /\ NetType' /\ ItemsNamed'
  <2>1. wire[i] # <<>> /\ wire' = [wire EXCEPT ![i] = Tail(wire[i])] /\ UNCHANGED link
    BY <1>10 DEF Receive, Arrives
  <2>2. /\ Tail(wire[i]) \in Seq(Items) /\ Len(Tail(wire[i])) = Len(wire[i]) - 1
        /\ Len(wire[i]) \in Nat
        /\ \A n \in 1 .. Len(wire[i]) - 1 : Tail(wire[i])[n] = wire[i][n + 1]
    BY <1>w, <2>1
  <2>3. wire' \in [Conns -> Seq(Items)]
    BY <1>w, <2>1, <2>2
  <2>4. ItemsNamed'
    <3>1. \A n \in 1 .. Len(wire[i]) - 1 : n + 1 \in 1 .. Len(wire[i])
      BY <2>2
    <3>2. \A j \in Conns : wire'[j] = IF j = i THEN Tail(wire[i]) ELSE wire[j]
      BY <1>w, <2>1
    <3>3. ASSUME NEW j \in Conns, NEW n \in 1 .. Len(wire'[j]),
                 wire'[j][n].kind \in ItemKinds \ {"goodHello", "badHello"}
          PROVE  wire'[j][n].cap \in Captures
      <4>1. CASE j # i
        BY <1>t, <3>2, <3>3, <4>1 DEF ItemsNamed
      <4>2. CASE j = i
        <5>1. n + 1 \in 1 .. Len(wire[i]) /\ wire'[j][n] = wire[i][n + 1]
          BY <2>2, <3>1, <3>2, <4>2
        <5> QED
          BY <1>t, <3>3, <5>1 DEF ItemsNamed
      <4> QED
        BY <4>1, <4>2
    <3> QED
      BY <3>3 DEF ItemsNamed
  <2> QED
    BY <1>t, <1>10, <2>1, <2>3, <2>4 DEF AgentType, NetType, Items, agent
<1>11. CASE \E i \in Conns : SessionStep(i) \/ StorageError(i)
  <2> PICK i \in Conns : SessionStep(i) \/ StorageError(i)
    BY <1>11
  <2>1. UNCHANGED agent
    BY DEF SessionStep, StorageError, Admission, Pictures, Metadata, Departure,
           Admit, TurnAway, Greet, Reject, BeginFrame, AddRegion, EndFrame, Undecodable,
           TakeMeta, PutObject, InsertRow, HangUp, HeartbeatTick
  <2>2. UNCHANGED net \/ Drop(i) \/ \E kind : Receive(i, kind)
    BY DEF SessionStep, StorageError, Admission, Pictures, Metadata, Departure,
           Admit, TurnAway, Greet, Reject, BeginFrame, AddRegion, EndFrame, Undecodable,
           TakeMeta, PutObject, InsertRow, HangUp, HeartbeatTick, InLoop, Close, net
  <2> QED
    BY <1>1, <1>9, <1>10, <2>1, <2>2
<1> QED
  BY <1>1, <1>2, <1>4, <1>5, <1>6, <1>7, <1>8, <1>11 DEF Next, Agent, vars

\* What a session holds, and what it has in hand.
SessionData ==
  /\ frame \in [Conns -> [id : 0 .. NumCaptures, regions : Seq(Captures)]]
  /\ pending \in [Conns -> Seq(Seq(Captures))]
  /\ hand \in [Conns -> [cap : 0 .. NumCaptures, picture : Seq(Captures)]]
  /\ quiet \in [Conns -> 0 .. SilentTicks]
  /\ HandNamed

\* A picture is added to a queue by dropping at most its head.
LEMMA EnqueueType ==
  ASSUME NEW S, NEW q \in Seq(S), NEW p \in S
  PROVE  Enqueue(q, p) \in Seq(S)
<1>1. CASE Len(q) >= PendingLimit
  <2>1. q # <<>>
    BY <1>1, IngestBounds
  <2>2. Tail(q) \in Seq(S)
    BY <2>1
  <2> QED
    BY <1>1, <2>2 DEF Enqueue
<1>2. CASE ~(Len(q) >= PendingLimit)
  BY <1>2 DEF Enqueue
<1> QED
  BY <1>1, <1>2

\* The capture of an item that is about to be read.
LEMMA HeadNamed ==
  ASSUME TypeInv, NEW i \in Conns, NEW kind \in {"start", "region", "end", "meta"},
         InLoop(i, kind)
  PROVE  Head(wire[i]).cap \in Captures
<1>1. wire[i] # <<>> /\ Head(wire[i]).kind = kind
  BY DEF InLoop, Receive, Arrives
<1>2. wire[i] \in Seq(Items)
  BY DEF TypeInv, TypeOK, NetType, Items
<1>3. 1 \in 1 .. Len(wire[i]) /\ Head(wire[i]) = wire[i][1]
  BY <1>1, <1>2
<1> QED
  BY <1>1, <1>3 DEF TypeInv, ItemsNamed, ItemKinds

\* A session that ends leaves nothing behind.
LEMMA CloseData ==
  ASSUME SessionData, st \in [Conns -> States], NEW i \in Conns, Close(i)
  PROVE  SessionData'
<1> USE IngestBounds DEF SessionData, HandNamed
<1>1. NoFrame \in [id : 0 .. NumCaptures, regions : Seq(Captures)]
  BY DEF NoFrame
<1>2. NoHand \in [cap : 0 .. NumCaptures, picture : Seq(Captures)]
  BY DEF NoHand
<1>3. frame' \in [Conns -> [id : 0 .. NumCaptures, regions : Seq(Captures)]]
  BY <1>1 DEF Close
<1>4. hand' \in [Conns -> [cap : 0 .. NumCaptures, picture : Seq(Captures)]]
  BY <1>2 DEF Close
<1>5. pending' \in [Conns -> Seq(Seq(Captures))]
  BY DEF Close
<1>6. quiet' \in [Conns -> 0 .. SilentTicks]
  BY DEF Close
<1>7. HandNamed'
  BY DEF Close, Drop
<1> QED
  BY <1>3, <1>4, <1>5, <1>6, <1>7

LEMMA SessionDataStep ==
  ASSUME TypeInv, NEW i \in Conns, SessionStep(i) \/ StorageError(i)
  PROVE  SessionData'
<1> USE IngestBounds
<1>t. SessionData /\ st \in [Conns -> States]
  BY DEF TypeInv, TypeOK, SessionType, SessionData
<1>1. CASE Admit(i) \/ TurnAway(i) \/ Greet(i)
  <2>1. UNCHANGED session
    BY <1>1 DEF Admit, TurnAway, Greet
  <2>2. \A j \in Conns : st'[j] \in {"put", "row"} => st[j] \in {"put", "row"}
    BY <1>1, <1>t DEF Admit, TurnAway, Greet, Drop
  <2> QED
    BY <1>t, <2>1, <2>2 DEF session, SessionData, HandNamed
<1>2. CASE Reject(i) \/ Undecodable(i) \/ StorageError(i) \/ HangUp(i)
  <2>1. Close(i)
    BY <1>2 DEF Reject, Undecodable, StorageError, HangUp
  <2> QED
    BY <1>t, <2>1, CloseData
<1>3. CASE HeartbeatTick(i)
  <2>1. CASE quiet[i] + 1 < SilentTicks
    <3>1. quiet' = [quiet EXCEPT ![i] = @ + 1] /\ UNCHANGED <<st, frame, pending, hand>>
      BY <1>3, <2>1 DEF HeartbeatTick
    <3>2. quiet' \in [Conns -> 0 .. SilentTicks]
      BY <1>t, <2>1, <3>1 DEF SessionData
    <3> QED
      BY <1>t, <3>1, <3>2 DEF SessionData, HandNamed
  <2>2. CASE ~(quiet[i] + 1 < SilentTicks)
    BY <1>3, <1>t, <2>2, CloseData DEF HeartbeatTick
  <2> QED
    BY <2>1, <2>2
<1>h. ASSUME Heard(i) PROVE quiet' \in [Conns -> 0 .. SilentTicks]
  BY <1>h, <1>t DEF Heard, SessionData
<1>4. CASE BeginFrame(i)
  <2>1. Head(wire[i]).cap \in Captures
    BY <1>4, HeadNamed DEF BeginFrame
  <2>2. [id |-> Head(wire[i]).cap, regions |-> <<>>]
          \in [id : 0 .. NumCaptures, regions : Seq(Captures)]
    BY <2>1 DEF Captures
  <2>3. frame' \in [Conns -> [id : 0 .. NumCaptures, regions : Seq(Captures)]]
    BY <1>4, <1>t, <2>2 DEF BeginFrame, SessionData
  <2> QED
    BY <1>4, <1>t, <1>h, <2>3 DEF BeginFrame, InLoop, SessionData, HandNamed
<1>5. CASE AddRegion(i)
  <2>1. Head(wire[i]).cap \in Captures
    BY <1>5, HeadNamed DEF AddRegion
  <2>2. PICK r \in {frame[i].regions, Append(frame[i].regions, Head(wire[i]).cap)} :
          frame' = [frame EXCEPT ![i].regions = r]
    BY <1>5 DEF AddRegion
  <2>3. r \in Seq(Captures)
    <3>1. frame[i].regions \in Seq(Captures)
      BY <1>t DEF SessionData
    <3>2. Append(frame[i].regions, Head(wire[i]).cap) \in Seq(Captures)
      BY <2>1, <3>1
    <3> QED
      BY <2>2, <3>1, <3>2
  <2>4. frame' \in [Conns -> [id : 0 .. NumCaptures, regions : Seq(Captures)]]
    BY <1>t, <2>2, <2>3 DEF SessionData
  <2> QED
    BY <1>5, <1>t, <1>h, <2>4 DEF AddRegion, InLoop, SessionData, HandNamed
<1>6. CASE EndFrame(i)
  <2>1. UNCHANGED <<st, hand>> /\ Heard(i)
    BY <1>6 DEF EndFrame, InLoop
  <2>2. /\ frame' \in [Conns -> [id : 0 .. NumCaptures, regions : Seq(Captures)]]
        /\ pending' \in [Conns -> Seq(Seq(Captures))]
    <3>1. CASE UNCHANGED <<pending, frame>>
      BY <1>t, <3>1 DEF SessionData
    <3>2. CASE /\ pending' = [pending EXCEPT ![i] = Enqueue(@, frame[i].regions)]
               /\ frame' = [frame EXCEPT ![i] = NoFrame]
      <4>1. NoFrame \in [id : 0 .. NumCaptures, regions : Seq(Captures)]
        BY DEF NoFrame
      <4>2. frame[i].regions \in Seq(Captures) /\ pending[i] \in Seq(Seq(Captures))
        BY <1>t DEF SessionData
      <4>3. Enqueue(pending[i], frame[i].regions) \in Seq(Seq(Captures))
        BY <4>2, EnqueueType
      <4> QED
        BY <1>t, <3>2, <4>1, <4>3 DEF SessionData
    <3> QED
      BY <1>6, <3>1, <3>2 DEF EndFrame
  <2> QED
    BY <1>t, <1>h, <2>1, <2>2 DEF SessionData, HandNamed
<1>7. CASE TakeMeta(i)
  <2> DEFINE c == Head(wire[i]).cap
  <2>1. c \in Captures
    BY <1>7, HeadNamed DEF TakeMeta
  <2>2. pending[i] \in Seq(Seq(Captures))
    BY <1>t DEF SessionData
  <2>3. PICK p \in Seq(Captures) : hand' = [hand EXCEPT ![i] = [cap |-> c, picture |-> p]]
    <3>1. <<>> \in Seq(Captures)
      OBVIOUS
    <3>2. pending[i] # <<>> => Head(pending[i]) \in Seq(Captures)
      BY <2>2
    <3> QED
      BY <1>7, <3>1, <3>2 DEF TakeMeta
  <2>4. [cap |-> c, picture |-> p] \in [cap : 0 .. NumCaptures, picture : Seq(Captures)]
    BY <2>1, <2>3 DEF Captures
  <2>5. hand' \in [Conns -> [cap : 0 .. NumCaptures, picture : Seq(Captures)]]
    BY <1>t, <2>3, <2>4 DEF SessionData
  <2>6. pending' \in [Conns -> Seq(Seq(Captures))]
    <3>1. pending[i] # <<>> => Tail(pending[i]) \in Seq(Seq(Captures))
      BY <2>2
    <3> QED
      BY <1>7, <1>t, <3>1 DEF TakeMeta, SessionData
  <2>7. HandNamed'
    <3>1. \A j \in Conns : j # i => st'[j] = st[j] /\ hand'[j] = hand[j]
      BY <1>7, <1>t, <2>3 DEF TakeMeta
    <3>2. hand'[i].cap = c
      BY <1>t, <2>3 DEF SessionData
    <3> QED
      BY <1>t, <2>1, <3>1, <3>2 DEF SessionData, HandNamed, Captures
  <2> QED
    BY <1>7, <1>t, <1>h, <2>5, <2>6, <2>7 DEF TakeMeta, InLoop, SessionData
<1>8. CASE PutObject(i)
  <2>1. UNCHANGED session
    BY <1>8 DEF PutObject
  <2>2. \A j \in Conns : st'[j] \in {"put", "row"} => st[j] \in {"put", "row"}
    BY <1>8, <1>t DEF PutObject
  <2> QED
    BY <1>t, <2>1, <2>2 DEF session, SessionData, HandNamed
<1>9. CASE InsertRow(i)
  <2>1. NoHand \in [cap : 0 .. NumCaptures, picture : Seq(Captures)]
    BY DEF NoHand
  <2>2. hand' \in [Conns -> [cap : 0 .. NumCaptures, picture : Seq(Captures)]]
    BY <1>9, <1>t, <2>1 DEF InsertRow, SessionData
  <2>3. HandNamed'
    BY <1>9, <1>t DEF InsertRow, SessionData, HandNamed
  <2> QED
    BY <1>9, <1>t, <2>2, <2>3 DEF InsertRow, SessionData
<1> QED
  BY <1>1, <1>2, <1>3, <1>4, <1>5, <1>6, <1>7, <1>8, <1>9
     DEF SessionStep, Admission, Pictures, Metadata, Departure

LEMMA SessionTypeStep ==
  ASSUME TypeInv, [Next]_vars
  PROVE  SessionData'
<1> USE IngestBounds
<1>t. SessionData /\ st \in [Conns -> States] /\ opened \in 0 .. NumConns
  BY DEF TypeInv, TypeOK, SessionType, SessionData, AgentType
<1>1. CASE UNCHANGED <<st, session>>
  BY <1>t, <1>1 DEF session, SessionData, HandNamed
<1>2. CASE Connect
  <2>1. UNCHANGED session /\ st' = [st EXCEPT ![opened + 1] = "accepted"]
    BY <1>2 DEF Connect
  <2>2. \A j \in Conns : st'[j] \in {"put", "row"} => st[j] \in {"put", "row"}
    BY <1>t, <2>1
  <2> QED
    BY <1>t, <2>1, <2>2 DEF session, SessionData, HandNamed
<1>3. CASE SendFrame \/ SendMeta \/ Reconnect \/ Cut \/ UNCHANGED vars
  BY <1>1, <1>3 DEF SendFrame, SendMeta, Reconnect, Cut, vars
<1>4. CASE Crash
  <2>1. NoFrame \in [id : 0 .. NumCaptures, regions : Seq(Captures)]
    BY DEF NoFrame
  <2>2. NoHand \in [cap : 0 .. NumCaptures, picture : Seq(Captures)]
    BY DEF NoHand
  <2>3. HandNamed'
    BY <1>4 DEF Crash, HandNamed
  <2> QED
    BY <1>4, <2>1, <2>2, <2>3 DEF Crash, SessionData
<1>5. CASE \E i \in Conns : SessionStep(i) \/ StorageError(i)
  BY <1>5, SessionDataStep
<1> QED
  BY <1>2, <1>3, <1>4, <1>5 DEF Next, Agent

LEMMA DiskStep ==
  ASSUME TypeInv, [Next]_vars
  PROVE  DiskType' /\ cuts' \in 0 .. MaxCuts /\ faults' \in 0 .. MaxFaults
<1> USE IngestBounds
<1>t. /\ DiskType /\ cuts \in 0 .. MaxCuts /\ faults \in 0 .. MaxFaults
      /\ SessionType /\ HandNamed
  BY DEF TypeInv, TypeOK
<1>a. /\ cuts' = cuts \/ (cuts < MaxCuts /\ cuts' = cuts + 1)
      /\ faults' = faults \/ (faults < MaxFaults /\ faults' = faults + 1)
  BY
  DEF Next, Agent, vars, bounds, Connect, SendFrame, SendMeta, Reconnect, Cut, Crash,
      SessionStep, StorageError, Admission, Pictures, Metadata, Departure,
      Admit, TurnAway, Greet, Reject, BeginFrame, AddRegion, EndFrame, Undecodable,
      TakeMeta, PutObject, InsertRow, HangUp, HeartbeatTick
<1>1. cuts' \in 0 .. MaxCuts /\ faults' \in 0 .. MaxFaults
  BY <1>t, <1>a
<1>2. CASE UNCHANGED disk
  BY <1>t, <1>1, <1>2 DEF disk, DiskType
<1>3. ASSUME NEW torn, Tear(torn), UNCHANGED rows
      PROVE  DiskType'
  <2>1. <<>> \in Seq(Captures)
    OBVIOUS
  <2> QED
    BY <1>t, <1>3, <2>1 DEF Tear, DiskType
<1>4. CASE Crash
  BY <1>1, <1>3, <1>4 DEF Crash
<1>5. ASSUME NEW i \in Conns, StorageError(i)
      PROVE  DiskType'
  <2>1. UNCHANGED rows /\ (UNCHANGED objects \/ \E torn : Tear(torn))
    BY <1>5 DEF StorageError
  <2> QED
    BY <1>3, <1>t, <2>1 DEF DiskType
<1>6. ASSUME NEW i \in Conns, PutObject(i)
      PROVE  DiskType'
  <2>1. hand[i].picture \in Seq(Captures) /\ UNCHANGED rows
    BY <1>t, <1>6 DEF SessionType, PutObject
  <2>2. objects' = [objects EXCEPT ![hand[i].cap] = hand[i].picture]
    BY <1>6 DEF PutObject
  <2> QED
    BY <1>t, <2>1, <2>2 DEF DiskType
<1>7. ASSUME NEW i \in Conns, InsertRow(i)
      PROVE  DiskType'
  <2>1. hand[i].cap \in Captures /\ UNCHANGED objects
    BY <1>t, <1>7 DEF HandNamed, InsertRow
  <2>2. rows' = rows \/ rows' = Append(rows, hand[i].cap)
    BY <1>7 DEF InsertRow
  <2>3. Append(rows, hand[i].cap) \in Seq(Captures)
    BY <1>t, <2>1 DEF DiskType
  <2> QED
    BY <1>t, <2>1, <2>2, <2>3 DEF DiskType
<1> QED
  BY <1>1, <1>2, <1>4, <1>5, <1>6, <1>7
  DEF Next, Agent, vars, Connect, SendFrame, SendMeta, Reconnect, Cut,
      SessionStep, Admission, Pictures, Metadata, Departure,
      Admit, TurnAway, Greet, Reject, BeginFrame, AddRegion, EndFrame, Undecodable,
      TakeMeta, HangUp, HeartbeatTick, disk

LEMMA TypeStep == TypeInv /\ [Next]_vars => TypeInv'
<1> SUFFICES ASSUME TypeInv, [Next]_vars PROVE TypeInv'
  OBVIOUS
<1>1. PlacesInv'
  BY PlacesStep DEF TypeInv
<1>2. AgentType' /\ NetType' /\ ItemsNamed'
  BY AgentNetStep
<1>3. SessionData'
  BY SessionTypeStep
<1>4. DiskType' /\ cuts' \in 0 .. MaxCuts /\ faults' \in 0 .. MaxFaults
  BY DiskStep
<1>5. count' \in 0 .. NumConns
  <2>1. count' = Cardinality({i \in Conns : st'[i] \in Counted})
    BY <1>1 DEF PlacesInv, PlacesCounted
  <2> QED
    BY <2>1, SomeConns
<1>6. SessionType'
  BY <1>1, <1>3, <1>5 DEF SessionType, SessionData, PlacesInv, PhaseInv
<1> QED
  BY <1>1, <1>2, <1>3, <1>4, <1>6 DEF TypeInv, TypeOK, SessionData

(***************************************************************************)
(* Type correctness: every session stores captures of its own client only, *)
(* a metadata record in hand always names a capture, and the counter never *)
(* leaves the range of the connections there are.                          *)
(***************************************************************************)
THEOREM TypeCorrect == Spec => []TypeOK
<1>1. TypeInv => TypeOK
  BY DEF TypeInv
<1> QED
  BY <1>1, TypeInit, TypeStep, PTL DEF Spec

=============================================================================
