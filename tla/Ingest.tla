------------------------------- MODULE Ingest -------------------------------
(***************************************************************************)
(* One client's captures on their way into the broker (ingest.rs): an      *)
(* agent that opens connection after connection and sends each picture on  *)
(* GFXRDP and then its metadata on PCMETA, the network that cuts those     *)
(* connections with or without telling the broker, and the broker's        *)
(* session tasks, which admit connections, pair pictures with metadata by  *)
(* order of arrival and store them.  Sessions of the same client overlap   *)
(* when the broker has not yet noticed that an old one is dead.            *)
(*                                                                         *)
(* A PDU is an item of its own on the wire, whatever mux payload carried   *)
(* it: nothing but its session sees a frame before the picture is stored.  *)
(***************************************************************************)
EXTENDS Integers, Sequences, FiniteSets

CONSTANTS
  NumConns,      \* connections the agent may open (bounds the model)
  NumCaptures,   \* captures the agent may send (bounds the model)
  Ahead,         \* pictures sent before their metadata (1 in run.rs)
  MaxSessions,   \* max_clients
  PendingLimit,  \* pictures that may wait for their metadata (64)
  SilentTicks,   \* heartbeat ticks of silence that end a session (3)
  Hellos,        \* "good": accepted, "bad": wrong version or token
  Encodings,     \* "good" frames decode, "garbled" ones do not
  StartsOver,    \* may an agent begin again with its first token? (the mock)
  MaxWire,       \* items in flight on a connection (bounds the model)
  MaxCuts,       \* connections the network cuts (bounds the model)
  MaxFaults      \* crashes and storage errors (bounds the model)

Conns    == 1 .. NumConns
Captures == 1 .. NumCaptures

ASSUME IngestBounds ==
  /\ NumConns \in Nat /\ NumCaptures \in Nat /\ Ahead \in Nat \ {0}
  /\ MaxSessions \in Nat /\ PendingLimit \in Nat \ {0} /\ SilentTicks \in Nat \ {0}
  /\ MaxWire \in Nat /\ MaxCuts \in Nat /\ MaxFaults \in Nat

ASSUME IngestInputs ==
  /\ Hellos \subseteq {"good", "bad"} /\ Encodings \subseteq {"good", "garbled"}
  /\ StartsOver \in BOOLEAN

VARIABLES
  \* the agent
  conn,     \* its connection, 0 while it has none
  opened,   \* connections opened so far
  framed,   \* captures whose picture has been sent, or given up
  named,    \* captures whose metadata has been sent, or given up
  \* the network
  link,     \* "up", "reset" (the broker is told), "silent" (it is not)
  wire,     \* items on their way to the broker
  \* the broker's session tasks
  st,       \* where the task of each connection is
  count,    \* Broker.sessions
  frame,    \* FrameAssembler: the id of the frame begun (0: none), its regions
  pending,  \* finished pictures that await their metadata
  hand,     \* the capture being stored and the picture paired with it
  quiet,    \* heartbeat ticks since the session last heard anything
  \* the client's store on disk
  objects,  \* the picture stored under each capture's token, <<>> for none
            \* and for a file whose writing was interrupted
  rows,     \* WindowCapture, in the order of its ids
  \* bounds
  cuts, faults

agent   == <<conn, opened, framed, named>>
net     == <<link, wire>>
session == <<frame, pending, hand, quiet>>
disk    == <<objects, rows>>
bounds  == <<cuts, faults>>
vars    == <<agent, net, st, count, session, disk, bounds>>

Item(kind, c) == [kind |-> kind, cap |-> c]

ItemKinds == {"goodHello", "badHello", "start", "region", "end", "garbled", "meta"}

States == {"none", "accepted", "turnedAway", "greeting", "open", "put", "row", "closed"}

\* In the session loop, and counted in Broker.sessions.
Serving == {"open", "put", "row"}
Holding == Serving \cup {"greeting"}
Counted == Holding \cup {"turnedAway"}

NoFrame == [id |-> 0, regions |-> <<>>]
NoHand  == [cap |-> 0, picture |-> <<>>]

Init ==
  /\ conn = 0 /\ opened = 0 /\ framed = 0 /\ named = 0
  /\ link = [i \in Conns |-> "up"]
  /\ wire = [i \in Conns |-> <<>>]
  /\ st = [i \in Conns |-> "none"]
  /\ count = 0
  /\ frame = [i \in Conns |-> NoFrame]
  /\ pending = [i \in Conns |-> <<>>]
  /\ hand = [i \in Conns |-> NoHand]
  /\ quiet = [i \in Conns |-> 0]
  /\ objects = [c \in Captures |-> <<>>]
  /\ rows = <<>>
  /\ cuts = 0 /\ faults = 0

-----------------------------------------------------------------------------
(* The agent *)

\* The listener accepts and spawns the session task; the hello follows.
Connect ==
  /\ conn = 0 /\ opened < NumConns
  /\ opened' = opened + 1 /\ conn' = opened + 1
  /\ st' = [st EXCEPT ![opened + 1] = "accepted"]
  /\ \E h \in Hellos :
       wire' = [wire EXCEPT ![opened + 1] =
                  <<Item(IF h = "good" THEN "goodHello" ELSE "badHello", 0)>>]
  /\ UNCHANGED <<framed, named, link, count, session, disk, bounds>>

\* The ServerHello has arrived and the connection takes more.
CanSend(n) == conn # 0 /\ st[conn] \in Serving /\ Len(wire[conn]) + n <= MaxWire

Send(items) == wire' = [wire EXCEPT ![conn] = @ \o items]

SendFrame ==
  /\ CanSend(3)
  /\ framed < NumCaptures /\ framed < named + Ahead
  /\ framed' = framed + 1
  /\ \E e \in Encodings :
       Send(IF e = "good"
            THEN <<Item("start", framed + 1), Item("region", framed + 1),
                   Item("end", framed + 1)>>
            ELSE <<Item("garbled", framed + 1)>>)
  /\ UNCHANGED <<conn, opened, named, link, st, count, session, disk, bounds>>

SendMeta ==
  /\ CanSend(1)
  /\ named < framed
  /\ named' = named + 1
  /\ Send(<<Item("meta", named + 1)>>)
  /\ UNCHANGED <<conn, opened, framed, link, st, count, session, disk, bounds>>

\* Whatever was not sent completely is given up: nothing is sent twice.
Disconnected == conn' = 0 /\ named' = framed /\ UNCHANGED <<opened, framed>>

\* Another run of the same agent numbers its captures from the first again.
StartedOver == StartsOver /\ conn' = 0 /\ named' = 0 /\ framed' = 0 /\ UNCHANGED opened

\* The broker has closed the connection.
Reconnect ==
  /\ conn # 0 /\ st[conn] = "closed"
  /\ Disconnected
  /\ UNCHANGED <<net, st, count, session, disk, bounds>>

\* The network fails, or the agent stops.  What was in flight may arrive up
\* to any point; the broker is told that the peer is gone, or it is not.
Cut ==
  /\ conn # 0 /\ st[conn] # "closed"
  /\ cuts < MaxCuts /\ cuts' = cuts + 1
  /\ \E n \in 0 .. Len(wire[conn]) : wire' = [wire EXCEPT ![conn] = SubSeq(@, 1, n)]
  /\ \E how \in {"reset", "silent"} : link' = [link EXCEPT ![conn] = how]
  /\ Disconnected \/ StartedOver
  /\ UNCHANGED <<st, count, session, disk, faults>>

-----------------------------------------------------------------------------
(* Admission and handshake *)

\* The socket is dropped, and with it what has not been read.
Drop(i) ==
  /\ st' = [st EXCEPT ![i] = "closed"]
  /\ link' = [link EXCEPT ![i] = "reset"]
  /\ wire' = [wire EXCEPT ![i] = <<>>]

\* The task returns: its SessionGuard gives the place back, its state is lost.
Close(i) ==
  /\ Drop(i)
  /\ count' = count - 1
  /\ frame' = [frame EXCEPT ![i] = NoFrame]
  /\ pending' = [pending EXCEPT ![i] = <<>>]
  /\ hand' = [hand EXCEPT ![i] = NoHand]
  /\ quiet' = [quiet EXCEPT ![i] = 0]

\* (mutant: one place too many)
AdmitOneMore(i) ==
  /\ st[i] = "accepted"
  /\ count' = count + 1
  /\ st' = [st EXCEPT ![i] = IF count > MaxSessions THEN "turnedAway" ELSE "greeting"]
  /\ UNCHANGED <<agent, net, session, disk, bounds>>

Admit(i) ==
  /\ st[i] = "accepted"
  /\ count' = count + 1
  /\ st' = [st EXCEPT ![i] = IF count >= MaxSessions THEN "turnedAway" ELSE "greeting"]
  /\ UNCHANGED <<agent, net, session, disk, bounds>>

\* (mutant: the guard exists already and gives the place back again)
TurnAwayTwice(i) ==
  /\ st[i] = "turnedAway"
  /\ Drop(i)
  /\ count' = count - 2
  /\ UNCHANGED <<agent, session, disk, bounds>>

TurnAway(i) ==
  /\ st[i] = "turnedAway"
  /\ Drop(i)
  /\ count' = count - 1
  /\ UNCHANGED <<agent, session, disk, bounds>>

Arrives(i, kind) == wire[i] # <<>> /\ Head(wire[i]).kind = kind

\* The next item of the connection, taken off the wire.
Receive(i, kind) ==
  /\ Arrives(i, kind)
  /\ wire' = [wire EXCEPT ![i] = Tail(@)]
  /\ UNCHANGED link

Greet(i) ==
  /\ st[i] = "greeting" /\ Receive(i, "goodHello")
  /\ st' = [st EXCEPT ![i] = "open"]
  /\ UNCHANGED <<agent, count, session, disk, bounds>>

Reject(i) ==
  /\ st[i] = "greeting" /\ Arrives(i, "badHello")
  /\ Close(i)
  /\ UNCHANGED <<agent, disk, bounds>>

-----------------------------------------------------------------------------
(* The session loop *)

Heard(i) == quiet' = [quiet EXCEPT ![i] = 0]

InLoop(i, kind) == st[i] = "open" /\ Receive(i, kind) /\ Heard(i)

BeginFrame(i) ==
  /\ InLoop(i, "start")
  /\ frame' = [frame EXCEPT ![i] = [id |-> Head(wire[i]).cap, regions |-> <<>>]]
  /\ UNCHANGED <<agent, st, count, pending, hand, disk, bounds>>

AddRegion(i) ==
  /\ InLoop(i, "region")
  /\ frame' = [frame EXCEPT ![i].regions =
                 IF frame[i].id # 0 THEN Append(@, Head(wire[i]).cap) ELSE @]
  /\ UNCHANGED <<agent, st, count, pending, hand, disk, bounds>>

\* The queue of pictures q with p added; a full queue forgets its oldest.
Enqueue(q, p) == Append(IF Len(q) >= PendingLimit THEN Tail(q) ELSE q, p)

EndFrame(i) ==
  /\ InLoop(i, "end")
  /\ IF frame[i].id = Head(wire[i]).cap
     THEN /\ pending' = [pending EXCEPT ![i] = Enqueue(@, frame[i].regions)]
          /\ frame' = [frame EXCEPT ![i] = NoFrame]
     ELSE UNCHANGED <<pending, frame>>
  /\ UNCHANGED <<agent, st, count, hand, disk, bounds>>

\* (mutant: the error ends the task but the place is not given back)
UndecodableLeak(i) ==
  /\ st[i] = "open" /\ Arrives(i, "garbled")
  /\ Drop(i)
  /\ UNCHANGED <<agent, count, session, disk, bounds>>

\* A PDU that does not decode ends the session.
Undecodable(i) ==
  /\ st[i] = "open" /\ Arrives(i, "garbled")
  /\ Close(i)
  /\ UNCHANGED <<agent, disk, bounds>>

\* (mutant: the newest picture is taken)
TakeMetaNewest(i) ==
  /\ InLoop(i, "meta")
  /\ LET c == Head(wire[i]).cap
         q == pending[i]
     IN IF q = <<>>
        THEN /\ hand' = [hand EXCEPT ![i] = [cap |-> c, picture |-> <<>>]]
             /\ st' = [st EXCEPT ![i] = "row"]
             /\ UNCHANGED pending
        ELSE /\ hand' = [hand EXCEPT ![i] = [cap |-> c, picture |-> q[Len(q)]]]
             /\ st' = [st EXCEPT ![i] = "put"]
             /\ pending' = [pending EXCEPT ![i] = SubSeq(q, 1, Len(q) - 1)]
  /\ UNCHANGED <<agent, count, frame, disk, bounds>>

\* The oldest picture is taken; without one the row is stored alone.
TakeMeta(i) ==
  /\ InLoop(i, "meta")
  /\ LET c == Head(wire[i]).cap
         q == pending[i]
     IN IF q = <<>>
        THEN /\ hand' = [hand EXCEPT ![i] = [cap |-> c, picture |-> <<>>]]
             /\ st' = [st EXCEPT ![i] = "row"]
             /\ UNCHANGED pending
        ELSE /\ hand' = [hand EXCEPT ![i] = [cap |-> c, picture |-> Head(q)]]
             /\ st' = [st EXCEPT ![i] = "put"]
             /\ pending' = [pending EXCEPT ![i] = Tail(q)]
  /\ UNCHANGED <<agent, count, frame, disk, bounds>>

PutObject(i) ==
  /\ st[i] = "put"
  /\ objects' = [objects EXCEPT ![hand[i].cap] = hand[i].picture]
  /\ st' = [st EXCEPT ![i] = "row"]
  /\ UNCHANGED <<agent, net, count, session, rows, bounds>>

\* insert_capture: one transaction, idempotent on the token.
InsertRow(i) ==
  /\ st[i] = "row"
  /\ rows' = IF \E n \in DOMAIN rows : rows[n] = hand[i].cap
             THEN rows ELSE Append(rows, hand[i].cap)
  /\ hand' = [hand EXCEPT ![i] = NoHand]
  /\ st' = [st EXCEPT ![i] = "open"]
  /\ UNCHANGED <<agent, net, count, frame, pending, quiet, objects, bounds>>

\* std::fs::write empties the file before it fills it.
Tear(torn) == objects' = [c \in Captures |-> IF c \in torn THEN <<>> ELSE objects[c]]

\* Opening the store, an object or a row fails: the session ends.
StorageError(i) ==
  /\ \/ st[i] = "greeting" /\ Arrives(i, "goodHello") /\ UNCHANGED objects
     \/ st[i] = "row" /\ UNCHANGED objects
     \/ st[i] = "put" /\ \E torn \in SUBSET {hand[i].cap} : Tear(torn)
  /\ faults < MaxFaults /\ faults' = faults + 1
  /\ Close(i)
  /\ UNCHANGED <<agent, rows, cuts>>

\* The stream ends, in the handshake or in the loop.
HangUp(i) ==
  /\ st[i] \in {"greeting", "open"} /\ link[i] = "reset" /\ wire[i] = <<>>
  /\ Close(i)
  /\ UNCHANGED <<agent, disk, bounds>>

\* (mutant: the tick itself counts as a sign of life)
HeartbeatTickHeard(i) ==
  /\ st[i] = "open" /\ (link[i] # "up" \/ wire[i] # <<>>)
  /\ Heard(i)
  /\ UNCHANGED <<agent, net, st, count, frame, pending, hand, disk, bounds>>

\* The tick every two heartbeat intervals: the third one without a message
\* finds last_seen more than four intervals ago.  Nothing is heard from a peer
\* that is gone, nor while what it has sent is delayed; an agent whose link is
\* up and idle has sent two heartbeats in between.
HeartbeatTick(i) ==
  /\ st[i] = "open" /\ (link[i] # "up" \/ wire[i] # <<>>)
  /\ IF quiet[i] + 1 < SilentTicks
     THEN /\ quiet' = [quiet EXCEPT ![i] = @ + 1]
          /\ UNCHANGED <<net, st, count, frame, pending, hand>>
     ELSE Close(i)
  /\ UNCHANGED <<agent, disk, bounds>>

\* The broker stops and is started again: every task and the counter are gone.
Crash ==
  /\ faults < MaxFaults /\ faults' = faults + 1
  /\ st' = [i \in Conns |-> IF st[i] = "none" THEN "none" ELSE "closed"]
  /\ link' = [i \in Conns |-> IF st[i] = "none" THEN "up" ELSE "reset"]
  /\ wire' = [i \in Conns |-> <<>>]
  /\ count' = 0
  /\ frame' = [i \in Conns |-> NoFrame]
  /\ pending' = [i \in Conns |-> <<>>]
  /\ hand' = [i \in Conns |-> NoHand]
  /\ quiet' = [i \in Conns |-> 0]
  /\ \E torn \in SUBSET {hand[i].cap : i \in {j \in Conns : st[j] = "put"}} : Tear(torn)
  /\ UNCHANGED <<agent, rows, cuts>>

-----------------------------------------------------------------------------
Admission(i) == Admit(i) \/ TurnAway(i) \/ Greet(i) \/ Reject(i)
Pictures(i)  == BeginFrame(i) \/ AddRegion(i) \/ EndFrame(i) \/ Undecodable(i)
Metadata(i)  == TakeMeta(i) \/ PutObject(i) \/ InsertRow(i)
Departure(i) == HangUp(i) \/ HeartbeatTick(i)

SessionStep(i) == Admission(i) \/ Pictures(i) \/ Metadata(i) \/ Departure(i)

Agent == Connect \/ SendFrame \/ SendMeta \/ Reconnect

Next ==
  \/ Agent \/ Cut \/ Crash
  \/ \E i \in Conns : SessionStep(i) \/ StorageError(i)

\* Every session is a task of its own that the runtime keeps scheduling; the
\* agent and the network owe nothing.
Fairness == \A i \in Conns : WF_vars(SessionStep(i))

Spec == Init /\ [][Next]_vars /\ Fairness

-----------------------------------------------------------------------------
(* Properties *)

AgentType ==
  /\ conn \in 0 .. opened /\ opened \in 0 .. NumConns
  /\ named \in 0 .. framed /\ framed \in 0 .. NumCaptures

NetType ==
  /\ link \in [Conns -> {"up", "reset", "silent"}]
  /\ wire \in [Conns -> Seq([kind : ItemKinds, cap : 0 .. NumCaptures])]

SessionType ==
  /\ st \in [Conns -> States]
  /\ count \in 0 .. NumConns
  /\ frame \in [Conns -> [id : 0 .. NumCaptures, regions : Seq(Captures)]]
  /\ pending \in [Conns -> Seq(Seq(Captures))]
  /\ hand \in [Conns -> [cap : 0 .. NumCaptures, picture : Seq(Captures)]]
  /\ quiet \in [Conns -> 0 .. SilentTicks]

DiskType ==
  /\ objects \in [Captures -> Seq(Captures)]
  /\ rows \in Seq(Captures)

TypeOK ==
  /\ AgentType /\ NetType /\ SessionType /\ DiskType
  /\ cuts \in 0 .. MaxCuts /\ faults \in 0 .. MaxFaults

(***************************************************************************)
(* Broker.sessions always counts the connections that hold a place and     *)
(* those about to be turned away, through every way a session can end      *)
(* (fetch_add, fetch_sub and SessionGuard, ingest.rs).                     *)
(***************************************************************************)
PlacesCounted == count = Cardinality({i \in Conns : st[i] \in Counted})

(***************************************************************************)
(* However connections race for the last place, no more than max_clients   *)
(* of them are served (handle_conn, ingest.rs).                            *)
(***************************************************************************)
NeverOverbooked == Cardinality({i \in Conns : st[i] \in Holding}) <= MaxSessions

(***************************************************************************)
(* The rows and the objects they name are a CaptureLog: whatever is cut or *)
(* crashes, and although sessions of the client overlap, a row appears     *)
(* with the picture taken with it, and neither changes afterwards (the     *)
(* pairing and the order of put and insert_capture, handle_meta).          *)
(***************************************************************************)
Log == INSTANCE CaptureLog
         WITH log <- [n \in DOMAIN rows |-> [capture |-> rows[n], picture |-> objects[rows[n]]]]

CaptureLogSpec == Log!Spec

\* Connections without a peer that still hold a place.
Dead(phases) == {i \in Conns : link[i] # "up" /\ st[i] \in phases}

(***************************************************************************)
(* A session in its loop whose peer is gone ends, whether the broker is    *)
(* told or not, and gives its place back (the heartbeat check, ingest.rs). *)
(***************************************************************************)
DeadSessionsEnd == <>[](Dead(Serving) = {})

(***************************************************************************)
(* "broker closes clients silent >3 intervals": whatever connection holds  *)
(* a place and has lost its peer is closed (docs/protocol.md, section 7).  *)
(***************************************************************************)
SilentClientsClosed == <>[](Dead(Holding) = {})

=============================================================================
