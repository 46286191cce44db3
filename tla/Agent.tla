------------------------------- MODULE Agent -------------------------------
(***************************************************************************)
(* The capture agent (precall-client, run.rs): a thread that captures the  *)
(* desktop into an unbounded channel, a bridge that moves the frames into  *)
(* a bounded one, and the loop that connects, selects among everything     *)
(* that may happen, and sends one picture and its record per tick.  The    *)
(* foreground window, the network, the broker's orders and the request to  *)
(* stop change in between.                                                 *)
(*                                                                         *)
(* A frame is its number, the window it shows - all that the sampled bytes *)
(* of cheap_hash tell apart - and whether DXGI counted dirty regions.      *)
(***************************************************************************)
EXTENDS Integers, Sequences

CONSTANTS
  Windows,      \* windows that can be in the foreground
  Protected,    \* those with a display affinity (is_protected_window)
  Excluded,     \* those of an excluded process
  Orders,       \* what the broker may send over PCCTRL
  ChanCap,      \* capacity of the bounded channel (4)
  Budgets       \* how often each thing outside the loop may happen (bounds the model)

None == "none"

\* The window in front changes, a frame or a chunk of audio is captured, the
\* capture thread dies, an order is sent, a connection breaks or is refused.
Happenings == {"switches", "frames", "chunks", "deaths", "orders", "cuts", "refusals"}

ASSUME AgentAssumption ==
  /\ None \notin Windows /\ Protected \subseteq Windows /\ Excluded \subseteq Windows
  /\ Orders \subseteq {"pause", "resume", "wipe", "goodbye", "garbled"}
  /\ ChanCap \in Nat \ {0}
  /\ Budgets \subseteq [Happenings -> Nat]

FirstBackoff == 500
LastBackoff  == 30000

VARIABLES
  fg,        \* the foreground window
  \* the capture thread and the bridge
  thread,    \* whether the capture thread is running
  captured,  \* frames it has captured
  raw,       \* the unbounded channel
  bridge,    \* whether the bridge is running
  held,      \* the frame the bridge is putting into the bounded channel
  chan,      \* the bounded channel
  chunks,    \* audio chunks waiting
  \* the loop
  pc, backoff, latest, lastHash,
  hand,      \* the frame being sent, and the window its record names
  paused,    \* PAUSED, a static of the process
  \* around it
  stop,      \* the request to stop
  link,      \* the connection: none, up, or cut and not yet noticed
  inbox,     \* orders on their way
  budget,    \* what the environment may still do
  \* history
  sent,      \* every picture that was sent
  wire,      \* what was sent over the last connection
  settled,   \* the last frame a tick took or a broken connection dropped
  heard      \* the last order about streaming the loop handled

feed == <<thread, captured, raw, bridge, held>>
loop == <<pc, backoff, latest, lastHash, hand, paused>>
net  == <<link, inbox>>
hist == <<sent, wire, settled, heard>>
vars == <<fg, feed, chan, chunks, loop, stop, net, budget, hist>>

Frames == [no : Nat \ {0}, shows : Windows, dirty : BOOLEAN]

\* An Err in the unbounded channel, a frame without a number.
Failure == [no |-> 0, shows |-> None, dirty |-> FALSE]

Spend(what) == budget[what] > 0 /\ budget' = [budget EXCEPT ![what] = @ - 1]

Init ==
  /\ fg \in Windows
  /\ thread = TRUE /\ captured = 0 /\ raw = <<>> /\ bridge = TRUE /\ held = <<>> /\ chan = <<>>
  /\ chunks = 0
  /\ pc = "top" /\ backoff = FirstBackoff /\ latest = <<>> /\ lastHash = None
  /\ hand = <<>> /\ paused = FALSE
  /\ stop = FALSE /\ link = "none" /\ inbox = <<>>
  /\ budget \in Budgets
  /\ sent = <<>> /\ wire = <<>> /\ settled = 0 /\ heard = "resume"

-----------------------------------------------------------------------------
(* The environment *)

Switch(w) == fg # w /\ fg' = w /\ Spend("switches")
             /\ UNCHANGED <<feed, chan, chunks, loop, stop, net, hist>>

RequestStop == ~stop /\ stop' = TRUE
               /\ UNCHANGED <<fg, feed, chan, chunks, loop, net, budget, hist>>

Order(o) ==
  /\ link = "up" /\ Spend("orders")
  /\ inbox' = Append(inbox, o)
  /\ UNCHANGED <<fg, feed, chan, chunks, loop, stop, link, hist>>

\* What was on its way when the connection broke may still be read, in part.
Cut ==
  /\ link = "up" /\ Spend("cuts")
  /\ link' = "cut"
  /\ \E n \in 0 .. Len(inbox) : inbox' = SubSeq(inbox, 1, n)
  /\ UNCHANGED <<fg, feed, chan, chunks, loop, stop, hist>>

\* The loopback thread does not look at `paused`.
Listen ==
  /\ Spend("chunks") /\ chunks' = chunks + 1
  /\ UNCHANGED <<fg, feed, chan, loop, stop, net, hist>>

Environment ==
  \/ \E w \in Windows : Switch(w)
  \/ \E o \in Orders : Order(o)
  \/ RequestStop \/ Cut \/ Listen

-----------------------------------------------------------------------------
(* The capture thread and the bridge *)

\* The desktop changed.  With the bridge gone the thread ends.
Capture ==
  /\ thread /\ Spend("frames")
  /\ IF bridge
     THEN /\ \E d \in BOOLEAN :
               raw' = Append(raw, [no |-> captured + 1, shows |-> fg, dirty |-> d])
          /\ captured' = captured + 1
          /\ UNCHANGED thread
     ELSE thread' = FALSE /\ UNCHANGED <<raw, captured>>
  /\ UNCHANGED <<fg, bridge, held, chan, chunks, loop, stop, net, hist>>

\* The duplication was lost and could not be recreated.
ThreadDies ==
  /\ thread /\ Spend("deaths") /\ thread' = FALSE
  /\ raw' = IF bridge THEN Append(raw, Failure) ELSE raw
  /\ UNCHANGED <<fg, captured, bridge, held, chan, chunks, loop, stop, net, hist>>

\* The bridge ends; its end of either channel goes with it.
BridgeEnds == bridge' = FALSE /\ held' = <<>> /\ raw' = <<>>

BridgeTakes ==
  /\ bridge /\ held = <<>> /\ raw # <<>>
  /\ IF Head(raw) = Failure THEN BridgeEnds
     ELSE held' = <<Head(raw)>> /\ raw' = Tail(raw) /\ UNCHANGED bridge
  /\ UNCHANGED <<fg, thread, captured, chan, chunks, loop, stop, net, budget, hist>>

\* (mutant: the channel is not bounded)
PutsAnyway ==
  /\ bridge /\ held # <<>>
  /\ IF pc = "returned" THEN BridgeEnds /\ UNCHANGED chan
     ELSE chan' = Append(chan, held[1]) /\ held' = <<>> /\ UNCHANGED <<bridge, raw>>
  /\ UNCHANGED <<fg, thread, captured, chunks, loop, stop, net, budget, hist>>

\* (mutant: a frame that finds the channel full is dropped)
PutsOrDrops ==
  /\ bridge /\ held # <<>>
  /\ IF pc = "returned" THEN BridgeEnds /\ UNCHANGED chan
     ELSE /\ chan' = IF Len(chan) < ChanCap THEN Append(chan, held[1]) ELSE chan
          /\ held' = <<>> /\ UNCHANGED <<bridge, raw>>
  /\ UNCHANGED <<fg, thread, captured, chunks, loop, stop, net, budget, hist>>

\* blocking_send: waits while the channel is full, fails when the loop is gone.
BridgePuts ==
  /\ bridge /\ held # <<>>
  /\ IF pc = "returned" THEN BridgeEnds /\ UNCHANGED chan
     ELSE Len(chan) < ChanCap /\ chan' = Append(chan, held[1]) /\ held' = <<>> /\ UNCHANGED <<bridge, raw>>
  /\ UNCHANGED <<fg, thread, captured, chunks, loop, stop, net, budget, hist>>

Feed == Capture \/ ThreadDies \/ BridgeTakes \/ BridgePuts

-----------------------------------------------------------------------------
(* The loop: connecting *)

\* (mutant: the flag is not looked at)
TopOn ==
  /\ pc = "top" /\ pc' = "connecting"
  /\ UNCHANGED <<fg, feed, chan, chunks, backoff, latest, lastHash, hand, paused, stop, net,
                 budget, hist>>

Top ==
  /\ pc = "top"
  /\ pc' = IF stop THEN "returned" ELSE "connecting"
  /\ UNCHANGED <<fg, feed, chan, chunks, backoff, latest, lastHash, hand, paused, stop, net,
                 budget, hist>>

\* (mutant: every connection starts unpaused)
ConnectsUnpaused ==
  /\ pc = "connecting" /\ pc' = "select"
  /\ backoff' = FirstBackoff /\ paused' = FALSE
  /\ link' = "up" /\ inbox' = <<>> /\ wire' = <<>>
  /\ UNCHANGED <<fg, feed, chan, chunks, latest, lastHash, hand, stop, budget,
                 sent, settled, heard>>

Connects ==
  /\ pc = "connecting" /\ pc' = "select"
  /\ backoff' = FirstBackoff
  /\ link' = "up" /\ inbox' = <<>> /\ wire' = <<>>
  /\ UNCHANGED <<fg, feed, chan, chunks, latest, lastHash, hand, paused, stop, budget,
                 sent, settled, heard>>

ConnectFails ==
  /\ pc = "connecting" /\ pc' = "backoff"
  /\ Spend("refusals")
  /\ UNCHANGED <<fg, feed, chan, chunks, backoff, latest, lastHash, hand, paused, stop, net, hist>>

\* The wait is over, or the request to stop ends it and the loop.
BackoffOver ==
  /\ pc = "backoff"
  /\ \/ stop /\ pc' = "returned" /\ UNCHANGED backoff
     \/ /\ pc' = "top"
        /\ backoff' = IF 2 * backoff < LastBackoff THEN 2 * backoff ELSE LastBackoff
  /\ UNCHANGED <<fg, feed, chan, chunks, latest, lastHash, hand, paused, stop, net, budget, hist>>

-----------------------------------------------------------------------------
(* The loop: one connection *)

\* Every break of the inner loop: the connection and latest_frame are dropped.
Disconnect ==
  /\ pc' = "top"
  /\ link' = "none" /\ inbox' = <<>>
  /\ latest' = <<>> /\ hand' = <<>>
  /\ settled' = IF latest # <<>> THEN latest[1].no ELSE settled
  /\ UNCHANGED <<fg, feed, chan, backoff, lastHash, stop, budget, sent, wire>>

Stops == pc = "select" /\ stop /\ Disconnect /\ UNCHANGED <<chunks, paused, heard>>

ReceiveFrame ==
  /\ pc = "select" /\ chan # <<>>
  /\ latest' = <<Head(chan)>> /\ chan' = Tail(chan)
  /\ UNCHANGED <<fg, feed, chunks, pc, backoff, lastHash, hand, paused, stop, net, budget, hist>>

\* "capture thread died"
FramesEnd ==
  /\ pc = "select" /\ chan = <<>> /\ ~bridge
  /\ Disconnect /\ UNCHANGED <<chunks, paused, heard>>

SendAudio ==
  /\ pc = "select" /\ chunks > 0 /\ chunks' = chunks - 1
  /\ \/ link = "up" /\ UNCHANGED <<fg, feed, chan, loop, stop, net, budget, hist>>
     \/ link = "cut" /\ Disconnect /\ UNCHANGED <<paused, heard>>

\* foreground_meta leaves `urls` empty; the browser's address is read after
\* the check, for the record only.
Urls(w) == {}

\* privacy::check, of the window that is in the foreground at the tick.
Check(w) == paused \/ w \in Protected \/ w \in Excluded \/ Urls(w) # {}

\* (mutant: the tick leaves the frame where it is)
TakeNot == UNCHANGED latest /\ settled' = latest[1].no

Take == latest' = <<>> /\ settled' = latest[1].no

Unchanged(f) == f.shows = lastHash /\ ~f.dirty

Tick == pc = "select" /\ latest # <<>> /\ Take
        /\ UNCHANGED <<fg, feed, chan, chunks, backoff, paused, stop, net, budget,
                       sent, wire, heard>>

SkipUnchanged == Tick /\ Unchanged(latest[1]) /\ UNCHANGED <<pc, lastHash, hand>>

\* last_hash moves before the frame is checked, encoded or sent.
TakeUp == Tick /\ ~Unchanged(latest[1]) /\ lastHash' = latest[1].shows

SkipPrivate == TakeUp /\ Check(fg) /\ UNCHANGED <<pc, hand>>

\* (mutant: the record of a picture that cannot be encoded is sent)
RecordAnyway ==
  /\ TakeUp /\ ~Check(fg)
  /\ hand' = <<[frame |-> latest[1], named |-> fg]>> /\ pc' = "recording"

SkipUnencodable == TakeUp /\ ~Check(fg) /\ UNCHANGED <<pc, hand>>

Prepare ==
  /\ TakeUp /\ ~Check(fg)
  /\ hand' = <<[frame |-> latest[1], named |-> fg]>> /\ pc' = "sending"

SendFrame ==
  /\ pc = "sending" /\ link = "up"
  /\ pc' = "recording"
  /\ sent' = Append(sent, hand[1])
  /\ wire' = Append(wire, [kind |-> "frame", no |-> hand[1].frame.no])
  /\ UNCHANGED <<fg, feed, chan, chunks, backoff, latest, lastHash, hand, paused, stop, net,
                 budget, settled, heard>>

SendMeta ==
  /\ pc = "recording" /\ link = "up"
  /\ pc' = "select" /\ hand' = <<>>
  /\ wire' = Append(wire, [kind |-> "record", no |-> hand[1].frame.no])
  /\ UNCHANGED <<fg, feed, chan, chunks, backoff, latest, lastHash, paused, stop, net,
                 budget, sent, settled, heard>>

SendFails ==
  /\ pc \in {"sending", "recording"} /\ link = "cut"
  /\ Disconnect /\ UNCHANGED <<chunks, paused, heard>>

\* A heartbeat that cannot be sent, or the end of the stream that is read.
NoticeCut ==
  /\ pc = "select" /\ link = "cut"
  /\ Disconnect /\ UNCHANGED <<chunks, paused, heard>>

Control ==
  /\ pc = "select" /\ inbox # <<>>
  /\ LET o == Head(inbox) IN
       \/ /\ o \in {"pause", "resume", "wipe"}
          /\ paused' = (o # "resume")
          /\ heard' = IF o = "resume" THEN "resume" ELSE "pause"
          /\ inbox' = Tail(inbox)
          /\ UNCHANGED <<fg, feed, chan, chunks, pc, backoff, latest, lastHash, hand, stop,
                         link, budget, sent, wire, settled>>
       \/ o \in {"goodbye", "garbled"} /\ Disconnect /\ UNCHANGED <<chunks, paused, heard>>

Loop ==
  \/ Top \/ Connects \/ ConnectFails \/ BackoffOver
  \/ Stops \/ ReceiveFrame \/ FramesEnd \/ SendAudio
  \/ SkipUnchanged \/ SkipPrivate \/ SkipUnencodable \/ Prepare
  \/ SendFrame \/ SendMeta \/ SendFails \/ NoticeCut \/ Control

Next == Environment \/ Feed \/ Loop

\* The threads run, an attempt to connect or to send ends one way or the
\* other, and select! picks among ready branches at random, so that none is
\* passed over for ever.
Fairness ==
  /\ WF_vars(BridgeTakes) /\ WF_vars(BridgePuts)
  /\ WF_vars(Top) /\ WF_vars(Connects \/ ConnectFails) /\ WF_vars(BackoffOver)
  /\ WF_vars(SendFrame \/ SendMeta \/ SendFails)
  /\ SF_vars(Stops) /\ SF_vars(ReceiveFrame) /\ SF_vars(NoticeCut)
  /\ SF_vars(SkipUnchanged \/ SkipPrivate \/ SkipUnencodable \/ Prepare)

Spec == Init /\ [][Next]_vars /\ Fairness

-----------------------------------------------------------------------------
(* Properties *)

\* Shapes and bounds: the channel never holds more than its capacity, and the
\* loop has a frame in hand exactly while it sends one.
AgentTypeOK ==
  /\ fg \in Windows
  /\ {thread, bridge, paused, stop} \subseteq BOOLEAN
  /\ captured \in Nat /\ raw \in Seq(Frames \cup {Failure})
  /\ held \in Seq(Frames) /\ Len(held) <= 1
  /\ chan \in Seq(Frames) /\ Len(chan) <= ChanCap
  /\ chunks \in Nat
  /\ pc \in {"top", "connecting", "backoff", "select", "sending", "recording", "returned"}
  /\ backoff \in FirstBackoff .. LastBackoff
  /\ latest \in Seq(Frames) /\ Len(latest) <= 1
  /\ lastHash \in Windows \cup {None}
  /\ hand \in Seq([frame : Frames, named : Windows]) /\ Len(hand) <= 1
  /\ hand # <<>> <=> pc \in {"sending", "recording"}
  /\ link \in {"none", "up", "cut"} /\ inbox \in Seq(Orders)
  /\ link # "none" <=> pc \in {"select", "sending", "recording"}
  /\ budget \in [Happenings -> Nat]
  /\ sent \in Seq([frame : Frames, named : Windows])
  /\ wire \in Seq([kind : {"frame", "record"}, no : Nat])
  /\ settled \in 0 .. captured /\ heard \in {"pause", "resume"}

\* The broker pairs pictures and records by the order they arrive in
\* (ingest.rs:272), so on each connection a record follows its own picture and
\* nothing else comes between pictures (run.rs:194-201).
PictureAndRecord ==
  \A i \in DOMAIN wire :
    /\ wire[i].kind = IF i % 2 = 1 THEN "frame" ELSE "record"
    /\ i % 2 = 0 => wire[i].no = wire[i - 1].no

\* No picture is sent twice or after a newer one, whatever connections broke
\* in between and however many frames were buffered meanwhile (run.rs:35-36).
InOrder ==
  \A i, j \in DOMAIN sent : i < j => sent[i].frame.no < sent[j].frame.no

\* "Stop streaming until resumed" (metadata.rs:113), for pictures: once a pause
\* or a wipe was handled no picture is sent before a resume, on this
\* connection or any later one.  Audio is sent all the same (README).
PauseHolds == [][sent' # sent => heard # "pause"]_vars

\* A request to stop is honoured, whatever the loop is doing, as long as an
\* attempt to connect ends (there is no timeout in Connection::connect).
StopReturns == stop ~> pc = "returned"

\* The loop gets through what was captured: in the end the newest frame was
\* taken by a tick, or lost with the connection it was received on; the
\* queues delay pictures and lose none of them.
CatchesUp == <>[](stop \/ ~thread \/ settled = captured)

\* "Decisions happen BEFORE encoding so excluded content never reaches memory,
\* let alone the wire" (privacy.rs:2-3).  The check is made of the window in
\* the foreground at the tick; the picture shows the one that was there when
\* the frame was captured.
ExcludedNeverSent ==
  \A i \in DOMAIN sent : sent[i].frame.shows \notin Protected \cup Excluded
=============================================================================
