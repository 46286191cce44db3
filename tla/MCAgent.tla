------------------------------ MODULE MCAgent ------------------------------
(***************************************************************************)
(* Instances of Agent for TLC - how much may happen around the loop - and  *)
(* of the byte stream its connections are made of.  What the loop does and *)
(* how bytes are cut and read do not depend on each other, so the stream   *)
(* is read beside an agent that meets nothing.                             *)
(***************************************************************************)
EXTENDS Agent, Wire

May(sw, fr, ch, de, or, cu, re) ==
  [switches |-> sw, frames |-> fr, chunks |-> ch, deaths |-> de,
   orders |-> or, cuts |-> cu, refusals |-> re]

Quiet == May(0, 0, 0, 0, 0, 0, 0)

Days ==
  {May(1, 3, 0, 0, 0, 1, 0),    \* frames pile up while the loop reconnects
   May(1, 2, 0, 0, 2, 1, 0),    \* paused and resumed across a connection
   May(0, 2, 1, 1, 0, 0, 1),    \* the capture thread dies
   May(1, 1, 1, 0, 1, 1, 2),    \* a broker that is hard to reach
   Quiet}

Start(n)     == [kind |-> "start", frame |-> n, time |-> 2 * n]
End(n)       == [kind |-> "end", frame |-> n]
Ack(n)       == [kind |-> "ack", depth |-> 1, frame |-> n, total |-> 300]
Region(data) == [kind |-> "w2s", surface |-> 1, codec |-> 241, pixel |-> 32,
                 rect |-> <<0, -1, 1920, -32768>>, data |-> data]

Shows(pdus)       == [channel |-> Gfx, pdus |-> pdus]
Says(ch, payload) == [channel |-> ch, payload |-> payload]

\* The longest payload that is written is 58 bytes long.
Picture == Shows(<<Start(70000), Region(<<11, 0, 0, 0, 8>>), End(70000)>>)
TooLong == Says(3, [i \in 1 .. 59 |-> 0])

\* A hello that is too long: nothing is sent.
Nothing == [hello |-> <<5, 5, 5>>, messages |-> <<>>]

FewPosts ==
  {[hello |-> <<1, 0>>, messages |-> <<Picture, Says(2, <<1, 0>>)>>],
   [hello |-> <<>>, messages |-> <<Says(5, <<>>), TooLong, Shows(<<Ack(256), Region(<<>>), Ack(1)>>)>>],
   [hello |-> <<7>>, messages |-> <<Shows(<<>>), Says(4, <<3>>), Says(9, <<1, 1>>), Says(4, <<>>)>>],
   Nothing}

MCInit == Init /\ WireInit /\ (posted = Nothing <=> budget # Quiet)

MCNext == (Next /\ UNCHANGED wireVars) \/ (WireNext /\ UNCHANGED vars)

MCSpec == MCInit /\ [][MCNext]_<<vars, wireVars>> /\ Fairness

\* "Layout identical to MS-RDPEGFX" (session.rs:112): every frame the agent
\* sends decodes to its START, its region, its END and its ACK.
FramesDecode ==
  \A i \in DOMAIN sent :
    LET no   == sent[i].frame.no
        pdus == Pdus(AgentFrame(<<255, 216>>, 640, 480, no, 1))
    IN  [j \in DOMAIN pdus |-> pdus[j].kind] = <<"start", "w2s", "end", "ack">>
=============================================================================
