------------------------------ MODULE MCViews ------------------------------
(***************************************************************************)
(* Instances of Views for TLC: the searches asked, and who writes while    *)
(* which reader is at work.                                                *)
(***************************************************************************)
EXTENDS Views

CONSTANTS A, B   \* two embedding spaces

\* Captures in the order of their times, and against it with a tie.
ClockForward == [c \in Captures |-> c]
ClockBack    == [c \in Captures |-> IF c = 1 THEN 3 ELSE 2]
AnyClock     == {ClockForward, ClockBack}

\* Two applications; the first one's path is not its name.
Paths == [c \in Captures |-> IF c = 2 THEN "mail.exe" ELSE "edge.exe"]
Names == [c \in Captures |-> IF c = 2 THEN "Mail" ELSE "Edge"]

Ask(mode, query, image, from, to, apps, limit) ==
  [mode |-> mode, query |-> query, image |-> image, from |-> from, to |-> to,
   apps |-> apps, limit |-> limit]

AnyRequests ==
  {Ask("fts", FALSE, "none", 0, 0, <<>>, 1),
   Ask("image", TRUE, "none", 0, 0, <<>>, 1),
   Ask("hybrid", TRUE, "none", 0, 0, <<>>, 1),
   Ask("semantic", TRUE, "none", 2, 0, <<>>, 2),
   Ask("fts", TRUE, "none", 0, 1, <<"edge.exe", "Mail">>, 2),
   Ask("fts", TRUE, "none", 0, 0, <<"Mail">>, 2),
   Ask("image", FALSE, "good", 0, 0, <<"Mail">>, 1),
   Ask("hybrid", FALSE, "undecodable", 0, 0, <<>>, 1)}

Scene(stored, space, reader, inserts, moves, wipes, faults) ==
  [stored |-> stored, space |-> space, reader |-> reader, inserts |-> inserts,
   moves |-> moves, wipes |-> wipes, faults |-> faults]

AnyScenes ==
  {Scene(1..3, A, "search", 0, 0, 0, 0),           \* nobody writes
   Scene(1..1, A, "search", 0, 3, 0, 1),           \* a store is rebuilt
   Scene({}, Unknown, "search", 1, 2, 0, 0),       \* a store is built
   Scene(1..2, A, "search", 1, 0, 1, 0),           \* a client is wiped
   Scene(1..2, A, "export", 1, 0, 1, 1),
   Scene(1..3, A, "export", 0, 0, 0, 0),
   Scene(1..1, A, "live", 2, 0, 1, 2),
   Scene(1..1, A, "live", 1, 1, 1, 0),             \* a late vector of an erased capture
   Scene({}, A, "live", 3, 0, 1, 1)}

\* The lexical search for two applications, the name of one and the path of
\* the other.
TwoAppsRequests == {Ask("fts", TRUE, "none", 0, 0, <<"Mail", "edge.exe">>, 3)}

\* Nobody asks and nobody else writes.
NoRequests   == {}
SearchScenes == {Scene(1..2, A, "search", 0, 0, 0, 0)}
WipeScenes   == {Scene(1..2, A, "search", 0, 0, 1, 0)}
=============================================================================
