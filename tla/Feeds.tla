------------------------------- MODULE Feeds -------------------------------
(***************************************************************************)
(* The two readers of ukg.db that see a client's captures over time:       *)
(*  - GET /export pages through the timeline, newest first, with the       *)
(*    TimeStamp of a page's last capture as the cursor of the next;        *)
(*  - the live WebSocket polls for ids above the last one it sent.         *)
(* Each statement sees the database of its moment; the broker and the wipe *)
(* go on in between.                                                       *)
(***************************************************************************)
EXTENDS ClientStores, SequencesExt

CONSTANTS
  ExportPage,   \* captures per page of an export (500)
  LivePage      \* captures per poll (50)

ASSUME PagesAssumption == ExportPage \in Nat \ {0} /\ LivePage \in Nat \ {0}

VARIABLES
  export,    \* [step, cursor, out]: the cursor is 0 before the first page
  live,      \* [step, last, batch]: the batch is what the poll found unsent
  sent,      \* ids the peer received, in order
  \* history
  present,   \* ids with a row ever since the export began
  edges,     \* the cursors of the export so far
  earlier    \* captures stored before the live feed opened, none if it could
             \* not read them

feeds == <<export, live, sent, present, edges, earlier>>

FeedsInit ==
  /\ export = [step |-> "none", cursor |-> 0, out |-> <<>>]
  /\ live = [step |-> "none", last |-> 0, batch |-> <<>>]
  /\ sent = <<>> /\ present = {} /\ edges = {} /\ earlier = {}

RowIds == {rowid[c] : c \in rows}

-----------------------------------------------------------------------------
(* Ukg::timeline *)

\* (mutant: oldest first)
PagesOldest(before, limit) ==
  LET older == {id \in RowIds : before = 0 \/ ts[Owner(id)] < before}
  IN  {SubSeq(p, 1, IF Len(p) < limit THEN Len(p) ELSE limit) :
         p \in {q \in SetToSeqs(older) :
                  \A i, j \in DOMAIN q : i < j => ts[Owner(q[i])] <= ts[Owner(q[j])]}}

\* A page: the newest captures older than the cursor; SQLite may return
\* captures of the same time in any order.
Pages(before, limit) ==
  LET older == {id \in RowIds : before = 0 \/ ts[Owner(id)] < before}
  IN  {SubSeq(p, 1, IF Len(p) < limit THEN Len(p) ELSE limit) :
         p \in {q \in SetToSeqs(older) :
                  \A i, j \in DOMAIN q : i < j => ts[Owner(q[i])] >= ts[Owner(q[j])]}}

-----------------------------------------------------------------------------
(* GET /export *)

BeginExport ==
  /\ export.step = "none" /\ scenario.reader = "export"
  /\ export' = [export EXCEPT !.step = "page"]
  /\ present' = RowIds
  /\ UNCHANGED <<live, sent, edges, earlier>>

\* (mutant: the cursor is the first capture of the page)
CursorFirst(page) == ts[Owner(Head(page))]

\* What the next page is asked to be older than.
Cursor(page) == ts[Owner(Last(page))]

ExportNext ==
  /\ export.step = "page"
  /\ \E page \in Pages(export.cursor, ExportPage) :
       IF page = <<>>
       THEN /\ export' = [export EXCEPT !.step = "done"]
            /\ UNCHANGED edges
       ELSE /\ export' = [export EXCEPT !.cursor = Cursor(page), !.out = @ \o page]
            /\ edges' = edges \cup {ts[Owner(Last(page))]}
  /\ UNCHANGED <<live, sent, present, earlier>>

-----------------------------------------------------------------------------
(* The live feed *)

\* (mutant: the position found is not taken over)
BeginLiveAtZero ==
  /\ live.step = "none" /\ scenario.reader = "live"
  /\ \E page \in Pages(0, 1) \cup {<<>>} :
       /\ page = <<>> => rows = {} \/ scenario.faults > 0
       /\ scenario' = IF page = <<>> /\ rows # {}
                      THEN [scenario EXCEPT !.faults = @ - 1] ELSE scenario
       /\ live' = [live EXCEPT !.step = "poll"]
       /\ earlier' = IF page = <<>> THEN {} ELSE rows
  /\ UNCHANGED <<export, sent, present, edges>>

\* The newest capture's id; 0 when there is none, or it cannot be read.
BeginLive ==
  /\ live.step = "none" /\ scenario.reader = "live"
  /\ \E page \in Pages(0, 1) \cup {<<>>} :
       /\ page = <<>> => rows = {} \/ scenario.faults > 0
       /\ scenario' = IF page = <<>> /\ rows # {}
                      THEN [scenario EXCEPT !.faults = @ - 1] ELSE scenario
       /\ live' = [live EXCEPT !.step = "poll", !.last = IF page = <<>> THEN 0 ELSE Head(page)]
       /\ earlier' = IF page = <<>> THEN {} ELSE rows
  /\ UNCHANGED <<export, sent, present, edges>>

\* (mutant: the poll skips to the newest of what it leaves out)
PollNewest ==
  {SubSeq(p, (IF Len(p) < LivePage THEN 0 ELSE Len(p) - LivePage) + 1, Len(p)) :
     p \in {q \in SetToSeqs({id \in RowIds : id > live.last}) :
              \A i, j \in DOMAIN q : i < j => q[i] < q[j]}}

\* WHERE Id > last ORDER BY Id LIMIT 50, as a set of that one sequence.
PollIds ==
  {SubSeq(p, 1, IF Len(p) < LivePage THEN Len(p) ELSE LivePage) :
     p \in {q \in SetToSeqs({id \in RowIds : id > live.last}) :
              \A i, j \in DOMAIN q : i < j => q[i] < q[j]}}

Poll ==
  /\ live.step = "poll" /\ live.batch = <<>>
  /\ \E ids \in PollIds : live' = [live EXCEPT !.batch = ids]
  /\ UNCHANGED <<scenario, export, sent, present, edges, earlier>>

\* The database cannot be opened or read: the poll finds nothing.
PollError ==
  /\ live.step = "poll" /\ live.batch = <<>>
  /\ Spend("faults")
  /\ UNCHANGED <<export, live, sent, present, edges, earlier>>

\* (mutant: the position is not kept)
LastKept(last, id) == last

\* last_id.max(id)
LastAfter(last, id) == IF id > last THEN id ELSE last

SendRow ==
  /\ live.batch # <<>>
  /\ live' = [live EXCEPT !.batch = Tail(@), !.last = LastAfter(@, Head(live.batch))]
  /\ sent' = Append(sent, Head(live.batch))
  /\ UNCHANGED <<scenario, export, present, edges, earlier>>

\* (mutant: the loop goes on with the next row)
SendFailsOn ==
  /\ live.batch # <<>>
  /\ Spend("faults")
  /\ live' = [live EXCEPT !.step = "closed", !.batch = Tail(@)]
  /\ UNCHANGED <<export, sent, present, edges, earlier>>

\* The peer is gone: the loop returns.
SendFails ==
  /\ live.batch # <<>>
  /\ Spend("faults")
  /\ live' = [live EXCEPT !.step = "closed", !.batch = <<>>]
  /\ UNCHANGED <<export, sent, present, edges, earlier>>

LiveNext == BeginLive \/ Poll \/ PollError \/ SendRow \/ SendFails

\* Rows that disappear while the export runs are not its to return.
Watch == present' = present \cap {rowid[c] : c \in rows'}

-----------------------------------------------------------------------------
(* Properties *)

\* The steps, and that the live feed has a batch only while it is open.
FeedsTypeOK ==
  /\ export.step \in {"none", "page", "done"} /\ export.cursor \in Nat
  /\ ToSet(export.out) \subseteq Ids
  /\ live.step \in {"none", "poll", "closed"} /\ live.last \in 0 .. seq
  /\ live.batch # <<>> => live.step = "poll"
  /\ ToSet(live.batch) \subseteq Ids /\ present \subseteq Ids /\ edges \subseteq Nat

\* An export holds every capture that was there from its first page to its
\* last, except one that shares its time with the last capture of a page: the
\* cursor is a time and the comparison is strict (ukg.rs:300-332).  That is
\* less than the "full GDPR-style export" the endpoint calls itself
\* (routes.rs:632).
ExportComplete ==
  export.step = "done" =>
    \A id \in present : ts[Owner(id)] \notin edges => id \in ToSet(export.out)

\* No capture is exported twice, whatever is stored or wiped between pages.
ExportOnce == \A i, j \in DOMAIN export.out : export.out[i] = export.out[j] => i = j

\* The feed sends ascending ids: nothing twice, nothing out of order.
LiveInOrder == \A i, j \in DOMAIN sent : i < j => sent[i] < sent[j]

\* Of the captures stored before the feed opened, it sends only those stored
\* out of the order of their times: after one that is as new or newer.  The
\* feed takes the id of the newest capture by time for the largest id, so
\* these pass for new (routes.rs:698 says that only new ones are streamed).
OldOnlyWhenLate ==
  \A id \in ToSet(sent) : Owner(id) \in earlier =>
    \E n \in earlier : rowid[n] < id /\ ts[n] >= ts[Owner(id)]

\* A capture stored while the feed is open is sent, unless it is erased before
\* the feed sees it or the peer goes away: the page limit only delays it, and
\* after a wipe new ids are still above the last one sent.  (The feed is asked
\* for under the spelling of the client's directory: live_loop joins the path
\* with the client as it was sent.)
LiveMissesNothing ==
  \A c \in Captures :
    (live.step = "poll" /\ c \in rows \ earlier) ~>
      (c \notin rows \/ live.step = "closed" \/ rowid[c] \in ToSet(sent))
=============================================================================
