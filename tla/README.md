# PreCall: a verification project

PreCall records what happens on a Windows desktop and makes it searchable. A
capture agent sends screenshots and window metadata to a broker, the broker
stores them per client, a background enricher computes embedding vectors for
them, and an API answers searches. The modules in this directory model the
parts of that program whose correctness depends on order, failure and
concurrency, check them with TLC, and prove the most important results with
TLAPS. Paths below are relative to the repository.

| module | what it is | checked by | proved in |
|---|---|---|---|
| `Enrich` | the background enricher over one client's stores | the `enrich_*` runs, through `MCEnrich` | `EnrichProofs` |
| `VectorStore` | what one semantic store promises (abstract) | refinement in `enrich_crash` | `EnrichProofs` |
| `Ingest` | agent, network, broker sessions and disk of one client | `ingest`, `ingest_silent` | `IngestProofs` |
| `CaptureLog` | what the broker promises about captures (abstract) | refinement in `ingest` | `LogProofs` |
| `ClientStores` | the directory of one client and everybody who writes it | `views_readers`, `wipe_leaves` | `ViewsProofs` |
| `Search` | `POST /search`: legs, filters, rank fusion | `views_readers`, `search_apps` | `ViewsProofs`, `FusionProofs` |
| `Feeds` | the export and the live feed | `views_readers` | `ViewsProofs` |
| `Views` | the stores, their writers and one reader (composition) | `views_readers`, through `MCViews` | `ViewsProofs` |
| `Agent` | the capture agent's threads and loop | `agent`, `agent_stale` runs, through `MCAgent` | `AgentProofs` |
| `Wire` | handshake, mux and graphics codecs on a byte stream | `agent`, `agent_frame`, through `MCAgent` | `WireProofs` |
| `SequenceFacts` | lemmas on sequences: induction, flattening, cutting | | itself |

## 1. Inventory

### Components, their state, their operations

**Capture agent** (`crates/precall-client`). State: the connection (or none,
with a doubling backoff), the latest frame, the hash of the last frame taken, a
process-wide pause flag, and three places where frames wait: an unbounded channel
behind the capture thread, the frame a bridge task holds, a channel of four.
One loop (`run.rs`) selects between a stop signal, frames, audio chunks, the
capture tick, the heartbeat tick and orders of the broker. A capture tick
deduplicates, checks privacy, encodes, sends the picture on GFXRDP and then its
metadata on PCMETA. Any send error ends the connection; what was not sent is
given up. *Correct when* pictures and metadata leave in the same order, nothing
excluded leaves, a pause is obeyed until it is lifted, and the loop recovers from
every error and can always be stopped.

**Broker** (`crates/precall-broker`). State shared by all sessions: the session
counter, the server database, a live-event channel nobody receives. State of a
session: the frame assembler, the queue of finished pictures, the time it last
heard anything, its own handles on the client's store. One task per connection
admits itself, does the TLS accept and the hello, opens the store and loops over
incoming messages and a silence tick. *Correct when* the counter is exact and
bounds the sessions served, a picture is stored with the metadata taken with it,
the object is on disk before the row that names it, and dead sessions end.

**Stores** (`crates/precall-store`). Per client: `ukg.db` (captures, their
relations, work state, configuration flags), two semantic stores (vectors and
the label of their embedding space), a directory of screenshots, optionally
sealed. Each statement commits on its own except `insert_capture`, which is one
transaction. *Correct when* vectors of one store are comparable (one space), no
capture has two, and the insert is idempotent on the image token.

**Background enricher** (`crates/precall-api/src/enrich.rs`). One task, every
tick, client by client: compare the service's spaces with the stores' labels,
rebuild a store of another space, lower the flags of routes that are back, take
a batch of the backfill queue and one of fresh captures, and run the text leg
and the image leg of each. Locals of a pass are lost when it stops. *Correct
when* a store never mixes spaces, whatever stops is repaired by a later pass,
terminal verdicts stay terminal, stuck captures starve nobody, and the service
is not asked for ever.

**Embedding client and service** (`embed.rs`, `src/ai`). Stateless; what matters
is what a call may answer: a vector and its space, refused, absent, try later,
or a vector of the wrong width; that `/health` may be silent; and that `/topics`
answers with an empty list whatever goes wrong.

**Search, export, live feed, wipe** (`routes.rs`). Reads over the stores (rank
fusion, paging, a polling cursor) and one destructive operation, the wipe, which
runs beside the broker and the enricher. A request keeps only locals: the legs
left to run, the ranks so far, a cursor. *Correct when* vectors of two models are
never ranked together, a filter holds for every leg, nothing better is left out,
an export is complete, a feed repeats and skips nothing and sends only what is new,
and what was stored when a wipe began is gone when it has answered. The code falls
short of that in several ways: the wipe and the lexical filter are findings below, the
edges of an export's pages and the start of a feed are exceptions their properties name.

**Wire codec** (`crates/precall-proto`). Encode and decode of mux frames,
graphics PDUs and the hello, over a stream that may be cut anywhere. *Correct
when* what is decoded is what was encoded, and no byte is lost where one decoder
takes over from another. **Authentication and TLS**: stateless comparisons.
**Mock client**: a test driver. **Web UI**: presentation.

### Interactions

    agent --TCP/TLS--> broker session --statements--> ukg.db, objects
                                                        ^   ^
    enricher --statements-------------------------------+   |
    enricher --statements--> SemanticTextStore, SemanticImageStore
    enricher --HTTP--> embedding service                    |
    API handlers --statements (read; wipe writes)-----------+

The components share no memory. They meet in SQLite databases in WAL mode, where
one committed statement is the unit of atomicity, and in files. That is why one
action of the models is one committed statement, one file operation or one
awaited call: at each of those points another component may act or the process
may stop.

### Hard behaviours

`PROJECT.json` lists every hazard with its line. The classes that matter:
a value read before an await and used after it (the spaces read from `/health`),
sequences of separate commits interrupted in the middle (the rebuild of a store,
the outage flags, insert then mark), retries of work half done, starvation in a
bounded queue, sessions of one client that overlap because a dead peer is not
noticed at once, pairing by order of arrival, a counter that a dozen exits
must give back, a search or an export that reads several statements while a wipe
deletes, calls whose failure looks like an empty answer, and frames that wait in three
queues while the agent has no connection.

## 2. The models and the code

### Enrich

One client's enricher beside the broker that inserts captures. The stored state
is `processed`, `imgState`, `age` (the attempt clock), `unavail` and `topics` in
`ukg.db`, and `label` and `vecs` of the two semantic stores. `vecs[s][c]` is the
sequence of spaces of the vectors of `c`, so that a duplicate or a vector of a
wrong space can be seen. The pass in progress is `pc`, `leg`, `cur`, `answer`
and `pass` (the rest of its locals). The embedding service `svc` may change
between any two steps, as often as `MaxMoves` allows, into any state the
configuration's `ServiceMoves` permits.

* `StartPass`, `SpaceSame`, `SpaceChanged`, `SpaceRequeue`, `SpaceLabel`: the
  start of `enrich_once` and the space check of `enrich_client`.
* `FlagDown`, `LowerFlag`, `FlagRequeue`: the two unavailable flags.
* `Select`, `TakeBackfill`, `BackfillDrained`, `TakeFresh`, `FreshDrained`: the
  two queues, with the SQL's `WHERE`, `ORDER BY` and `LIMIT`.
* `TextSettled` to `TopicsDone`: the text leg. `AskTopics` is the awaited call, which
  gives nothing when the service's `topics` is down; `AttachTopic` commits one of the
  topics it gave. `SkipImages` to `ImageDone`: the image leg (`image_step` and
  `image_record`); `MarkProcessed` ends a capture.
* `StoreSame`, `StoreClear`, `StoreRequeue`, `StoreRelabel`, `StoreInsert`: storing
  a vector. If its space is new the store is rebuilt first. Both legs use it.
* `ReadError` and `Interrupt` stop the pass; `InsertCapture` is the broker.

What a text or a screenshot is, is a kind: text `none`, `good` or `refused`;
screenshot `jpeg`, `refused`, `raw`, `corrupt`, `missing`, `noTime` or `noToken`.
The topics of a text are `Titles`, the same for every text. The vectors themselves
and HTTP are abstracted away. Two histories, which no action reads, record what the
properties except: `ruled`, the texts that got an answer the pass takes for final (a
refusal, or a vector of the wrong width), and `untitled`, those whose last call of
`/topics` gave nothing.

### Ingest

One client, its agent's successive connections, the network, the broker's session
tasks and the disk. Each connection has a phase `st` (`accepted`, `turnedAway`,
`greeting`, `open`, `put`, `row`, `closed`), a FIFO `wire` and a `link` that is
up, reset (the broker will be told) or silent (it will not). `count` is
`Broker.sessions`; `turnedAway` is the moment between `fetch_add` and `fetch_sub`
of a connection that finds the broker full. `frame`, `pending`, `hand` and `quiet`
are the session's locals; `objects` and `rows` are what is on disk.

* Agent: `Connect`, `SendFrame`, `SendMeta`, `Reconnect`. A picture is three PDUs
  (start, region, end) or one that does not decode. Nothing is sent twice. The
  mock client numbers its tokens from the first again in a new run
  (`StartsOver`); the agent's tokens are fresh UUIDs.
* Network: `Cut` loses any suffix of what is in flight, and tells the broker or
  does not.
* Session: `Admit`, `TurnAway`, `Greet`, `Reject`; `BeginFrame`, `AddRegion`,
  `EndFrame`, `Undecodable`; `TakeMeta`, `PutObject`, `InsertRow`; `HangUp`,
  `HeartbeatTick`; `StorageError` and `Crash`. A write of an object that is
  interrupted leaves a torn file (`Tear`), because `std::fs::write` empties the
  file before it fills it.

Abstractions: a PDU is an item of its own whatever mux payload carried it, since
only its own session sees a frame before it is finished; a batch holds one
capture and is of the session's own client, as both clients send it; control and
audio messages are left out. Heartbeats are left out with the clock: the silence
tick fires only when the peer is gone or its data are delayed, which assumes that
an idle agent whose link is up heartbeats in time (the agent sends one every
`max(interval, 5 s)`, the broker waits four intervals, so this needs an interval
of at least 1.25 s). Two sessions that write the same object at the same moment
are modelled as one after the other; only `StartsOver` makes them share a token.

### ClientStores, Search, Feeds, Views

`ClientStores` is the directory of one client: `rows`, `related` (applications and
regions), `indexed` (the text index), `named` (the rows of App, File and Web that a
capture's insert wrote), `rowid` and `seq` (AUTOINCREMENT), `ts`, the `objects`, and
both semantic stores. Its writers are the broker (`PutObject`, then
`InsertRow` in one transaction), the enricher, which does what `VectorStore` allows
(the specification `Enrich` is shown to implement, `INSTANCE`d here for each
store) and may hold a capture whose row is gone, and the wipe: `WipeBegin`, one
`WipeStep` per committed statement, `WipeFails` in the middle of any. A wipe may spell
the client's UUID in any way that parses: `canonical` says whether it is the spelling
of the directory, without which the objects are not found (`InReach`).

* `Search`: `BeginSearch` refuses or lists the legs; `FtsLeg` is one SQL statement;
  a semantic leg is `Embedded` or `NoEmbedding`, `Verdict` (the label of the store),
  `Filter`, `Scan`, `Absorb`, each a separate read; `Answer` fuses by rank
  (`Score`, `Before`) and truncates; `SearchError` is any statement that fails. How
  similar two things are is not modelled: a leg may rank any subset of what it sees
  in any order. `FtsOfApps` is the lexical filter as the SQL binds it: with two
  names or more the first half of the doubled list is compared with paths and the
  second with names.
* `Feeds`: `BeginExport`, `ExportNext` (a page of `Ukg::timeline`, then the time of
  its last row as cursor); `BeginLive`, `Poll`, `PollError`, `SendRow`, `SendFails`.
* `Views` composes the stores with one reader at a time: readers only read, so two
  of them do not meet.

### Agent

The capture thread, the bridge, the loop and what happens to them. A frame is its
number, the window it shows and whether DXGI counted dirty regions. `pc` is where
the loop is: `top`, `connecting`, `backoff`, `select` (inside `select!`), `sending`
and `recording` (the two awaits of a capture tick), `returned`.

* Threads: `Capture`, `ThreadDies`, `BridgeTakes`, `BridgePuts` (which blocks on a
  full channel, so frames wait in `raw`).
* Loop: `Top`, `Connects`, `ConnectFails`, `BackoffOver`; the branches of `select!`
  are `Stops`, `ReceiveFrame`, `FramesEnd`, `SendAudio`, `Control`, the tick
  (`SkipUnchanged`, `SkipPrivate`, `SkipUnencodable`, `Prepare`) and `NoticeCut` (a
  heartbeat or a read that fails). Every `break` of the inner loop is `Disconnect`.
* Environment: the window in front changes (`Switch`), an order arrives (`Order`), the
  connection breaks (`Cut`) with any suffix of the orders lost, audio is heard
  (`Listen`), the service manager asks to stop (`RequestStop`).

`TakeUp` moves `lastHash` before the privacy check, as the code does: a frame that
is then excluded or cannot be encoded counts as sent for the deduplication.
`Check` looks at the window in front at the tick. `Urls` is empty: the address of
the browser is only asked for after the check, so an excluded domain never stops
a frame. Times, OCR and the contents of records are left out.

### Wire

Bytes. `WriteLimited` and `ReadLimited` are the length-prefixed handshake,
`MuxEncode` and `MuxDecode` the mux codec (`Wait` for more, an error, or a frame),
`Encode`, `Decode` and `Pdus` the graphics PDUs and their iterator, `AgentFrame` the
payload that `session.rs` writes by hand. One direction of a connection is a small
machine: `Arrives` moves one byte from the network to the reader's buffer,
`ReadsHello` takes the handshake from it, `Decodes` is one call of the decoder. The
reader may be as late as it likes, so it meets every cut of the stream.

`MCAgent` runs the stream beside an agent that meets nothing: the loop does not
depend on how its bytes are cut.

## 3. What the runs check

Deadlock is checked in the `Enrich` runs. In the others it is not, because there
the system really stops: the bounded connections, captures, requests or happenings
are used up, or the agent has returned.

| run | instance | shows |
|---|---|---|
| `enrich_settles` | 2 captures, batches of 1, 2 topics, any of 8 service states in any order, 2 changes, no crash | `TypeOK`; `NoTextForgotten`, `DoneHasVector`, `TopicsFollowVector`; `Converges`, `FallsQuiet` |
| `enrich_crash` | 2 captures, batches of 2, no topics, 2 changes of service (forward; malformed among them), a crash or storage error between any two statements | `NoMixedSpaces`, `OneVectorEach`, `SkippedIsFinal`, `IndexKept`, `TextStoreSpec`, `ImageStoreSpec`, `Converges` |
| `enrich_flag_lost` | 1 capture, one stop, a text route that was missing for a while | `Converges` fails |
| `enrich_resent` | 1 capture whose text is refused and whose screenshot is missing, nothing else | `FallsQuiet` fails |
| `ingest` | 3 connections of one client for 2 places, 2 captures, bad hellos, undecodable frames, 2 cuts, 1 crash or storage error | `TypeOK`, `PlacesCounted`, `NeverOverbooked`, `CaptureLogSpec`, `DeadSessionsEnd` |
| `ingest_silent` | 2 connections, 1 cut | `SilentClientsClosed` fails |
| `views_readers` | 3 captures, 2 spaces, 8 requests, 9 scenarios of who reads and who writes | 13 properties of search, export, live feed and wipe, below |
| `wipe_leaves` | 2 captures, one wipe, nobody else | `WipeReachesBeyondTables` fails |
| `search_apps` | 2 captures, a lexical search for two applications, nobody writes | `EligibleFound` fails |
| `agent` | 2 windows, 5 budgets of happenings, 4 byte streams | 9 properties of the agent and of the wire format, below |
| `agent_stale` | the same | `ExcludedNeverSent` fails |
| `agent_frame` | the same | `FramesDecode` fails |

**Why the bounds are enough.** Two captures with batches of one are what it takes
for a stuck capture to starve another; two changes of service cover an outage
and its end, or a model change with an outage before or after it; one crash is
what every repair path is written for. A batch of two in `enrich_crash` lets one
pass meet the two captures in different spaces. `enrich_crash` has no topics, which
would add steps and no property of it mentions; in `enrich_settles` two of them make
a difference between the first and all. `MaxAge` is the age at which
attempts stop being told apart and only needs to reach the backoff. Three
connections with two places are the smallest instance in which one is turned away
while another is being turned away or closed. Two cuts let two sessions of the
client outlive their peers. Two captures with the agent up to two pictures ahead
(`Ahead = 2`; the real agent is never more than one ahead) exercise queues longer
than one. `PendingLimit = 2` is the limit itself: the queue is full but never
overflows, which is what `Ahead <= PendingLimit` guarantees for 64 as well. Two silent
ticks (four in the code) tell a session that was heard in between from one that was not.

In `views_readers` three captures are one more than a page of the export or of the
feed, and than the deepest result asked for; one window (`PoolFactor * limit`) is
smaller than what a leg can rank, so that truncation happens, and one is as large.
Captures are stored in the order of their times and against it with a tie.
Each scenario lets two or three parties meet (a search and a rebuild, a search and
a wipe, an export and a wipe and an insert, a feed and a wipe and a reuse of ids);
all at once would add states, not meetings. `ChanCap = 1` instead of 4 in the agent
runs fills the channel with two frames, so that all three queues hold something
with three. `Days` gives each behaviour of the loop a budget in which it meets a
broken connection; two orders are a pause and its resume. The longest payload the
streams carry is 58 bytes, which is `MaxPayload`, and one message is a byte longer;
bytes arrive one at a time, which gives every chunking.

**What the properties mean.**

* `NoMixedSpaces`: every vector of a store is of the space on its label, so a query
  is never ranked against vectors it cannot be compared with.
* `OneVectorEach`: no capture has two vectors although passes stop between the insert
  and the write that records it.
* `NoTextForgotten`, `DoneHasVector`, `TopicsFollowVector`: the work state never runs
  ahead of what it stands for. A processed text has its vector, waits for its route, or
  was *ruled out*. A text with a vector has all its topics, or is getting them, or
  `/topics` gave nothing. Both exceptions are real losses, described below the findings.
  The three are checked without crashes: with a stop between two of the commits involved
  they do not hold, and for the first that is finding 1.
* `IndexKept`: a store that holds a vector is emptied only when the service named
  another space, on `/health` or with a vector of the right width. The malformed service
  of the run names another space with every vector, and `/health` is mute, so that
  nothing but the check of the width keeps the index.
* `SkippedIsFinal`: one by one, a terminal verdict is never reconsidered. All of a
  client's verdicts together are, when its image store is rebuilt; README.md:114 of the
  repository, "never retried", is about one verdict.
* `TextStoreSpec`, `ImageStoreSpec`: both stores implement `VectorStore`, in which a
  label moves only on an empty store and a vector is added only where there is none.
* `Converges`: if the service stays healthy, every embeddable text and screenshot that
  was not ruled out ends up embedded in the service's current spaces, for ever.
* `FallsQuiet`: if the service stays healthy, the enricher stops calling it.
* `CaptureLogSpec`: rows and the objects they name implement `CaptureLog`: captures
  appear one at a time, each with exactly its own picture, and stay as they are. The
  runs have `StartsOver = FALSE`: a second run of the mock rewrites stored objects in
  place, and an interrupted rewrite would tear one. (The theorems about places and
  types hold for `StartsOver = TRUE` as well.) Three things that would shift the
  pairing cannot happen in the model, so it says nothing about them: a queue of more
  than `PendingLimit` pictures, a frame that never finishes while its session goes on,
  and a batch dropped for another client's id. No client of the repository sends them.
* `PlacesCounted`, `NeverOverbooked`: the session counter is exact at every moment,
  and the connections in handshake or service never exceed `max_clients`.
* `DeadSessionsEnd`: whatever session loop has lost its peer ends, told or not.
* `VectorsAreTheirs`: a vector that a search can join with a row was computed from
  that row's capture. A wipe leaves the semantic stores alone and a pass may store
  a vector after its capture is gone, so this rests on AUTOINCREMENT.
* `WipeErases`: when a wipe has answered, what was completely stored when it began has
  no row, no relation and no text in the index any more, and no screenshot if the
  request spelled the client as its directory is spelled. It is not promised of what the
  broker had in hand or stores meanwhile (a row can even lose its object or keep it
  without relations). Three things that the code's own words promise are left, and are
  findings 3 to 5: screenshots under another spelling, the rows of App, File and Web
  (Topic, which the enricher fills, is spared in the same way) and the vectors.
* `WipeReachesBeyondTables` states one thing less than any of the three documents: of
  no capture that was there when a wipe began is *all* of that left, screenshot, names
  and both vectors. Its counterexample therefore refutes each of the three at once.
* `RankedInSpace`: vectors of another model are never ranked against a query, unless
  the store was relabelled exactly between the check of the label and the scan.
* `FilterRespected`, `NoErasedResult`: every result passes the filter, whichever leg
  found it, and none was erased before the request came.
* `ShortAnswerComplete`: an answer shorter than its limit leaves out nothing that a
  leg could see and the request asked for (`Eligible`), except on the lexical leg of a
  request for two applications or more, which binds its parameters in the wrong order
  and loses captures. `EligibleFound` has no such exception and fails (finding 6).
* `BestFirst`: nobody stands before, or instead of, a capture that outranks it by the
  legs' full rankings of what each leg's filter admits (`Admitted`: what the lexical leg
  loses by its binding it does not know): a better place in every leg wins, so does being known to more
  legs, a lexical match breaks a tie, recency only what is still tied. More legs win
  down to rank 21 (`AgreementRank`): there 4/(60 + 21) is still more than the
  3/(60 + 1) of three first places, one rank further it is not. The code's comment, that what two
  legs found "outranks one found by a single leg at the same rank"
  (`routes.rs:242`), is the case of equal ranks.
* `ExportComplete`, `ExportOnce`: an export returns what was there throughout, once,
  except captures that share the time of a page's last one. The cursor is a
  time and the comparison strict, so those are skipped: less than the "full" export
  of `routes.rs:632`.
* `LiveInOrder`, `LiveMissesNothing`: the feed sends ascending ids and every capture
  stored while it is open, unless erased first. The feed is asked for under the
  spelling of the client's directory.
* `OldOnlyWhenLate`: it starts at the id of the newest capture by time, not at the
  largest, so what was stored later but with an earlier (or the same) time is sent as
  new although it was there before; `routes.rs:698` says only new captures are. Nothing
  else is. (A feed that cannot read the newest capture starts at 0 and sends all.)
* `PictureAndRecord`, `InOrder`: on each connection a record follows its own
  picture, which the broker's pairing needs; no picture is sent twice or behind a
  newer one.
* `PauseHolds`: after a pause or a wipe order no picture is sent before a resume,
  across reconnections. Audio is: its branch does not look at the flag.
* `StopReturns`: a request to stop ends the loop from wherever it is, provided that an
  attempt to connect ends (`Connection::connect` has no timeout of its own).
* `CatchesUp`: the loop gets through the queues; the newest frame is in the end taken
  by a tick or lost with the connection it was received on. That is less than the
  offline buffer of `docs/architecture.md:300`, by which nothing is ever lost: the code
  has none, and what a broken connection held is given up.
* `MuxSplitAnywhere`, `PdusRoundTrip`, `HelloLeavesTheRest`: wherever the stream is
  cut, frames come out whole and in order, payloads decode to the PDUs they were made
  of, and the handshake takes no byte of what follows it.

**Findings.** Each is a violation run and quotes the line it contradicts in
`PROJECT.json`.

1. `enrich_flag_lost`: the unavailable flag is lowered in one commit and the
   captures it stands for are re-queued in the next. Stopped in between, they are
   never embedded, which the comment at `enrich.rs:206` rules out.
2. `enrich_resent`: a refused text is sent again at each retry of its capture's
   image, as only `IsProcessed` remembers the refusal; `enrich.rs:26` calls a
   refusal terminal.
3. `wipe_leaves`, the spelling: the wipe finds the directory by the parsed UUID but the
   objects by the client as it was sent. In upper case or without hyphens it answers 204
   and leaves every screenshot; `routes.rs:671` says it deletes all stored data.
4. `wipe_leaves`, the names: `purge_all` spares App, File and Web, with the paths of
   documents and the addresses visited; `ukg.rs:713` says it deletes every trace.
5. `wipe_leaves`, the vectors: the wipe never opens the semantic stores;
   `docs/architecture.md:512` says it wipes all server-side data.
6. `search_apps`: the lexical filter binds each application twice in a row instead of the
   whole list twice, so a search for the name of one and the path of another finds
   neither; `README.md:94` says the filter applies to every leg and that what is eligible
   is found.
7. `ingest_silent`: a peer that vanishes before its hello is complete holds its
   place for ever, since the silence check starts with the session loop;
   `docs/protocol.md:108` says the broker closes silent clients.
8. `agent_stale`: the exclusions are checked against the window in front at the
   tick, the picture shows the one that was in front when the frame was captured,
   which after a reconnect can be long before. A protected window is sent;
   `privacy.rs:2` says excluded content never reaches memory.
9. `agent_frame`: `send_frame` writes flags of four bytes, lengths without the header
   and a rectangle of 16 bytes counted as 8. `GfxPdu::decode` refuses the first PDU
   and the session ends; `session.rs:112` says the layout is identical. `Ingest`
   therefore describes the pictures of a client that encodes with `GfxPdu`, as the
   mock client does.

**Losses that properties except.** Each contradicts a sentence of the repository; the
property that runs into it excepts it by name (for the rollback, the moves of the run
leave it out), and it has no run of its own.

* *Topics* (`TopicsFollowVector`). The vector is stored before the topics are asked for,
  and a failed call of `/topics` gives an empty list like a text without topics
  (`embed.rs:321-352`). `has_item` then passes the capture by for ever;
  `enrich.rs:315` says topics are attached exactly once.
* *Vectors of the wrong width* (`NoTextForgotten`, `Converges`). They say something about
  the service but are taken for a final answer about the input: the text is marked
  processed, the screenshot `skipped`, and neither is tried again when the service is
  well. `README.md:119` says only four statuses are terminal, and the warning of the
  image leg (`enrich.rs:527`) "store and state left untouched" right before the state is
  written.
* *A rollback in the middle of a rebuild* (`Converges`). A store is cleared before its
  captures are re-queued. If the pass stops there and the service goes back to the old
  model, the label matches again and the store is never refilled; `enrich.rs:543` says an
  interruption leaves the mismatch detectable. This is why `enrich_crash` allows only
  forward changes and no missing route.
* *The edge of an export's page* (`ExportComplete`) and *old captures in a feed*
  (`OldOnlyWhenLate`), above.

One disagreement no property is worth: the comment above
`reset_image_embedding_states` says "Pacing rows go too", but the attempt rows
stay, so a re-queued capture still waits for the rest of its backoff. Nor is the day
of `objects.rs:15`, which is a hundred days long in ticks of 100 ns: writer and reader
share it, only the documented layout is affected.

Other behaviour a reader should know of, which contradicts no document: `send_audio`
writes no token, so the first audio chunk ends the session at the broker; an agent
whose capture thread has died reconnects at once and for ever (a connection resets
the backoff), until it is stopped; and the live feed checks the client by its parsed
UUID but opens the database under the spelling it was sent, which `Ukg::open` creates, so
under another spelling it polls an empty database for ever.

## 4. Fairness

`Enrich` assumes weak fairness of the enricher's own step (`EnrichStep`):
`spawn_enricher` loops for ever, survives a failed pass, and every call it awaits
has a timeout. Nothing is owed by the broker, the service or the fault actions.
`Converges` and `FallsQuiet` take the health of the service as their premise.

`Ingest` assumes weak fairness of each session's steps: every connection has a
spawned task of its own and the runtime schedules it; a tick of the interval
always comes. The agent, the network, storage errors and crashes owe nothing.

`Views` assumes weak fairness of the live loop (its timer ticks, a row found is
sent). Searches, exports and writers owe nothing.

`Agent` assumes that its threads run and that an attempt to connect or to send ends
one way or the other (weak fairness), and strong fairness of the branches of
`select!` for stop, frames, the tick and a broken connection: tokio polls the
branches in random order, and each of them is ready again and again although others
come in between. The capture itself, orders, cuts and stops owe nothing.

## 5. What is proved

Every proof holds for any values of the constants that satisfy the modules'
assumptions: bounds are naturals (batch, backoff and queue limits positive), the
two special labels differ from every space and from each other, inputs are of the
listed kinds, and the service's states are well formed.

**`EnrichProofs`.** `TypeCorrect` (`[]TypeOK`), `StoresNeverMix`
(`[]NoMixedSpaces`), `StoresNeverDuplicate` (`[]OneVectorEach`),
`TextStoreImplements` (`TextStoreSpec`), `ImageStoreImplements`
(`ImageStoreSpec`), `VerdictsAreFinal` (`SkippedIsFinal`) and `IndexesAreKept`
(`IndexKept`) hold whatever crashes; `TopicsAlwaysFollow`
(`[]TopicsFollowVector`), `DoneIsNeverAhead` (`[]DoneHasVector`) and
`TextsAreNotForgotten` (`[]NoTextForgotten`) assume `MaxFaults = 0`: each relates two
statements that commit separately, and the window between them is what a crash can
hit (`enrich_flag_lost` shows what becomes of such a stop).
The invariants are not inductive as stated:

* `TypeInv` adds to `TypeOK` what the control state implies: which steps have a
  capture in hand (`InHand`), that the spaces compared are known
  (`KnownAnswered`), and that an answer about to be stored is usable
  (`AnswerUsable`). `Frame` says which actions write which variables, so that each
  part of the state is only argued about where it changes.
* `StoreInv` says that a store is homogeneous and of its label (`Homogeneous`), empty
  while its label is unknown (`UnknownEmpty`), empty between its clearing and its
  relabelling (`Emptied`), and that at the moment of an insert the capture has no
  vector and the label is that of the answer (`ReadyToInsert`). That the last survives
  is the core of the argument: every path to an insert either found the label
  equal, or found the store unlabelled, or emptied it itself.
* `IndexesAreKept` needs no more than `TypeInv`: a store is cleared at `SpaceChanged`,
  where the pass knows the service's space and it differs, or at `StoreClear`, where
  `AnswerUsable` says that the answer in hand is a good vector of another space.
* `TopicsInHand` says for `TopicsAlwaysFollow` that while the topics of a capture are
  being attached, those attached and those still in hand are all there are, unless the
  call gave nothing (`untitled`).
* `VerdictInv` says that a capture in hand on its way to a state row has not been
  given up already (`NotGivenUp`, `NothingStored`).

* `InsertedNow` says that a pass about to record "done" has the vector in the store,
  which `DoneHasVector` needs at that step; `ForgetsNothing` says the same of every
  capture marked processed or about to be (`Settled`: its text has a vector, was
  ruled out, or its route is absent and flagged), except while the pass is re-queuing
  all texts (`Requeuing`): after the store was cleared, or the flag lowered, the
  re-queue is the very next step.

`TextStoreImplements` and `ImageStoreImplements` follow from `StoreInv`: each step is a
`Clear`, `Relabel` or `Add` of the store or leaves it alone.

**`IngestProofs`.** `CounterExact` (`[]PlacesCounted`), `MaxClientsRespected`
(`[]NeverOverbooked`) and `TypeCorrect` (`[]TypeOK`), for any number of connections. A step of a session is shown
to be a move of one task from one phase to another with the counter following it
(`Moves`), a step without effect on either, or the crash that resets both. A move
changes the number of tasks in any set of phases by one at most (`AtMoves`, from the
cardinality theorems). `NeverOverbooked` is inductive only beside
`PlacesCounted`: a place is given when the *counter* is below `max_clients`, and
those who hold a place are among those counted (`HoldersCounted`). `PhaseInv` adds
that a connection not yet opened has no task, which `Connect` needs. For
`TypeCorrect`, `TypeInv` adds that every item on the wire but a hello carries a
capture (`ItemsNamed`) and that a capture being stored is one (`HandNamed`); the
bound of the counter follows from its exactness (`SomeConns`).

**`LogProofs`.** `RowsKeepTheirPictures` (`CaptureLogSpec`): what one client's
connections store implements `CaptureLog`, for any number of connections, captures,
cuts, storage errors and crashes, under `Orderly`: at most `PendingLimit` pictures
ahead of their metadata (the agent sends one, the queue holds 64), and no agent that
begins again with its first token. Without the first a full queue drops the oldest
picture and every later one is paired with the record before its own; without the
second `put` replaces the object behind a row that `insert_capture` keeps. The
inductive invariant is `LogInv`:

* `Streams`: every connection being served has a next record `m` and a next picture `f`
  such that the queue holds exactly the pictures `m .. f - 1`, and what is on its wire
  continues from there: records from `m` on and pictures from `f` on, each in order,
  each record after its picture, no picture more than `Ahead` in front, and the PDUs of
  a picture next to each other (`Stream`). A cut loses a suffix, which leaves a stream.
  On the agent's own connection everything sent is on the wire or was read
  (`AllSent`), so that the next item sent continues the stream.
* `DueOnce`: a capture is due, in a session's hand or on a wire, on one connection at
  most, and not any more once it has a row. This is why sessions of the client that
  overlap cannot store a capture twice, nor write the object behind a row.
* `RightPicture`: the picture in hand, then in the object, is the capture's own; a
  torn write hits only a capture in hand, which has no row yet.

**`AgentProofs`.** `TypeCorrect` (`[]AgentTypeOK`), `PicturesInOrder` (`[]InOrder`),
`RecordsFollowPictures` (`[]PictureAndRecord`) and `PauseRespected` (`PauseHolds`), for
any windows, exclusions, orders, channel capacity and number of happenings. One
inductive invariant carries all four, `Inductive`:

* `Shapes` is the type of every variable.
* `Queued` orders the frames along their way: everything in `raw` is newer than the
  frame the bridge holds, that than all of `chan`, that than `latest`, each place is
  ascending, and `captured` bounds them all. `SentSoFar` says that what was sent is
  ascending and older than whatever still waits, a frame in hand included until it
  is sent. Neither survives alone: sending the frame in hand keeps `sent` ascending only
  because the queues are newer.
* `Paired` says by `pc` and the parity of `wire` which item is due next.
* `FlagKept` says that the flag is the last order handled, and that a loop which is
  sending is not paused: orders are handled only in `select`.

**`ViewsProofs`.** Theorems of `Views`, for any number of captures, any requests,
scenarios, page sizes and pool sizes: `ViewsTyped` (`[]ViewsTypeOK`,
the types of all three modules), `RightVectors` (`[]VectorsAreTheirs`), `WipeIsComplete` (`[]WipeErases`), `SpacesApart`
(`[]RankedInSpace`), `AnswersPass` (`[]FilterRespected`), `ErasedStayAway`
(`[]NoErasedResult`), `NothingLost` (`[]ShortAnswerComplete`), `NoDuplicates`
(`[]ExportOnce`), `MissesOnlyEdges` (`[]ExportComplete`), `FeedInOrder`
(`[]LiveInOrder`) and `OldOnlyLate` (`[]OldOnlyWhenLate`). One inductive invariant carries them all, `Inductive`:

* `StoresInv`: captures are stored in their order, so a capture's id is its number and
  never given again (`TablesInv`); a vector is of its store's label and was computed
  from the capture with its id (`VectorsInv`); what the wipe has deleted of the doomed
  captures stays deleted (`WipeInv`; its object only if the spelling was `canonical`). `VectorsOld`: nobody has a vector before its row.
  `StoresHistory` says what a writer's step leaves of what a reader saw - ids only grow,
  what is gone stays gone, times do not change - and is all the readers' proofs use.
* `SearchInv`: everything found passes the filter and either had a row when the request
  came or was stored since (`Found`, `Untouched`); between the verdict and the scan the
  label seen was that of the query's space or of an empty store (`Checked`); a leg's
  window is full or holds everything due (`Taken`), and no leg's window is lost on the
  way to the answer (`Complete`). The lemma `Window` is the core: filtering before
  truncating, with a pool no smaller than the limit (`Limits`), cannot drop an eligible
  capture from a window that is not full. `NothingLost` then counts: a window whose
  captures all have rows is no longer than `hits`; `OneName` says that the lexical
  filter is the one asked for when at most one application was named.
* `ExportInv`: each capture present throughout is exported, shares its time with an
  edge, or is older than the cursor; all that was exported is at the cursor or newer,
  which is why no page repeats one (`PageFacts`, `Joined`).
* `LiveInv`: what was sent is ascending and at most the feed's position, the batch in
  hand ascending and above it. `EarlierInv`: the feed began at the newest of the captures
  stored before it, and every one of them beyond that is `Late`.

**`FusionProofs`.** `BestComeFirst` (`[]BestFirst`): the rank fusion keeps the order of
the legs' full rankings, for any limit, pool size and number of captures. To `Inductive`
it adds `Ranking`: while nothing is wiped, every leg's window is the best of its full
ranking among the captures that were due (`Top`), and an answer is sorted. `KeptTop` says
that filtering a ranking and cutting it off gives such a window, `PlaceInWindow` that a
rank in it is the place among all that the leg admits, not only those in the window, and
that what was left out comes after the pool is full. What a rank is worth is one over 60 + r; the model
counts it in units of `Scale`, the product of all the denominators that occur, so every
share is exact (`Divides`, `Exact`) and comparing shares compares ranks
(`BetterWorth`). `AheadEverywhere`, `AgreedOn` and `ExactMatch` are the three ways to
outrank somebody; `Agreement` is the arithmetic of the second. The code adds in `f64`: what
outranks by rank does so by more than 10^-6, far above a rounding error, and in the third
way each score is one summand.

**`WireProofs`.** Three theorems of one direction of a connection (`WireSpec`), for any
hello, any messages on any channel, any PDUs, any limits below 2^31 and any cut of the
stream: `FramesWhole` (`[]MuxSplitAnywhere`), `NothingBehindTheHelloIsLost`
(`[]HelloLeavesTheRest`) and `PdusComeBack` (`[]PdusRoundTrip`). `WireIsRead` is the
inductive invariant, `WireInv`: before the hello is read, buffer and network are two
parts of everything that was written (`Greeting`); afterwards there is a `k` such that
they are two parts of what the messages after the first `k` give (`Left`), and the reader
has returned the frames of those of the first `k` that fit (`Kept`), all on known channels;
it has failed only in front of a message on an unknown one (`Reading`). A refused message
writes nothing, so several `k` may do: a step argues about the greatest (`ReadingOn`).
Each decoder is described once: of a buffer with a whole message in front it takes exactly
that message's bytes, of less it takes nothing and waits (`LimitedReads`, `FrameReads`,
`DecodeTakes`). Below them are the little-endian fields, signed ones included, written
and read back (`U32OfLE`, `U16OfLE`, `I16RoundTrip`), and one lemma per kind of PDU.

**`SequenceFacts`.** What these proofs need of sequences and the library does not state
without operator parameters: induction over `Nat` as a fact about *sets* of numbers, which
the provers can instantiate (`Induction`); with it, that functions which recur to the
number before or leap ahead obey their equations (`BoundedRecursion`,
`LeapRecursion`: `Pdus` is one), and what `FlattenSeq` does to an append and to a
split; and when a part of a sequence is a part of its part (`Cut`, `Piece`).

**Model-checked only.** Liveness (`Converges`, `FallsQuiet`, `DeadSessionsEnd`,
`StopReturns`, `CatchesUp`, `LiveMissesNothing`), since fairness and `ENABLED` are
beyond the prover. Every other property of a passing run is a theorem.

## 6. Not modelled

* Authentication, TLS and certificate pinning: stateless comparisons of digests.
* The embedding service and the web UI: outside the Rust program. The service is
  modelled as what it may answer.
* Operating-system I/O of the agent (DXGI, WASAPI, UI Automation, OCR, the service
  manager) beyond what it may return to the loop, and the JSON bodies of messages.
* The read-only handlers of the API that answer from one statement or one file
  (snapshot, regions, relaunch, applications, web visits, clients, health): nothing
  can come between.
* Dwell times and statistics of `ukg.db`, and the arithmetic of the cipher, of hash
  embeddings and of similarity.
* Audio and control messages at the broker: they change nothing the captures depend
  on. Batches of several captures: no client sends one.

## 7. Running it

    tlc -workers 2 -config enrich_settles.cfg MCEnrich
    tlc -workers 2 -config enrich_crash.cfg MCEnrich
    tlc -workers 2 -config ingest.cfg Ingest
    tlc -workers 2 -config views_readers.cfg MCViews
    tlc -workers 2 -config agent.cfg MCAgent
    tlapm EnrichProofs.tla
    tlapm IngestProofs.tla
    tlapm LogProofs.tla
    tlapm AgentProofs.tla
    tlapm ViewsProofs.tla
    tlapm FusionProofs.tla
    tlapm SequenceFacts.tla
    tlapm WireProofs.tla

The longest run takes under two minutes, the proofs of `ViewsProofs` about
two, the others about one each.
Definitions commented `(mutant: ...)` are plausible bugs. Each replaces one mapped
definition, and the property it belongs to then fails; `PROJECT.json` pairs them.
