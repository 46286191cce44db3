------------------------------- MODULE Enrich -------------------------------
(***************************************************************************)
(* The background enricher of precall-api (enrich.rs) working on one       *)
(* client's stores, beside the broker that inserts captures, the embedding *)
(* service that answers it, and the crashes and storage errors that stop a *)
(* pass.  One action is one committed SQLite statement or one awaited HTTP *)
(* call: between any two of them the process may stop, the broker may      *)
(* insert, and the service may change.                                     *)
(*                                                                         *)
(* The text leg and the image leg follow the same protocol on two stores,  *)
(* so the steps they share take the leg from the variable `leg`.           *)
(***************************************************************************)
EXTENDS Integers, Sequences, FiniteSets

CONSTANTS
  NumCaptures,    \* captures the broker may insert (bounds the model)
  Batch,          \* BATCH: captures per queue per pass
  Backoff,        \* RETRY_BACKOFF_TICKS, in units of the clock
  MaxAge,         \* ages of attempts are counted up to this
  Spaces,         \* embedding spaces the service may report
  Unknown,        \* SPACE_UNKNOWN
  BrokerStamp,    \* the label the broker gives a store it creates
  TextKinds,      \* what a capture's OCR text may be
  ImageKinds,     \* what a capture's stored screenshot may be
  Titles,         \* the topics /topics finds in a text, when it answers
  ServiceStates,  \* the states of the embedding service
  ServiceMoves,   \* the changes of state it may make
  MaxMoves,       \* how often it may change (bounds the model)
  MaxFaults       \* crashes, storage errors (bounds the model)

Stores   == {"text", "image"}
Captures == 1 .. NumCaptures
Labels   == Spaces \cup {Unknown, BrokerStamp}

\* "up" embeds, "down" fails transiently, "absent" answers 404/501 and
\* "malformed" answers 200 with a vector of the wrong width.
Modes == {"up", "down", "absent", "malformed"}

ASSUME BoundsAssumption ==
  /\ NumCaptures \in Nat /\ Batch \in Nat \ {0} /\ Backoff \in Nat \ {0}
  /\ MaxAge \in Nat /\ MaxAge >= Backoff
  /\ MaxMoves \in Nat /\ MaxFaults \in Nat

ASSUME SpacesAssumption ==
  Unknown \notin Spaces /\ BrokerStamp \notin Spaces /\ Unknown # BrokerStamp

ASSUME KindsAssumption ==
  /\ TextKinds \subseteq {"none", "good", "refused"}
  /\ ImageKinds \subseteq {"jpeg", "refused", "raw", "corrupt", "missing",
                           "noTime", "noToken"}

ASSUME ServiceAssumption ==
  /\ ServiceStates \subseteq [health : BOOLEAN, topics : BOOLEAN,
                              mode : [Stores -> Modes],
                              space : [Stores -> Spaces]]
  /\ ServiceMoves \subseteq ServiceStates \X ServiceStates

VARIABLES
  \* ukg.db, written by the broker
  inserted,   \* captures 1..inserted have a WindowCapture row
  text,       \* the kind of each capture's OCR text
  image,      \* the kind of each capture's stored screenshot
  \* ukg.db, written by the enricher
  processed,  \* captures with IsProcessed = 1
  imgState,   \* PrecallImageEmbedding.State, "none" without a row
  age,        \* clock units since PrecallEnrichAttempt.UpdatedAt
  unavail,    \* the enrich.*_unavailable flags
  topics,     \* the topics attached to each capture
  \* SemanticTextStore.db and SemanticImageStore.db
  label,      \* vector_space_id of each store
  vecs,       \* vecs[s][c]: the spaces of c's vectors in store s
  \* the running pass (lost when the process stops)
  pc,         \* the step the pass has reached
  leg,        \* the store that step is about
  cur,        \* the capture in hand, 0 for none
  answer,     \* the embedder's last answer
  pass,       \* the rest of the pass's locals
  \* the environment
  svc,        \* the embedding service
  moves,      \* changes of the service so far
  faults,     \* crashes and storage errors so far
  \* history
  ruled,      \* captures whose text got an answer the pass takes for final:
              \* a refusal, or a vector of the wrong width, since the last
              \* re-queue
  untitled    \* captures whose last call of /topics gave nothing

rows == <<inserted, text, image>>
work == <<processed, imgState, age, unavail, topics>>
sem  == <<label, vecs>>
ctl  == <<pc, leg, cur, answer, pass>>
env  == <<svc, moves, faults>>
hist == <<ruled, untitled>>
vars == <<rows, work, sem, ctl, env, hist>>

Rows == 1 .. inserted

NeverTried == MaxAge + 1

\* An age after d more units; attempts of age MaxAge are all equally old.
Older(a, d) == IF a = NeverTried THEN a ELSE IF a + d > MaxAge THEN MaxAge ELSE a + d

\* `spaces()` answered None.
Silent  == [s \in Stores |-> Unknown]
NoReply == [kind |-> "none", space |-> Unknown]

NoPass == [known |-> Silent, queue |-> "backfill", backfill |-> {}, fresh |-> {},
           textRetry |-> FALSE, titles |-> {}, stop |-> FALSE]

Steps == {"idle", "space", "spaceRequeue", "spaceLabel", "flag", "flagRequeue",
          "select", "next", "text", "image", "record", "rebuild", "relabel",
          "insert", "topics", "attach", "done", "mark"}

ImageStates == {"none", "pending", "done", "skipped"}
ReplyKinds  == {"none", "ok", "unusable", "disabled", "rejected", "retry"}

-----------------------------------------------------------------------------
(* The two stores *)

NoVectors == [c \in Captures |-> <<>>]

HasItemImageOnly(s, c) == s = "image" /\ vecs[s][c] # <<>>   \* (mutant: no guard on text)

HasItem(s, c) == vecs[s][c] # <<>>

\* (mutant: the health check at the start of the pass is the only guard)
SpaceMismatchAtStart(s, sp) == pc = "space" /\ label[s] # sp /\ label[s] # Unknown

\* (mutant: the comparison is inverted)
SpaceMatches(s, sp) == label[s] = sp

\* Does store s hold vectors of another space than sp?
SpaceMismatch(s, sp) == label[s] # sp /\ label[s] # Unknown

ClearStore(s)       == vecs' = [vecs EXCEPT ![s] = NoVectors] /\ UNCHANGED label
SetSpaceId(s, sp)   == label' = [label EXCEPT ![s] = sp] /\ UNCHANGED vecs
InsertVector(s, c, sp) ==
  /\ vecs' = [vecs EXCEPT ![s][c] = Append(@, sp)]
  /\ UNCHANGED label

\* (mutant: the rows are marked the wrong way round)
RequeueProcessed(s) ==
  /\ processed' = IF s = "text" THEN Captures ELSE processed
  /\ ruled' = IF s = "text" THEN {} ELSE ruled
  /\ imgState' = IF s = "image" THEN [c \in Captures |-> "none"] ELSE imgState
  /\ UNCHANGED <<age, unavail, topics, untitled>>

\* (mutant: the image verdicts survive)
RequeueTextOnly(s) ==
  /\ processed' = IF s = "text" THEN {} ELSE processed
  /\ ruled' = IF s = "text" THEN {} ELSE ruled
  /\ UNCHANGED <<imgState, age, unavail, topics, untitled>>

\* Text: mark_all_unprocessed.  Image: reset_image_embedding_states.
Requeue(s) ==
  /\ processed' = IF s = "text" THEN {} ELSE processed
  /\ ruled' = IF s = "text" THEN {} ELSE ruled
  /\ imgState' = IF s = "image" THEN [c \in Captures |-> "none"] ELSE imgState
  /\ UNCHANGED <<age, unavail, topics, untitled>>

SetImageState(c, st) ==
  /\ imgState' = [imgState EXCEPT ![c] = st]
  /\ UNCHANGED <<processed, age, unavail, topics>>

Touch(c) ==
  /\ age' = [age EXCEPT ![c] = 0]
  /\ UNCHANGED <<processed, imgState, unavail, topics>>

-----------------------------------------------------------------------------
(* The queues: least recently attempted first, then by id, LIMIT Batch *)

BeforeById(c, d) == c < d   \* (mutant: no rotation)

Before(c, d) == age[c] > age[d] \/ (age[c] = age[d] /\ c < d)

IsFirst(c, S) == \A d \in S \ {c} : Before(c, d)

Limit(S) == {c \in S : Cardinality({d \in S : Before(d, c)}) < Batch}

Due(c) == age[c] >= Backoff

NeedsImage(c) ==
  /\ c \in processed /\ image[c] # "noToken"
  /\ imgState[c] \in {"none", "pending"}

CapturesNeedingImage == Limit({c \in Rows : NeedsImage(c) /\ Due(c)})
CapturesPending      == Limit({c \in Rows : c \notin processed /\ Due(c)})

-----------------------------------------------------------------------------
(* The embedding service *)

Reply(s, refused) ==
  LET mode == svc.mode[s] IN
  [kind  |-> CASE mode = "up" /\ refused  -> "rejected"
               [] mode = "up" /\ ~refused -> "ok"
               [] mode = "down"           -> "retry"
               [] mode = "absent"         -> "disabled"
               [] mode = "malformed"      -> "unusable",
   space |-> svc.space[s]]

-----------------------------------------------------------------------------
Init ==
  /\ inserted = 0
  /\ text = [c \in Captures |-> "none"]
  /\ image = [c \in Captures |-> "noToken"]
  /\ processed = {}
  /\ imgState = [c \in Captures |-> "none"]
  /\ age = [c \in Captures |-> NeverTried]
  /\ unavail = [s \in Stores |-> FALSE]
  /\ topics = [c \in Captures |-> {}]
  /\ label \in [Stores -> {Unknown, BrokerStamp}]
  /\ vecs = [s \in Stores |-> NoVectors]
  /\ pc = "idle" /\ leg = "text" /\ cur = 0 /\ answer = NoReply /\ pass = NoPass
  /\ svc \in ServiceStates
  /\ moves = 0 /\ faults = 0
  /\ ruled = {} /\ untitled = {}

-----------------------------------------------------------------------------
(* A pass: the space check, then the flags, then the two queues *)

Goto(step, l) == pc' = step /\ leg' = l

\* The clock advances between passes; `now` is read once, at the start.
StartPass ==
  /\ pc = "idle"
  /\ \E d \in 1 .. Backoff : age' = [c \in Captures |-> Older(age[c], d)]
  /\ pass' = [pass EXCEPT !.known = IF svc.health THEN svc.space ELSE Silent]
  /\ IF svc.health THEN Goto("space", "text") ELSE Goto("select", "text")
  /\ UNCHANGED <<rows, processed, imgState, unavail, topics, sem, cur, answer, env, hist>>

AfterSpace == IF leg = "text" THEN Goto("space", "image") ELSE Goto("flag", "text")
AfterFlag  == IF leg = "text" THEN Goto("flag", "image") ELSE Goto("select", "text")

SpaceSame ==
  /\ pc = "space" /\ ~SpaceMismatch(leg, pass.known[leg])
  /\ SetSpaceId(leg, pass.known[leg])
  /\ AfterSpace
  /\ UNCHANGED <<rows, work, cur, answer, pass, env, hist>>

\* (mutant: the label moves before the captures are re-queued)
SpaceChangedLabelFirst ==
  /\ pc = "space" /\ SpaceMismatch(leg, pass.known[leg])
  /\ vecs' = [vecs EXCEPT ![leg] = NoVectors]
  /\ label' = [label EXCEPT ![leg] = pass.known[leg]]
  /\ Goto("spaceRequeue", leg)
  /\ UNCHANGED <<rows, work, cur, answer, pass, env, hist>>

\* (mutant: the store is relabelled in place)
SpaceChangedInPlace ==
  /\ pc = "space" /\ SpaceMismatch(leg, pass.known[leg])
  /\ SetSpaceId(leg, pass.known[leg])
  /\ Goto("spaceRequeue", leg)
  /\ UNCHANGED <<rows, work, cur, answer, pass, env, hist>>

SpaceChanged ==
  /\ pc = "space" /\ SpaceMismatch(leg, pass.known[leg])
  /\ ClearStore(leg)
  /\ Goto("spaceRequeue", leg)
  /\ UNCHANGED <<rows, work, cur, answer, pass, env, hist>>

SpaceRequeue ==
  /\ pc = "spaceRequeue"
  /\ Requeue(leg)
  /\ Goto("spaceLabel", leg)
  /\ UNCHANGED <<rows, sem, cur, answer, pass, env>>

SpaceLabel ==
  /\ pc = "spaceLabel"
  /\ SetSpaceId(leg, pass.known[leg])
  /\ AfterSpace
  /\ UNCHANGED <<rows, work, cur, answer, pass, env, hist>>

FlagDown ==
  /\ pc = "flag" /\ ~unavail[leg]
  /\ AfterFlag
  /\ UNCHANGED <<rows, work, sem, cur, answer, pass, env, hist>>

LowerFlag ==
  /\ pc = "flag" /\ unavail[leg]
  /\ unavail' = [unavail EXCEPT ![leg] = FALSE]
  /\ Goto("flagRequeue", leg)
  /\ UNCHANGED <<rows, processed, imgState, age, topics, sem, cur, answer, pass, env, hist>>

FlagRequeue ==
  /\ pc = "flagRequeue"
  /\ Requeue(leg)
  /\ AfterFlag
  /\ UNCHANGED <<rows, sem, cur, answer, pass, env>>

EndPass == pc' = "idle" /\ leg' = "text" /\ cur' = 0 /\ answer' = NoReply /\ pass' = NoPass

Select ==
  /\ pc = "select"
  /\ IF CapturesNeedingImage = {} /\ CapturesPending = {}
     THEN EndPass
     ELSE /\ pass' = [pass EXCEPT !.backfill = CapturesNeedingImage,
                                  !.fresh = CapturesPending]
          /\ Goto("next", "text")
          /\ UNCHANGED <<cur, answer>>
  /\ UNCHANGED <<rows, work, sem, env, hist>>

TakeBackfill ==
  /\ pc = "next" /\ pass.queue = "backfill"
  /\ \E c \in pass.backfill :
       /\ IsFirst(c, pass.backfill)
       /\ Touch(c)
       /\ cur' = c
       /\ pass' = [pass EXCEPT !.backfill = @ \ {c}]
  /\ Goto("image", "image")
  /\ UNCHANGED <<rows, sem, answer, env, hist>>

BackfillDrained ==
  /\ pc = "next" /\ pass.queue = "backfill" /\ pass.backfill = {}
  /\ pass' = [pass EXCEPT !.queue = "fresh"]
  /\ UNCHANGED <<rows, work, sem, pc, leg, cur, answer, env, hist>>

TakeFresh ==
  /\ pc = "next" /\ pass.queue = "fresh"
  /\ \E c \in pass.fresh :
       /\ IsFirst(c, pass.fresh)
       /\ Touch(c)
       /\ cur' = c
       /\ pass' = [pass EXCEPT !.fresh = @ \ {c}, !.textRetry = FALSE]
  /\ Goto("text", "text")
  /\ UNCHANGED <<rows, sem, answer, env, hist>>

FreshDrained ==
  /\ pc = "next" /\ pass.queue = "fresh" /\ pass.fresh = {}
  /\ EndPass
  /\ UNCHANGED <<rows, work, sem, env, hist>>

-----------------------------------------------------------------------------
(* The text leg *)

TextSettled ==
  /\ pc = "text" /\ (text[cur] = "none" \/ HasItem("text", cur))
  /\ Goto("image", "image")
  /\ UNCHANGED <<rows, work, sem, cur, answer, pass, env, hist>>

EmbedText ==
  /\ pc = "text" /\ text[cur] # "none" /\ ~HasItem("text", cur)
  /\ answer' = Reply("text", text[cur] = "refused")
  /\ Goto("record", "text")
  /\ UNCHANGED <<rows, work, sem, cur, pass, env, hist>>

\* A refused or unusable text is left without a vector: the topics follow.
TextRefused ==
  /\ pc = "record" /\ leg = "text" /\ answer.kind \in {"unusable", "rejected"}
  /\ ruled' = ruled \cup {cur}
  /\ Goto("topics", "text")
  /\ UNCHANGED <<rows, work, sem, cur, answer, pass, env, untitled>>

\* (mutant: the missing route is not recorded)
TextDisabledSilently ==
  /\ pc = "record" /\ leg = "text" /\ answer.kind = "disabled"
  /\ Goto("topics", "text")
  /\ UNCHANGED <<rows, work, sem, cur, answer, pass, env, hist>>

TextDisabled ==
  /\ pc = "record" /\ leg = "text" /\ answer.kind = "disabled"
  /\ unavail' = [unavail EXCEPT !["text"] = TRUE]
  /\ Goto("topics", "text")
  /\ UNCHANGED <<rows, processed, imgState, age, topics, sem, cur, answer, pass, env, hist>>

TextRetry ==
  /\ pc = "record" /\ leg = "text" /\ answer.kind = "retry"
  /\ pass' = [pass EXCEPT !.textRetry = TRUE]
  /\ answer' = NoReply
  /\ Goto("image", "image")
  /\ UNCHANGED <<rows, work, sem, cur, env, hist>>

\* `topics` answers with nothing when the call fails in any way, and the pass
\* does not tell that from a text without topics.
AskTopics ==
  /\ pc = "topics"
  /\ pass' = [pass EXCEPT !.titles = IF svc.topics THEN Titles ELSE {}]
  /\ untitled' = IF svc.topics THEN untitled \ {cur} ELSE untitled \cup {cur}
  /\ answer' = NoReply
  /\ Goto("attach", "text")
  /\ UNCHANGED <<rows, work, sem, cur, env, ruled>>

\* (mutant: only the first topic is attached)
AttachFirstTopic ==
  /\ pc = "attach"
  /\ \E t \in pass.titles :
       /\ topics' = [topics EXCEPT ![cur] = @ \cup {t}]
       /\ pass' = [pass EXCEPT !.titles = {}]
  /\ UNCHANGED <<rows, processed, imgState, age, unavail, sem, pc, leg, cur, answer, env, hist>>

\* Topic by topic, each in a transaction of its own.
AttachTopic ==
  /\ pc = "attach"
  /\ \E t \in pass.titles :
       /\ topics' = [topics EXCEPT ![cur] = @ \cup {t}]
       /\ pass' = [pass EXCEPT !.titles = @ \ {t}]
  /\ UNCHANGED <<rows, processed, imgState, age, unavail, sem, pc, leg, cur, answer, env, hist>>

TopicsDone ==
  /\ pc = "attach" /\ pass.titles = {}
  /\ Goto("image", "image")
  /\ UNCHANGED <<rows, work, sem, cur, answer, pass, env, hist>>

-----------------------------------------------------------------------------
(* The image leg *)

\* How the image leg of `cur` ended: an embedder that is switched off stops
\* the queue, and only a capture with nothing to retry is marked processed.
EndImageLeg(outcome) ==
  /\ pass' = [pass EXCEPT
       !.stop = IF outcome = "unavailable" THEN TRUE ELSE @,
       !.backfill = IF outcome = "unavailable" THEN {} ELSE @]
  /\ answer' = NoReply
  /\ IF pass.queue = "fresh" /\ ~pass.textRetry /\ outcome # "retry"
     THEN Goto("mark", "text") /\ UNCHANGED cur
     ELSE Goto("next", "text") /\ cur' = 0

AtImage == pc = "image" /\ ~pass.stop

SkipImages ==
  /\ pc = "image" /\ pass.stop
  /\ EndImageLeg("unavailable")
  /\ UNCHANGED <<rows, work, sem, env, hist>>

NoImageToken ==
  /\ AtImage /\ image[cur] = "noToken"
  /\ SetImageState(cur, "skipped")
  /\ EndImageLeg("terminal")
  /\ UNCHANGED <<rows, sem, env, hist>>

\* Restart safety: the vector is there, so only the state row is repaired.
AlreadyEmbedded ==
  /\ AtImage /\ image[cur] # "noToken" /\ HasItem("image", cur)
  /\ SetImageState(cur, "done")
  /\ EndImageLeg("done")
  /\ UNCHANGED <<rows, sem, env, hist>>

AtImageStep == AtImage /\ image[cur] # "noToken" /\ ~HasItem("image", cur)

AlreadySkipped ==
  /\ AtImageStep /\ imgState[cur] = "skipped"
  /\ EndImageLeg("terminal")
  /\ UNCHANGED <<rows, work, sem, env, hist>>

ToEmbedEvenSkipped == AtImageStep   \* (mutant: the verdict is not looked at)

ToEmbed == AtImageStep /\ imgState[cur] # "skipped"

\* No timestamp, a frame that is not a JPEG, or ciphertext that does not open.
NeverEmbeddable ==
  /\ ToEmbed
  /\ image[cur] \in {"noTime", "raw", "corrupt"}
  /\ SetImageState(cur, "skipped")
  /\ EndImageLeg("terminal")
  /\ UNCHANGED <<rows, sem, env, hist>>

ObjectMissing ==
  /\ ToEmbed
  /\ image[cur] = "missing"
  /\ SetImageState(cur, "pending")
  /\ EndImageLeg("retry")
  /\ UNCHANGED <<rows, sem, env, hist>>

Readable == image[cur] \in {"jpeg", "refused"}

\* The object exists but reading it fails for now.
ReadError ==
  /\ ToEmbed /\ Readable
  /\ faults < MaxFaults /\ faults' = faults + 1
  /\ SetImageState(cur, "pending")
  /\ EndImageLeg("retry")
  /\ UNCHANGED <<rows, sem, svc, moves, hist>>

EmbedImage ==
  /\ ToEmbed /\ Readable
  /\ answer' = Reply("image", image[cur] = "refused")
  /\ Goto("record", "image")
  /\ UNCHANGED <<rows, work, sem, cur, pass, env, hist>>

ImageRefused ==
  /\ pc = "record" /\ leg = "image" /\ answer.kind \in {"unusable", "rejected"}
  /\ SetImageState(cur, "skipped")
  /\ EndImageLeg("terminal")
  /\ UNCHANGED <<rows, sem, env, hist>>

ImageDisabled ==
  /\ pc = "record" /\ leg = "image" /\ answer.kind = "disabled"
  /\ unavail' = [unavail EXCEPT !["image"] = TRUE]
  /\ EndImageLeg("unavailable")
  /\ UNCHANGED <<rows, processed, imgState, age, topics, sem, env, hist>>

ImageRetry ==
  /\ pc = "record" /\ leg = "image" /\ answer.kind = "retry"
  /\ SetImageState(cur, "pending")
  /\ EndImageLeg("retry")
  /\ UNCHANGED <<rows, sem, env, hist>>

ImageDone ==
  /\ pc = "done"
  /\ SetImageState(cur, "done")
  /\ EndImageLeg("done")
  /\ UNCHANGED <<rows, sem, env, hist>>

MarkProcessed ==
  /\ pc = "mark"
  /\ processed' = processed \cup {cur}
  /\ Goto("next", "text") /\ cur' = 0
  /\ UNCHANGED <<rows, imgState, age, unavail, topics, sem, answer, pass, env, hist>>

-----------------------------------------------------------------------------
(* Storing a usable vector, in either leg: the store is cleared, the        *)
(* captures are re-queued and the label is moved, in that order, when the   *)
(* vector's space is not the store's.                                       *)

\* (mutant: the width of the vector is not looked at)
OkOrUnusable == pc = "record" /\ answer.kind \in {"ok", "unusable"}

OkAnswer == pc = "record" /\ answer.kind = "ok"

StoreSame ==
  /\ OkAnswer /\ ~SpaceMismatch(leg, answer.space)
  /\ SetSpaceId(leg, answer.space)
  /\ Goto("insert", leg)
  /\ UNCHANGED <<rows, work, cur, answer, pass, env, hist>>

\* (mutant: the old vectors stay)
StoreClearNothing ==
  /\ OkAnswer /\ SpaceMismatch(leg, answer.space)
  /\ Goto("rebuild", leg)
  /\ UNCHANGED <<rows, work, sem, cur, answer, pass, env, hist>>

StoreClear ==
  /\ OkAnswer /\ SpaceMismatch(leg, answer.space)
  /\ ClearStore(leg)
  /\ Goto("rebuild", leg)
  /\ UNCHANGED <<rows, work, cur, answer, pass, env, hist>>

StoreRequeue ==
  /\ pc = "rebuild"
  /\ Requeue(leg)
  /\ Goto("relabel", leg)
  /\ UNCHANGED <<rows, sem, cur, answer, pass, env>>

StoreRelabel ==
  /\ pc = "relabel"
  /\ SetSpaceId(leg, answer.space)
  /\ Goto("insert", leg)
  /\ UNCHANGED <<rows, work, cur, answer, pass, env, hist>>

\* (mutant: no topics for a text that was embedded)
StoreInsertOnly ==
  /\ pc = "insert"
  /\ InsertVector(leg, cur, answer.space)
  /\ Goto(IF leg = "text" THEN "image" ELSE "done", "image")
  /\ UNCHANGED <<rows, work, cur, answer, pass, env, hist>>

StoreInsert ==
  /\ pc = "insert"
  /\ InsertVector(leg, cur, answer.space)
  /\ Goto(IF leg = "text" THEN "topics" ELSE "done", leg)
  /\ UNCHANGED <<rows, work, cur, answer, pass, env, hist>>

-----------------------------------------------------------------------------
(* The environment *)

\* The broker commits a capture: a new WindowCapture row, IsProcessed = 0.
InsertCapture ==
  /\ inserted < NumCaptures
  /\ inserted' = inserted + 1
  /\ \E t \in TextKinds, i \in ImageKinds :
       /\ text' = [text EXCEPT ![inserted + 1] = t]
       /\ image' = [image EXCEPT ![inserted + 1] = i]
  /\ UNCHANGED <<work, sem, ctl, env, hist>>

\* An outage, a recovery, a rollout, another model.
ServiceChanges ==
  /\ moves < MaxMoves /\ moves' = moves + 1
  /\ \E s \in ServiceStates : <<svc, s>> \in ServiceMoves /\ svc' = s
  /\ UNCHANGED <<rows, work, sem, ctl, faults, hist>>

\* The process stops, or a storage call fails and the pass returns its error:
\* what was committed stays, the locals of the pass are gone.
Interrupt ==
  /\ pc # "idle"
  /\ faults < MaxFaults /\ faults' = faults + 1
  /\ EndPass
  /\ UNCHANGED <<rows, work, sem, svc, moves, hist>>

-----------------------------------------------------------------------------
SpaceCheck  == SpaceSame \/ SpaceChanged \/ SpaceRequeue \/ SpaceLabel
FlagCheck   == FlagDown \/ LowerFlag \/ FlagRequeue
Queues      == Select \/ TakeBackfill \/ BackfillDrained \/ TakeFresh \/ FreshDrained
TextLeg     == TextSettled \/ EmbedText \/ TextRefused \/ TextDisabled \/ TextRetry
               \/ AskTopics \/ AttachTopic \/ TopicsDone
ImageSettle == SkipImages \/ NoImageToken \/ AlreadyEmbedded \/ AlreadySkipped
               \/ NeverEmbeddable \/ ObjectMissing
ImageLeg    == EmbedImage \/ ImageRefused \/ ImageDisabled \/ ImageRetry \/ ImageDone
StoreVector == StoreSame \/ StoreClear \/ StoreRequeue \/ StoreRelabel \/ StoreInsert

EnrichStep ==
  \/ StartPass \/ SpaceCheck \/ FlagCheck \/ Queues
  \/ TextLeg \/ ImageSettle \/ ImageLeg \/ StoreVector \/ MarkProcessed

Next == EnrichStep \/ ReadError \/ InsertCapture \/ ServiceChanges \/ Interrupt

\* spawn_enricher loops for ever and every client call times out, so the
\* enricher keeps taking steps; nothing is owed by the broker or the service.
Fairness == WF_vars(EnrichStep)

Spec == Init /\ [][Next]_vars /\ Fairness

-----------------------------------------------------------------------------
(* Properties *)

PassType == [known : [Stores -> Spaces \cup {Unknown}],
             queue : {"backfill", "fresh"},
             backfill : SUBSET Rows, fresh : SUBSET Rows,
             textRetry : BOOLEAN, titles : SUBSET Titles, stop : BOOLEAN]

RowsType ==
  /\ inserted \in 0 .. NumCaptures
  /\ text \in [Captures -> {"none"} \cup TextKinds]
  /\ image \in [Captures -> {"noToken"} \cup ImageKinds]

WorkType ==
  /\ processed \in SUBSET Rows
  /\ ruled \in SUBSET Rows /\ untitled \in SUBSET Rows
  /\ topics \in [Captures -> SUBSET Titles]
  /\ imgState \in [Captures -> ImageStates]
  /\ age \in [Captures -> 0 .. NeverTried]
  /\ unavail \in [Stores -> BOOLEAN]

SemType ==
  /\ label \in [Stores -> Labels]
  /\ vecs \in [Stores -> [Captures -> Seq(Labels)]]

CtlType ==
  /\ pc \in Steps /\ leg \in Stores /\ cur \in 0 .. inserted
  /\ answer \in [kind : ReplyKinds, space : Spaces \cup {Unknown}]
  /\ pass \in PassType

EnvType ==
  /\ svc \in ServiceStates
  /\ moves \in 0 .. MaxMoves /\ faults \in 0 .. MaxFaults

TypeOK == RowsType /\ WorkType /\ SemType /\ CtlType /\ EnvType

(***************************************************************************)
(* No store ever mixes spaces: whatever the service answers between the    *)
(* health check and the embedding calls, and wherever a pass stops, each   *)
(* stored vector is of the space its store is labelled with, so no query   *)
(* is ranked against vectors it cannot be compared with (space_mismatch,   *)
(* enrich.rs).                                                             *)
(***************************************************************************)
NoMixedSpaces ==
  \A s \in Stores, c \in Captures :
    \A i \in DOMAIN vecs[s][c] : vecs[s][c][i] = label[s]

(***************************************************************************)
(* A capture never has two vectors in a store, also when a pass stops      *)
(* between the insert and the write that records it (the has_item guards). *)
(***************************************************************************)
OneVectorEach == \A s \in Stores, c \in Captures : Len(vecs[s][c]) <= 1

\* The enricher is about to re-queue every capture of leg s.
Requeuing(s) == leg = s /\ pc \in {"spaceRequeue", "flagRequeue", "rebuild"}

(***************************************************************************)
(* A processed capture with embeddable text has its vector, or was ruled   *)
(* out (refused, or answered with a vector of the wrong width, which the   *)
(* pass takes for final too), or is still owed one: the text route was     *)
(* absent and the flag that re-queues it is up, or the re-queue is the     *)
(* very next step.                                                         *)
(***************************************************************************)
NoTextForgotten ==
  \A c \in processed :
    text[c] = "good" /\ ~HasItem("text", c)
      => unavail["text"] \/ c \in ruled \/ Requeuing("text")

(***************************************************************************)
(* A capture recorded "done" has its image vector: no step leaves the      *)
(* state row ahead of the image store, except between the clearing of the  *)
(* store and the reset of the rows.                                        *)
(***************************************************************************)
DoneHasVector ==
  \A c \in Captures :
    imgState[c] = "done" => HasItem("image", c) \/ Requeuing("image")

\* The topics of capture c are being asked for or attached.
AttachingTopics(c) == pc \in {"topics", "attach"} /\ cur = c

(***************************************************************************)
(* A capture that has a text vector has every topic of its text, or they   *)
(* are being attached, or /topics was asked and gave nothing.  That last   *)
(* case is for ever, although the code says that "topics are attached      *)
(* exactly once" (enrich.rs:315): the vector is stored before the topics   *)
(* are asked for, and has_item passes the capture by from then on.         *)
(***************************************************************************)
TopicsFollowVector ==
  \A c \in Captures :
    HasItem("text", c) => topics[c] = Titles \/ AttachingTopics(c) \/ c \in untitled


(***************************************************************************)
(* A terminal verdict is final: a skipped image is never tried again one   *)
(* by one, only by forgetting every verdict of the client at once.         *)
(***************************************************************************)
SkippedIsFinal ==
  [][\A c \in Captures : imgState[c] = "skipped" /\ imgState'[c] # "skipped"
       => \A d \in Captures : imgState'[d] = "none"]_vars

\* The service has named another space than that of store s: on /health when
\* the pass began, or with the usable vector in hand.
OtherSpaceNamed(s) ==
  \/ pass.known[s] \notin {Unknown, label[s]}
  \/ leg = s /\ answer.kind = "ok" /\ answer.space # label[s]

(***************************************************************************)
(* A good index is emptied only for another space: never for an answer     *)
(* that cannot be stored, which must be turned away before anything is     *)
(* cleared or relabelled (`usable`, enrich.rs:365).                        *)
(***************************************************************************)
IndexKept ==
  [][\A s \in Stores :
       (\E c \in Captures : HasItem(s, c)) /\ vecs'[s] = NoVectors => OtherSpaceNamed(s)]_vars

\* The service is answering, in full.
Healthy == svc.health /\ \A s \in Stores : svc.mode[s] = "up"

TextInPlace(c) ==
  text[c] = "good" /\ c \notin ruled => vecs["text"][c] = <<svc.space["text"]>>
ImageInPlace(c) ==
  image[c] = "jpeg" /\ imgState[c] # "skipped" => vecs["image"][c] = <<svc.space["image"]>>

(***************************************************************************)
(* Once the service stays healthy, every embeddable text and screenshot    *)
(* that was not ruled out ends up embedded in the service's current        *)
(* spaces: whatever outages, missing routes and model changes came before, *)
(* and however many stuck captures share the queues.  What once got a      *)
(* vector of the wrong width is ruled out too, although only refusals are  *)
(* said to be terminal (the repository's README.md:119).                   *)
(***************************************************************************)
Converges ==
  <>[]Healthy => <>[](\A c \in Rows : TextInPlace(c) /\ ImageInPlace(c))


(***************************************************************************)
(* Once the service stays healthy, the enricher eventually stops calling   *)
(* it: no input is sent again and again ("a refused input is terminal").   *)
(***************************************************************************)
FallsQuiet == <>[]Healthy => <>[](pc # "record")

(***************************************************************************)
(* Each semantic store is a VectorStore: it is emptied, relabelled while   *)
(* empty, and given one vector per capture in its own space (the storing   *)
(* steps and the space check of enrich.rs), and nothing else befalls it.   *)
(***************************************************************************)
TextStore  == INSTANCE VectorStore WITH Items <- Captures, label <- label["text"],
                                        vecs <- vecs["text"]
ImageStore == INSTANCE VectorStore WITH Items <- Captures, label <- label["image"],
                                        vecs <- vecs["image"]

TextStoreSpec  == TextStore!Spec
ImageStoreSpec == ImageStore!Spec

=============================================================================
