---------------------------- MODULE EnrichProofs ----------------------------
(***************************************************************************)
(* Theorems about Enrich, for every number of captures, batch size,        *)
(* backoff, set of embedding spaces, behaviour of the service and number   *)
(* of crashes.                                                             *)
(***************************************************************************)
EXTENDS Enrich, TLAPS

-----------------------------------------------------------------------------
(* The inductive invariant *)

\* A step about a capture has one in hand.
InHand ==
  pc \in {"text", "image", "record", "rebuild", "relabel", "insert", "topics",
          "attach", "done", "mark"} => cur \in Rows

\* The space check runs only on an answer of the service.
KnownAnswered ==
  pc \in {"space", "spaceRequeue", "spaceLabel"} => pass.known \in [Stores -> Spaces]

\* A vector being stored has a space.
AnswerUsable ==
  /\ pc \in {"rebuild", "relabel", "insert"} => answer.kind = "ok"
  /\ answer.kind = "ok" => answer.space \in Spaces

CtlInv  == CtlType /\ InHand /\ KnownAnswered /\ AnswerUsable
TypeInv == RowsType /\ WorkType /\ SemType /\ CtlInv /\ EnvType

LEMMA InitTypeInv == Init => TypeInv
<1> SUFFICES ASSUME Init PROVE TypeInv
  OBVIOUS
<1> USE DEF Init
<1>1. RowsType
  BY BoundsAssumption DEF RowsType
<1>2. WorkType
  BY BoundsAssumption DEF WorkType, Rows, ImageStates, NeverTried
<1>3. SemType
  BY DEF SemType, Labels, NoVectors
<1>4. CtlInv
  BY DEF CtlInv, CtlType, PassType, NoPass, NoReply, Silent, ReplyKinds, Steps, Stores,
         InHand, KnownAnswered, AnswerUsable
<1>5. EnvType
  BY BoundsAssumption DEF EnvType
<1> QED BY <1>1, <1>2, <1>3, <1>4, <1>5 DEF TypeInv

(***************************************************************************)
(* Which actions write which part of the state.                            *)
(***************************************************************************)
LEMMA Frame ==
  ASSUME [Next]_vars
  PROVE  /\ InsertCapture \/ UNCHANGED rows
         /\ \/ SpaceSame \/ SpaceChanged \/ SpaceLabel
            \/ StoreSame \/ StoreClear \/ StoreRelabel \/ StoreInsert
            \/ UNCHANGED sem
         /\ ServiceChanges \/ ReadError \/ Interrupt \/ UNCHANGED env
<1> USE DEF Next, EnrichStep, SpaceCheck, FlagCheck, Queues, TextLeg, ImageSettle,
            ImageLeg, StoreVector, vars
<1>1. InsertCapture \/ UNCHANGED rows
  BY DEF StartPass, SpaceSame, SpaceChanged, SpaceRequeue, SpaceLabel, FlagDown, LowerFlag,
         FlagRequeue, Select, TakeBackfill, BackfillDrained, TakeFresh, FreshDrained,
         TextSettled, EmbedText, TextRefused, TextDisabled, TextRetry, AskTopics, AttachTopic,
         TopicsDone, SkipImages, NoImageToken, AlreadyEmbedded, AlreadySkipped,
         NeverEmbeddable, ObjectMissing, ReadError, EmbedImage, ImageRefused, ImageDisabled,
         ImageRetry, ImageDone, MarkProcessed, StoreSame, StoreClear, StoreRequeue,
         StoreRelabel, StoreInsert, ServiceChanges, Interrupt
<1>2. \/ SpaceSame \/ SpaceChanged \/ SpaceLabel
      \/ StoreSame \/ StoreClear \/ StoreRelabel \/ StoreInsert
      \/ UNCHANGED sem
  BY DEF StartPass, SpaceRequeue, FlagDown, LowerFlag, FlagRequeue, Select, TakeBackfill,
         BackfillDrained, TakeFresh, FreshDrained, TextSettled, EmbedText, TextRefused,
         TextDisabled, TextRetry, AskTopics, AttachTopic, TopicsDone, SkipImages, NoImageToken,
         AlreadyEmbedded, AlreadySkipped, NeverEmbeddable, ObjectMissing, ReadError,
         EmbedImage, ImageRefused, ImageDisabled, ImageRetry, ImageDone, MarkProcessed,
         StoreRequeue, InsertCapture, ServiceChanges, Interrupt
<1>3. ServiceChanges \/ ReadError \/ Interrupt \/ UNCHANGED env
  BY DEF StartPass, SpaceSame, SpaceChanged, SpaceRequeue, SpaceLabel, FlagDown, LowerFlag,
         FlagRequeue, Select, TakeBackfill, BackfillDrained, TakeFresh, FreshDrained,
         TextSettled, EmbedText, TextRefused, TextDisabled, TextRetry, AskTopics, AttachTopic,
         TopicsDone, SkipImages, NoImageToken, AlreadyEmbedded, AlreadySkipped,
         NeverEmbeddable, ObjectMissing, EmbedImage, ImageRefused, ImageDisabled, ImageRetry,
         ImageDone, MarkProcessed, StoreSame, StoreClear, StoreRequeue, StoreRelabel,
         StoreInsert, InsertCapture
<1> QED BY <1>1, <1>2, <1>3

LEMMA RowsStep ==
  ASSUME RowsType, [Next]_vars
  PROVE  RowsType' /\ inserted' \in {inserted, inserted + 1}
<1>1. CASE InsertCapture
  <2>1. inserted + 1 \in Captures /\ inserted' = inserted + 1
    BY <1>1, BoundsAssumption DEF InsertCapture, RowsType, Captures
  <2> QED BY <1>1, <2>1, BoundsAssumption DEF InsertCapture, RowsType, Captures
<1>2. CASE UNCHANGED rows
  BY <1>2 DEF rows, RowsType
<1> QED BY <1>1, <1>2, Frame

LEMMA EnvStep ==
  ASSUME EnvType, [Next]_vars
  PROVE  EnvType'
<1> USE BoundsAssumption DEF EnvType
<1>1. CASE ServiceChanges
  BY <1>1 DEF ServiceChanges
<1>2. CASE ReadError
  BY <1>2 DEF ReadError
<1>3. CASE Interrupt
  BY <1>3 DEF Interrupt
<1>4. CASE UNCHANGED env
  BY <1>4 DEF env
<1> QED BY <1>1, <1>2, <1>3, <1>4, Frame

(***************************************************************************)
(* The semantic stores and the tables the enricher writes stay typed.      *)
(***************************************************************************)
LEMMA SemStep ==
  ASSUME TypeInv, [Next]_vars
  PROVE  SemType'
<1> USE DEF SemType, Labels
<1>0. /\ SemType /\ leg \in Stores /\ cur \in 0 .. inserted
      /\ pc = "insert" => cur \in Captures
      /\ pc \in {"space", "spaceLabel"} => pass.known[leg] \in Spaces
      /\ answer.kind = "ok" => answer.space \in Spaces
      /\ pc \in {"insert", "relabel"} => answer.kind = "ok"
  BY BoundsAssumption DEF TypeInv, RowsType, CtlInv, CtlType, InHand, KnownAnswered, AnswerUsable,
         Captures, Rows
<1>1. CASE SpaceSame
  BY <1>0, <1>1 DEF SpaceSame, SetSpaceId
<1>2. CASE SpaceChanged
  BY <1>0, <1>2 DEF SpaceChanged, ClearStore, NoVectors
<1>3. CASE SpaceLabel
  BY <1>0, <1>3 DEF SpaceLabel, SetSpaceId
<1>4. CASE StoreSame
  BY <1>0, <1>4 DEF StoreSame, OkAnswer, SetSpaceId
<1>5. CASE StoreClear
  BY <1>0, <1>5 DEF StoreClear, ClearStore, NoVectors
<1>6. CASE StoreRelabel
  BY <1>0, <1>6 DEF StoreRelabel, SetSpaceId
<1>7. CASE StoreInsert
  BY <1>0, <1>7 DEF StoreInsert, InsertVector
<1>8. CASE UNCHANGED sem
  BY <1>0, <1>8 DEF sem
<1> QED BY <1>1, <1>2, <1>3, <1>4, <1>5, <1>6, <1>7, <1>8, Frame

LEMMA WorkStep ==
  ASSUME TypeInv, [Next]_vars
  PROVE  WorkType'
<1>0. /\ WorkType /\ cur \in 0 .. inserted /\ inserted' >= inserted
      /\ inserted \in Nat /\ inserted' \in Nat
      /\ pc \in {"text", "image", "record", "topics", "attach", "done", "mark"} => cur \in Rows
      /\ inserted \in 0 .. NumCaptures
      /\ pass.backfill \subseteq Rows /\ pass.fresh \subseteq Rows
  BY RowsStep, BoundsAssumption
  DEF TypeInv, RowsType, CtlInv, CtlType, InHand, PassType, Rows
<1>1. Rows \subseteq Rows' /\ Rows \subseteq Captures
  BY <1>0, BoundsAssumption DEF Rows, Captures
<1> USE BoundsAssumption DEF WorkType, hist
<1>2. CASE StartPass
  <2>1. PICK d \in Nat : age' = [c \in Captures |-> Older(age[c], d)]
    BY <1>2 DEF StartPass
  <2>2. \A c \in Captures : Older(age[c], d) \in 0 .. NeverTried
    BY <1>0 DEF Older, NeverTried
  <2>3. age' \in [Captures -> 0 .. NeverTried]
    BY <2>1, <2>2
  <2> QED BY <1>0, <1>1, <1>2, <2>3 DEF StartPass
<1>3. ASSUME NEW s \in Stores, Requeue(s) PROVE WorkType'
  BY <1>0, <1>1, <1>3 DEF Requeue, ImageStates
<1>4. ASSUME NEW c \in Rows, NEW st \in ImageStates, SetImageState(c, st),
             UNCHANGED hist
      PROVE  WorkType'
  BY <1>0, <1>1, <1>4 DEF SetImageState
<1>5. ASSUME NEW c \in Rows, Touch(c), UNCHANGED hist PROVE WorkType'
  BY <1>0, <1>1, <1>5 DEF Touch, NeverTried
<1>6. CASE UNCHANGED <<work, hist>>
  BY <1>0, <1>1, <1>6 DEF work
<1>7. CASE LowerFlag \/ TextDisabled \/ ImageDisabled
  BY <1>0, <1>1, <1>7 DEF LowerFlag, TextDisabled, ImageDisabled, Stores
<1>8. CASE TextRefused \/ AskTopics \/ MarkProcessed
  BY <1>0, <1>1, <1>8 DEF TextRefused, AskTopics, MarkProcessed, work
<1>12. CASE AttachTopic
  BY <1>0, <1>1, <1>12 DEF AttachTopic, TypeInv, CtlInv, CtlType, PassType, hist
<1>9. CASE SpaceRequeue \/ FlagRequeue \/ StoreRequeue
  <2>1. leg \in Stores
    BY DEF TypeInv, CtlInv, CtlType
  <2> QED BY <1>3, <1>9, <2>1 DEF SpaceRequeue, FlagRequeue, StoreRequeue
<1>10. CASE TakeBackfill \/ TakeFresh
  BY <1>0, <1>5, <1>10 DEF TakeBackfill, TakeFresh
<1>11. CASE \/ NoImageToken \/ AlreadyEmbedded \/ NeverEmbeddable \/ ObjectMissing
            \/ ReadError \/ ImageRefused \/ ImageRetry \/ ImageDone
  BY <1>0, <1>4, <1>11
  DEF NoImageToken, AlreadyEmbedded, NeverEmbeddable, ObjectMissing, ReadError,
      ImageRefused, ImageRetry, ImageDone, AtImage, AtImageStep, ToEmbed, ImageStates
<1> QED
  BY <1>2, <1>6, <1>7, <1>8, <1>9, <1>10, <1>11, <1>12
  DEF Next, EnrichStep, SpaceCheck, FlagCheck, Queues, TextLeg, ImageSettle, ImageLeg,
      StoreVector, vars, SpaceSame, SpaceChanged, SpaceLabel, FlagDown, Select,
      BackfillDrained, FreshDrained, TextSettled, EmbedText, TextRetry, TopicsDone, SkipImages,
      AlreadySkipped, EmbedImage, StoreSame, StoreClear, StoreRelabel, StoreInsert,
      InsertCapture, ServiceChanges, Interrupt

-----------------------------------------------------------------------------
(* The control state *)

(***************************************************************************)
(* The pass record, whose updates the step proofs need not open.           *)
(***************************************************************************)
LEMMA PassUpdates ==
  ASSUME pass \in PassType, UNCHANGED inserted
  PROVE  /\ PassType' = PassType /\ NoPass \in PassType
         /\ \A k \in [Stores -> Spaces \cup {Unknown}] : [pass EXCEPT !.known = k] \in PassType
         /\ [pass EXCEPT !.queue = "fresh"] \in PassType
         /\ \A S, T \in SUBSET Rows :
              [pass EXCEPT !.backfill = S, !.fresh = T] \in PassType
         /\ \A c : [pass EXCEPT !.backfill = @ \ {c}] \in PassType
         /\ \A c : [pass EXCEPT !.fresh = @ \ {c}, !.textRetry = FALSE] \in PassType
         /\ [pass EXCEPT !.textRetry = TRUE] \in PassType
         /\ \A T \in SUBSET Titles : [pass EXCEPT !.titles = T] \in PassType
         /\ \A t : [pass EXCEPT !.titles = @ \ {t}] \in PassType
  BY DEF PassType, NoPass, Silent, Rows

LEMMA EndImageLegStep ==
  ASSUME CtlInv, inserted \in Nat, UNCHANGED inserted,
         cur \in Rows, NEW o, EndImageLeg(o)
  PROVE  CtlInv'
<1>1. pass \in PassType /\ cur \in 0 .. inserted
  BY DEF CtlInv, CtlType
<1>2. pass' \in PassType'
  <2>1. PassType' = PassType
    BY DEF PassType, Rows
  <2>2. \A b \in BOOLEAN, S \in SUBSET Rows :
          [pass EXCEPT !.stop = b, !.backfill = S] \in PassType
    BY <1>1 DEF PassType
  <2>3. pass.stop \in BOOLEAN /\ pass.backfill \in SUBSET Rows /\ {} \in SUBSET Rows
    BY <1>1 DEF PassType
  <2>4. pass' = IF o = "unavailable"
                THEN [pass EXCEPT !.stop = TRUE, !.backfill = {}]
                ELSE [pass EXCEPT !.stop = pass.stop, !.backfill = pass.backfill]
    BY DEF EndImageLeg
  <2> QED BY <2>1, <2>2, <2>3, <2>4
<1>3. /\ answer' = NoReply /\ leg' = "text"
      /\ (pc' = "mark" /\ cur' = cur) \/ (pc' = "next" /\ cur' = 0)
  BY DEF EndImageLeg, Goto
<1>4. cur' \in 0 .. inserted' /\ (pc' = "mark" => cur' \in Rows')
  BY <1>1, <1>3 DEF Rows
<1> QED
  BY <1>2, <1>3, <1>4
  DEF CtlInv, CtlType, InHand, KnownAnswered, AnswerUsable, Steps, Stores, NoReply,
      ReplyKinds

LEMMA EndPassStep ==
  ASSUME EndPass, UNCHANGED inserted, inserted \in Nat
  PROVE  CtlInv'
  BY DEF EndPass, CtlInv, CtlType, InHand, KnownAnswered, AnswerUsable, Steps, Stores,
         NoReply, ReplyKinds, PassType, NoPass, Silent, Rows

LEMMA CtlStep ==
  ASSUME TypeInv, [Next]_vars
  PROVE  CtlInv'
<1>0. /\ CtlInv /\ CtlType /\ inserted \in Nat /\ inserted' \in Nat
      /\ pass \in PassType
      /\ svc.space \in [Stores -> Spaces] /\ svc.mode \in [Stores -> Modes]
  BY RowsStep, BoundsAssumption, ServiceAssumption
  DEF TypeInv, RowsType, CtlInv, CtlType, EnvType
<1>1. CASE InsertCapture \/ UNCHANGED vars \/ ServiceChanges
  <2>1. Rows \subseteq Rows' /\ PassType \subseteq PassType' /\ cur \in 0 .. inserted'
    BY <1>0, RowsStep DEF TypeInv, CtlType, Rows, PassType
  <2>2. UNCHANGED ctl
    BY <1>1 DEF InsertCapture, ServiceChanges, vars
  <2> QED
    BY <1>0, <2>1, <2>2
    DEF ctl, CtlInv, CtlType, InHand, KnownAnswered, AnswerUsable
<1> SUFFICES ASSUME UNCHANGED inserted, ~InsertCapture, ~UNCHANGED vars, ~ServiceChanges
             PROVE  CtlInv'
  BY <1>1, Frame DEF rows
<1>2. /\ PassType' = PassType /\ Rows' = Rows
      /\ cur \in 0 .. inserted /\ 0 \in 0 .. inserted
      /\ Rows \subseteq 0 .. inserted
  BY <1>0 DEF PassType, Rows, CtlType
<1>3. CASE StartPass
  <2>1. pass' \in PassType /\ (svc.health => pass'.known = svc.space)
    <3> DEFINE k == IF svc.health THEN svc.space ELSE Silent
    <3>1. k \in [Stores -> Spaces \cup {Unknown}]
      BY <1>0 DEF Silent
    <3>2. pass' = [pass EXCEPT !.known = k]
      BY <1>3 DEF StartPass
    <3> QED BY <1>0, <3>1, <3>2 DEF PassType
  <2>2. /\ UNCHANGED <<cur, answer>>
        /\ leg' = "text" /\ ((pc' = "space" /\ svc.health) \/ pc' = "select")
    BY <1>3 DEF StartPass, Goto
  <2> QED
    BY <1>0, <1>2, <2>1, <2>2
    DEF CtlInv, CtlType, InHand, KnownAnswered, AnswerUsable, Steps, Stores
<1>4. CASE SpaceCheck
  BY <1>0, <1>2, <1>4
  DEF SpaceCheck, SpaceSame, SpaceChanged, SpaceRequeue, SpaceLabel, AfterSpace, Goto,
      CtlInv, CtlType, InHand, KnownAnswered, AnswerUsable, Steps, Stores
<1>5. CASE FlagCheck
  BY <1>0, <1>2, <1>5
  DEF FlagCheck, FlagDown, LowerFlag, FlagRequeue, AfterFlag, Goto,
      CtlInv, CtlType, InHand, KnownAnswered, AnswerUsable, Steps, Stores
<1>6. CASE Select
  <2>1. CASE EndPass
    BY <1>0, <2>1, EndPassStep
  <2>2. CASE ~EndPass
    <3>1. CapturesNeedingImage \in SUBSET Rows /\ CapturesPending \in SUBSET Rows
      BY DEF CapturesNeedingImage, CapturesPending, Limit
    <3>2. pass' = [pass EXCEPT !.backfill = CapturesNeedingImage, !.fresh = CapturesPending]
      BY <1>6, <2>2 DEF Select
    <3>3. pass' \in PassType
      BY <1>0, <3>1, <3>2, PassUpdates
    <3> QED
      BY <1>0, <1>2, <1>6, <2>2, <3>3
      DEF Select, Goto, CtlInv, CtlType, InHand, KnownAnswered, AnswerUsable, Steps, Stores
  <2> QED BY <2>1, <2>2
<1>7. CASE TakeBackfill
  <2>1. PICK c \in pass.backfill : cur' = c /\ pass' = [pass EXCEPT !.backfill = @ \ {c}]
    BY <1>7 DEF TakeBackfill
  <2>2. c \in Rows /\ pass' \in PassType
    BY <1>0, <2>1, PassUpdates DEF PassType
  <2> QED
    BY <1>0, <1>2, <1>7, <2>1, <2>2
    DEF TakeBackfill, Goto, CtlInv, CtlType, InHand, KnownAnswered, AnswerUsable, Steps, Stores
<1>8. CASE BackfillDrained
  <2>1. pass' \in PassType
    BY <1>0, <1>8, PassUpdates DEF BackfillDrained
  <2> QED
    BY <1>0, <1>2, <1>8, <2>1
    DEF BackfillDrained, CtlInv, CtlType, InHand, KnownAnswered, AnswerUsable
<1>9. CASE TakeFresh
  <2>1. PICK c \in pass.fresh :
          cur' = c /\ pass' = [pass EXCEPT !.fresh = @ \ {c}, !.textRetry = FALSE]
    BY <1>9 DEF TakeFresh
  <2>2. c \in Rows /\ pass' \in PassType
    BY <1>0, <2>1, PassUpdates DEF PassType
  <2> QED
    BY <1>0, <1>2, <1>9, <2>1, <2>2
    DEF TakeFresh, Goto, CtlInv, CtlType, InHand, KnownAnswered, AnswerUsable, Steps, Stores
<1>10. CASE FreshDrained \/ Interrupt
  BY <1>0, <1>10, EndPassStep DEF FreshDrained, Interrupt
<1>11. ASSUME NEW s \in Stores, NEW refused \in BOOLEAN
       PROVE  /\ Reply(s, refused) \in [kind : ReplyKinds, space : Spaces \cup {Unknown}]
              /\ Reply(s, refused).space \in Spaces
  BY <1>0 DEF Reply, Modes, ReplyKinds
<1>12. CASE EmbedText \/ EmbedImage
  <2>1. answer' \in [kind : ReplyKinds, space : Spaces \cup {Unknown}]
        /\ answer'.space \in Spaces
    BY <1>11, <1>12 DEF EmbedText, EmbedImage, Stores
  <2> QED
    BY <1>0, <1>2, <1>12, <2>1
    DEF EmbedText, EmbedImage, ToEmbed, AtImageStep, AtImage, Goto,
        CtlInv, CtlType, InHand, KnownAnswered, AnswerUsable, Steps, Stores
<1>13. CASE TextRetry
  <2>1. pass' \in PassType
    BY <1>0, <1>13, PassUpdates DEF TextRetry
  <2> QED
    BY <1>0, <1>2, <1>13, <2>1
    DEF TextRetry, Goto, NoReply, ReplyKinds, CtlInv, CtlType, InHand, KnownAnswered,
        AnswerUsable, Steps, Stores
<1>18. CASE AskTopics \/ AttachTopic
  <2>1. pass' \in PassType
    BY <1>0, <1>18, PassUpdates DEF AskTopics, AttachTopic
  <2> QED
    BY <1>0, <1>2, <1>18, <2>1
    DEF AskTopics, AttachTopic, Goto, NoReply, ReplyKinds, CtlInv, CtlType, InHand,
        KnownAnswered, AnswerUsable, Steps, Stores
<1>14. CASE TextSettled \/ TextRefused \/ TextDisabled \/ TopicsDone
  BY <1>0, <1>2, <1>14
  DEF TextSettled, TextRefused, TextDisabled, TopicsDone, Goto, NoReply, ReplyKinds,
      CtlInv, CtlType, InHand, KnownAnswered, AnswerUsable, Steps, Stores
<1>15. CASE ImageSettle \/ ReadError \/ ImageRefused \/ ImageDisabled \/ ImageRetry \/ ImageDone
  <2>1. cur \in Rows
    BY <1>0, <1>15
    DEF ImageSettle, SkipImages, NoImageToken, AlreadyEmbedded, AlreadySkipped,
        NeverEmbeddable, ObjectMissing, ReadError, ImageRefused, ImageDisabled,
        ImageRetry, ImageDone, AtImage, AtImageStep, ToEmbed, CtlInv, InHand
  <2>2. \E o : EndImageLeg(o)
    BY <1>15
    DEF ImageSettle, SkipImages, NoImageToken, AlreadyEmbedded, AlreadySkipped,
        NeverEmbeddable, ObjectMissing, ReadError, ImageRefused, ImageDisabled,
        ImageRetry, ImageDone
  <2> QED BY <1>0, <2>1, <2>2, EndImageLegStep
<1>16. CASE MarkProcessed
  BY <1>0, <1>2, <1>16
  DEF MarkProcessed, Goto, CtlInv, CtlType, InHand, KnownAnswered, AnswerUsable, Steps, Stores
<1>17. CASE StoreVector
  BY <1>0, <1>2, <1>17
  DEF StoreVector, StoreSame, StoreClear, StoreRequeue, StoreRelabel, StoreInsert, OkAnswer,
      Goto, CtlInv, CtlType, InHand, KnownAnswered, AnswerUsable, Steps, Stores
<1> QED
  BY <1>3, <1>4, <1>5, <1>6, <1>7, <1>8, <1>9, <1>10, <1>12, <1>13, <1>14, <1>15, <1>16,
     <1>17, <1>18
  DEF Next, EnrichStep, Queues, TextLeg, ImageLeg

LEMMA TypeStep == TypeInv /\ [Next]_vars => TypeInv'
  BY RowsStep, WorkStep, SemStep, CtlStep, EnvStep DEF TypeInv

(***************************************************************************)
(* Type correctness: the broker only ever adds captures, the enricher      *)
(* works on captures that exist, and it compares and stores vectors only   *)
(* of spaces the service has reported.                                     *)
(***************************************************************************)
THEOREM TypeCorrect == Spec => []TypeOK
<1>1. TypeInv => TypeOK
  BY DEF TypeInv, TypeOK, CtlInv
<1> QED BY InitTypeInv, TypeStep, <1>1, PTL DEF Spec

-----------------------------------------------------------------------------
(* The stores *)

\* Each capture has no vector or one, of the labelled space.
Homogeneous ==
  \A s \in Stores, c \in Captures : vecs[s][c] = <<>> \/ vecs[s][c] = <<label[s]>>

\* A store whose space is unknown is empty: any space may claim it.
UnknownEmpty == \A s \in Stores : label[s] = Unknown => vecs[s] = NoVectors

\* Between the clearing of a store and its new label there is nothing in it.
Emptied ==
  pc \in {"spaceRequeue", "spaceLabel", "rebuild", "relabel"} => vecs[leg] = NoVectors

\* The has_item guard still holds when the answer arrives, and the label is
\* that of the answer when the vector is inserted.
ReadyToInsert ==
  /\ pc \in {"record", "insert"} => vecs[leg][cur] = <<>>
  /\ pc = "insert" => label[leg] = answer.space

StoreInv == Homogeneous /\ UnknownEmpty /\ Emptied /\ ReadyToInsert

\* The label of store leg becomes sp: it was sp, or there was nothing in it.
LEMMA Relabelled ==
  ASSUME SemType, StoreInv, leg \in Stores, NEW sp \in Spaces, SetSpaceId(leg, sp),
         ~SpaceMismatch(leg, sp) \/ vecs[leg] = NoVectors
  PROVE  Homogeneous' /\ UnknownEmpty'
<1>1. /\ label' \in [Stores -> Labels] /\ UNCHANGED vecs
      /\ label'[leg] = sp /\ \A s \in Stores \ {leg} : label'[s] = label[s]
  BY DEF SemType, SetSpaceId, Labels
<1>2. label[leg] = sp \/ vecs[leg] = NoVectors
  BY DEF SpaceMismatch, StoreInv, UnknownEmpty
<1>3. \A c \in Captures : NoVectors[c] = <<>>
  BY DEF NoVectors
<1>4. Homogeneous'
  BY <1>1, <1>2, <1>3 DEF StoreInv, Homogeneous
<1>5. UnknownEmpty'
  BY <1>1, SpacesAssumption DEF StoreInv, UnknownEmpty, NoVectors
<1> QED BY <1>4, <1>5

LEMMA Cleared ==
  ASSUME SemType, StoreInv, leg \in Stores, ClearStore(leg)
  PROVE  Homogeneous' /\ UnknownEmpty' /\ vecs'[leg] = NoVectors
<1>1. /\ UNCHANGED label /\ vecs'[leg] = NoVectors
      /\ \A s \in Stores \ {leg} : vecs'[s] = vecs[s]
  BY DEF SemType, ClearStore
<1>2. \A c \in Captures : NoVectors[c] = <<>>
  BY DEF NoVectors
<1>3. Homogeneous'
  BY <1>1, <1>2 DEF StoreInv, Homogeneous
<1>4. UnknownEmpty'
  BY <1>1 DEF StoreInv, UnknownEmpty, NoVectors
<1> QED BY <1>1, <1>3, <1>4

LEMMA StoreStep ==
  ASSUME TypeInv, StoreInv, [Next]_vars
  PROVE  StoreInv'
<1>0. /\ SemType /\ leg \in Stores
      /\ pc \in {"text", "image", "record", "insert", "relabel"} => cur \in Captures
      /\ pc \in {"space", "spaceLabel"} => pass.known[leg] \in Spaces
      /\ answer.kind = "ok" => answer.space \in Spaces
      /\ pc \in {"insert", "relabel"} => answer.kind = "ok"
  BY BoundsAssumption DEF TypeInv, RowsType, CtlInv, CtlType, InHand, KnownAnswered,
         AnswerUsable, Captures, Rows
<1> USE DEF Emptied, ReadyToInsert
<1>1. CASE SpaceSame
  BY <1>0, <1>1, Relabelled DEF SpaceSame, StoreInv, AfterSpace, Goto
<1>2. CASE SpaceChanged
  BY <1>0, <1>2, Cleared DEF SpaceChanged, StoreInv, Goto
<1>3. CASE SpaceLabel
  BY <1>0, <1>3, Relabelled DEF SpaceLabel, StoreInv, AfterSpace, Goto
<1>4. CASE StoreSame
  <2>1. SetSpaceId(leg, answer.space) /\ UNCHANGED <<cur, answer>> /\ vecs' = vecs
        /\ pc' = "insert" /\ leg' = leg /\ ~SpaceMismatch(leg, answer.space)
        /\ pc = "record" /\ answer.space \in Spaces
    BY <1>0, <1>4 DEF StoreSame, OkAnswer, SetSpaceId, Goto
  <2>2. Homogeneous' /\ UnknownEmpty'
    BY <1>0, <2>1, Relabelled
  <2>3. label'[leg] = answer.space
    BY <1>0, <2>1 DEF SetSpaceId, SemType
  <2> QED BY <2>1, <2>2, <2>3 DEF StoreInv
<1>5. CASE StoreClear
  BY <1>0, <1>5, Cleared DEF StoreClear, StoreInv, Goto
<1>6. CASE StoreRelabel
  <2>1. SetSpaceId(leg, answer.space) /\ UNCHANGED <<cur, answer>> /\ vecs' = vecs
        /\ pc' = "insert" /\ leg' = leg /\ vecs[leg] = NoVectors
        /\ cur \in Captures /\ answer.space \in Spaces
    BY <1>0, <1>6 DEF StoreRelabel, SetSpaceId, StoreInv, Goto
  <2>2. Homogeneous' /\ UnknownEmpty'
    BY <1>0, <2>1, Relabelled
  <2>3. label'[leg] = answer.space /\ vecs[leg][cur] = <<>>
    BY <1>0, <2>1 DEF SetSpaceId, SemType, NoVectors
  <2> QED BY <2>1, <2>2, <2>3 DEF StoreInv
<1>7. CASE StoreInsert
  <2>1. /\ vecs' = [vecs EXCEPT ![leg][cur] = Append(@, answer.space)] /\ UNCHANGED label
        /\ vecs[leg][cur] = <<>> /\ label[leg] = answer.space /\ cur \in Captures
        /\ pc' \in {"topics", "done"} /\ answer.space \in Spaces
    BY <1>0, <1>7 DEF StoreInsert, InsertVector, StoreInv, Goto
  <2>2. /\ vecs'[leg][cur] = <<label[leg]>>
        /\ \A s \in Stores, c \in Captures :
             s # leg \/ c # cur => vecs'[s][c] = vecs[s][c]
        /\ \A s \in Stores \ {leg} : vecs'[s] = vecs[s]
    BY <1>0, <2>1 DEF SemType
  <2>3. Homogeneous'
    BY <2>1, <2>2 DEF StoreInv, Homogeneous
  <2>4. UnknownEmpty'
    BY <1>0, <2>1, <2>2, SpacesAssumption DEF StoreInv, UnknownEmpty, NoVectors
  <2> QED BY <2>1, <2>3, <2>4 DEF StoreInv
<1>8. CASE UNCHANGED sem /\ ~StoreSame /\ ~SpaceChanged /\ ~StoreClear /\ ~StoreRelabel
  <2>1. Homogeneous' /\ UnknownEmpty'
    BY <1>8 DEF sem, StoreInv, Homogeneous, UnknownEmpty, NoVectors
  <2>2. \/ UNCHANGED <<pc, leg, cur, answer>>
        \/ pc' = "record" /\ cur' = cur /\ ~HasItem(leg', cur)
        \/ pc \in {"spaceRequeue", "rebuild"} /\ leg' = leg /\ pc' \in {"spaceLabel", "relabel"}
        \/ pc' \in Steps \ {"spaceRequeue", "spaceLabel", "rebuild", "relabel", "record", "insert"}
    <3>1. CASE StartPass \/ SpaceSame \/ SpaceRequeue \/ SpaceLabel \/ FlagCheck
      BY <3>1
      DEF FlagCheck, ctl, Steps, Goto, StartPass, SpaceSame, SpaceRequeue, SpaceLabel,
          AfterSpace, FlagDown, LowerFlag, FlagRequeue, AfterFlag
    <3>2. CASE Queues
      BY <3>2
      DEF Queues, ctl, Steps, Goto, Select, EndPass, TakeBackfill, BackfillDrained, TakeFresh,
          FreshDrained
    <3>3. CASE TextLeg
      BY <3>3
      DEF TextLeg, ctl, Steps, Goto, TextSettled, EmbedText, TextRefused, TextDisabled, TextRetry,
          AskTopics, AttachTopic, TopicsDone
    <3>4. CASE ImageSettle
      BY <3>4
      DEF ImageSettle, ctl, Steps, Goto, EndImageLeg, SkipImages, NoImageToken, AlreadyEmbedded,
          AlreadySkipped, NeverEmbeddable, ObjectMissing, AtImageStep, ToEmbed
    <3>5. CASE ImageLeg
      BY <3>5
      DEF ImageLeg, ctl, Steps, Goto, EndImageLeg, EmbedImage, ToEmbed, AtImageStep, ImageRefused,
          ImageDisabled, ImageRetry, ImageDone
    <3>6. CASE StoreRequeue \/ StoreInsert \/ MarkProcessed
      BY <3>6 DEF ctl, Steps, Goto, StoreRequeue, StoreInsert, MarkProcessed
    <3>7. CASE ReadError \/ InsertCapture \/ ServiceChanges \/ Interrupt \/ UNCHANGED vars
      BY <3>7
      DEF vars, ctl, Steps, Goto, EndPass, EndImageLeg, ReadError, InsertCapture, ServiceChanges,
          Interrupt
    <3> QED
      BY <1>8, <3>1, <3>2, <3>3, <3>4, <3>5, <3>6, <3>7
      DEF Next, EnrichStep, SpaceCheck, StoreVector
  <2> QED
    BY <1>8, <2>1, <2>2 DEF sem, StoreInv, HasItem, NoVectors
<1> QED BY <1>1, <1>2, <1>3, <1>4, <1>5, <1>6, <1>7, <1>8, Frame

LEMMA StoreInvariant == Spec => [](TypeInv /\ StoreInv)
<1>1. Init => TypeInv /\ StoreInv
  BY InitTypeInv, SpacesAssumption
  DEF Init, StoreInv, Homogeneous, UnknownEmpty, Emptied, ReadyToInsert, NoVectors
<1>2. TypeInv /\ StoreInv /\ [Next]_vars => (TypeInv /\ StoreInv)'
  BY TypeStep, StoreStep
<1> QED BY <1>1, <1>2, PTL DEF Spec

(***************************************************************************)
(* No store ever mixes spaces, whatever the service answers and wherever   *)
(* the passes stop: each step of the rebuild leaves the store empty until  *)
(* its label is that of the vector that follows.                           *)
(***************************************************************************)
THEOREM StoresNeverMix == Spec => []NoMixedSpaces
<1>1. StoreInv => NoMixedSpaces
  BY DEF StoreInv, Homogeneous, NoMixedSpaces
<1> QED BY <1>1, StoreInvariant, PTL

(***************************************************************************)
(* An index is given up only for another space: neither a malformed answer *)
(* nor a failed one empties a store that has vectors in it (`usable` and   *)
(* space_mismatch are asked before anything is cleared).                   *)
(***************************************************************************)
THEOREM IndexesAreKept == Spec => IndexKept
<1> DEFINE Kept == \A s \in Stores :
             (\E c \in Captures : HasItem(s, c)) /\ vecs'[s] = NoVectors => OtherSpaceNamed(s)
<1>1. ASSUME TypeInv, [Next]_vars PROVE Kept
  <2> SUFFICES ASSUME NEW s \in Stores, NEW c \in Captures, vecs[s][c] # <<>>,
                      vecs'[s] = NoVectors
               PROVE  OtherSpaceNamed(s)
    BY DEF HasItem
  <2>0. /\ SemType /\ leg \in Stores /\ NoVectors[c] = <<>>
        /\ pc \in {"space", "spaceLabel"} => pass.known[leg] \in Spaces
        /\ pc = "insert" => cur \in Captures /\ answer.space \in Spaces
    BY <1>1, BoundsAssumption
    DEF TypeInv, RowsType, CtlInv, CtlType, InHand, KnownAnswered, AnswerUsable, NoVectors,
        Captures, Rows
  <2>1. vecs'[s][c] = <<>> /\ vecs' # vecs
    BY <2>0
  <2>2. CASE SpaceChanged
    <3>1. s = leg
      BY <2>0, <2>1, <2>2 DEF SpaceChanged, ClearStore, SemType
    <3>2. pass.known[s] # label[s] /\ pass.known[s] \in Spaces
      BY <2>0, <2>2, <3>1 DEF SpaceChanged, SpaceMismatch
    <3> QED BY <3>2, SpacesAssumption DEF OtherSpaceNamed
  <2>3. CASE StoreClear
    <3>1. s = leg
      BY <2>0, <2>1, <2>3 DEF StoreClear, ClearStore, SemType
    <3> QED BY <2>3, <3>1 DEF StoreClear, OkAnswer, SpaceMismatch, OtherSpaceNamed
  <2>4. CASE StoreInsert
    <3>1. vecs' = [vecs EXCEPT ![leg][cur] = Append(@, answer.space)]
          /\ cur \in Captures /\ answer.space \in Labels
      BY <2>0, <2>4 DEF StoreInsert, InsertVector, Labels
    <3>2. vecs'[s][c] = vecs[s][c] \/ vecs'[s][c] = Append(vecs[s][c], answer.space)
      BY <2>0, <3>1 DEF SemType
    <3>3. vecs[s][c] \in Seq(Labels)
      BY <2>0 DEF SemType
    <3> QED BY <2>1, <3>1, <3>2, <3>3
  <2> QED
    BY <1>1, <2>1, <2>2, <2>3, <2>4, Frame
    DEF SpaceSame, SpaceLabel, StoreSame, StoreRelabel, SetSpaceId, sem
<1>2. TypeInv /\ [Next]_vars => [Kept]_vars
  BY <1>1
<1> QED BY <1>2, InitTypeInv, TypeStep, PTL DEF Spec, IndexKept

(***************************************************************************)
(* A capture never has two vectors in a store: the has_item guard of a leg *)
(* still holds when its answer is stored, because no other capture is in   *)
(* hand until the pass has recorded this one.                              *)
(***************************************************************************)
THEOREM StoresNeverDuplicate == Spec => []OneVectorEach
<1>1. StoreInv => OneVectorEach
  <2>1. Len(<<>>) <= 1 /\ \A s \in Stores : Len(<<label[s]>>) <= 1
    OBVIOUS
  <2> QED BY <2>1, Zenon DEF StoreInv, Homogeneous, OneVectorEach
<1> QED BY <1>1, StoreInvariant, PTL

-----------------------------------------------------------------------------
(* The refinement *)

\* Either store, so that the two are proved at once.
Store(s) == INSTANCE VectorStore WITH Items <- Captures, label <- label[s], vecs <- vecs[s]

LEMMA StoreRefinementStep ==
  ASSUME TypeInv, StoreInv, [Next]_vars, NEW s \in Stores
  PROVE  [Store(s)!Next]_(Store(s)!vars)
<1>0. /\ SemType /\ SemType' /\ leg \in Stores
      /\ pc \in {"insert"} => cur \in Captures
      /\ pc \in {"space", "spaceLabel"} => pass.known[leg] \in Spaces
      /\ answer.kind = "ok" => answer.space \in Spaces
      /\ pc \in {"insert", "relabel"} => answer.kind = "ok"
  BY SemStep, BoundsAssumption
  DEF TypeInv, RowsType, CtlInv, CtlType, InHand, KnownAnswered, AnswerUsable, Captures, Rows
<1> USE DEF Store!Next, Store!Clear, Store!Relabel, Store!Add, Store!vars, Store!NoVectors
<1>1. ASSUME NEW sp \in Spaces, SetSpaceId(leg, sp),
             ~SpaceMismatch(leg, sp) \/ vecs[leg] = NoVectors
      PROVE  [Store(s)!Next]_(Store(s)!vars)
  <2>1. label[leg] = sp \/ vecs[leg] = NoVectors
    BY <1>0, <1>1 DEF SpaceMismatch, StoreInv, UnknownEmpty
  <2>2. label'[s] = (IF s = leg THEN sp ELSE label[s]) /\ vecs' = vecs /\ sp \in Labels
    BY <1>0, <1>1 DEF SetSpaceId, SemType, Labels
  <2>3. CASE label'[s] = label[s]
    BY <2>2, <2>3
  <2>4. CASE s = leg /\ vecs[leg] = NoVectors
    BY <2>2, <2>4, Zenon DEF NoVectors
  <2> QED BY <2>1, <2>2, <2>3, <2>4
<1>2. ASSUME ClearStore(leg) PROVE [Store(s)!Next]_(Store(s)!vars)
  <2>1. vecs'[s] = (IF s = leg THEN NoVectors ELSE vecs[s]) /\ label' = label
    BY <1>0, <1>2 DEF ClearStore, SemType
  <2> QED BY <2>1 DEF NoVectors
<1>3. CASE SpaceSame \/ SpaceLabel \/ StoreSame \/ StoreRelabel
  BY <1>0, <1>1, <1>3
  DEF SpaceSame, SpaceLabel, StoreSame, StoreRelabel, OkAnswer, StoreInv, Emptied
<1>4. CASE SpaceChanged \/ StoreClear
  BY <1>2, <1>4 DEF SpaceChanged, StoreClear
<1>5. CASE StoreInsert
  <2>1. /\ vecs' = [vecs EXCEPT ![leg][cur] = Append(@, answer.space)] /\ UNCHANGED label
        /\ vecs[leg][cur] = <<>> /\ label[leg] = answer.space /\ cur \in Captures
        /\ label[leg] # Unknown
    BY <1>0, <1>5, SpacesAssumption DEF StoreInsert, InsertVector, StoreInv, ReadyToInsert
  <2>2. vecs'[s] = IF s = leg THEN [vecs[s] EXCEPT ![cur] = <<label[s]>>] ELSE vecs[s]
    <3>1. Append(<<>>, answer.space) = <<label[leg]>>
      BY <2>1
    <3>2. vecs' = [vecs EXCEPT ![leg] = [vecs[leg] EXCEPT ![cur] = <<label[leg]>>]]
      BY <2>1, <3>1, Zenon
    <3> QED BY <1>0, <3>2, Zenon DEF SemType
  <2>3. CASE s = leg
    <3>1. Store(s)!Add(cur)
      BY <2>1, <2>2, <2>3
    <3> QED BY <2>1, <3>1
  <2>4. CASE s # leg
    BY <2>1, <2>2, <2>4
  <2> QED BY <2>3, <2>4
<1>6. CASE UNCHANGED sem
  BY <1>6 DEF sem
<1> QED BY <1>3, <1>4, <1>5, <1>6, Frame

LEMMA StoreInits ==
  ASSUME Init
  PROVE  TextStore!Init /\ ImageStore!Init
<1>1. ASSUME NEW s \in Stores
      PROVE  Store(s)!Init
  BY DEF Init, Store!Init, Store!NoVectors, NoVectors, Labels
<1> QED
  BY <1>1
  DEF Stores, Store!Init, Store!NoVectors, TextStore!Init, TextStore!NoVectors,
      ImageStore!Init, ImageStore!NoVectors

(***************************************************************************)
(* The text store implements VectorStore: whatever the enricher does with  *)
(* it (semantic.rs) is a step VectorStore allows.                          *)
(***************************************************************************)
THEOREM TextStoreImplements == Spec => TextStoreSpec
<1>1. Init => TextStore!Init
  BY StoreInits
<1>2. TypeInv /\ StoreInv /\ [Next]_vars => [TextStore!Next]_(TextStore!vars)
  BY StoreRefinementStep
  DEF Stores, Store!Next, Store!Clear, Store!Relabel, Store!Add, Store!vars, Store!NoVectors,
      TextStore!Next, TextStore!Clear, TextStore!Relabel, TextStore!Add, TextStore!vars,
      TextStore!NoVectors
<1> QED
  BY <1>1, <1>2, StoreInvariant, PTL DEF Spec, TextStoreSpec, TextStore!Spec

(***************************************************************************)
(* So does the image store, which is rebuilt and requeued on its own.      *)
(***************************************************************************)
THEOREM ImageStoreImplements == Spec => ImageStoreSpec
<1>1. Init => ImageStore!Init
  BY StoreInits
<1>2. TypeInv /\ StoreInv /\ [Next]_vars => [ImageStore!Next]_(ImageStore!vars)
  BY StoreRefinementStep
  DEF Stores, Store!Next, Store!Clear, Store!Relabel, Store!Add, Store!vars, Store!NoVectors,
      ImageStore!Next, ImageStore!Clear, ImageStore!Relabel, ImageStore!Add, ImageStore!vars,
      ImageStore!NoVectors
<1> QED
  BY <1>1, <1>2, StoreInvariant, PTL DEF Spec, ImageStoreSpec, ImageStore!Spec

-----------------------------------------------------------------------------
(* The image verdicts *)

\* A capture without a screenshot, or with one that was given up, has no
\* image vector; nor has one that is not there yet.
NothingStored ==
  \A c \in Captures :
    c \notin Rows \/ image[c] = "noToken" \/ imgState[c] = "skipped"
      => vecs["image"][c] = <<>>

\* An image on its way to the store has not been given up.
NotGivenUp ==
  /\ leg = "image" /\ pc \in {"record", "rebuild", "relabel", "insert", "done"}
       => image[cur] # "noToken" /\ imgState[cur] # "skipped"
  /\ pc = "done" => leg = "image"

VerdictInv == NothingStored /\ NotGivenUp

\* How a step may change the verdicts.
VerdictStep ==
  \/ UNCHANGED imgState
  \/ imgState' = [c \in Captures |-> "none"]
  \/ \E st \in ImageStates :
       /\ imgState' = [imgState EXCEPT ![cur] = st]
       /\ imgState[cur] # "skipped" \/ st = "skipped"
       /\ st = "skipped" => vecs["image"][cur] = <<>>

LEMMA VerdictSteps ==
  ASSUME TypeInv, StoreInv, VerdictInv, [Next]_vars
  PROVE  VerdictStep
<1>0. /\ leg \in Stores
      /\ pc \in {"image", "record", "done"} => cur \in Captures /\ cur \in Rows
  BY BoundsAssumption DEF TypeInv, RowsType, CtlInv, CtlType, InHand, Captures, Rows
<1>1. CASE SpaceRequeue \/ FlagRequeue \/ StoreRequeue
  BY <1>1 DEF SpaceRequeue, FlagRequeue, StoreRequeue, Requeue, VerdictStep
<1>2. CASE NoImageToken
  BY <1>0, <1>2 DEF NoImageToken, AtImage, SetImageState, VerdictStep, ImageStates,
                    VerdictInv, NothingStored
<1>3. CASE AlreadyEmbedded
  BY <1>0, <1>3 DEF AlreadyEmbedded, AtImage, HasItem, SetImageState, VerdictStep,
                    ImageStates, VerdictInv, NothingStored
<1>4. CASE NeverEmbeddable
  BY <1>0, <1>4 DEF NeverEmbeddable, ToEmbed, AtImageStep, AtImage, HasItem,
                    SetImageState, VerdictStep, ImageStates
<1>5. CASE ObjectMissing \/ ReadError
  BY <1>5 DEF ObjectMissing, ReadError, ToEmbed, SetImageState, VerdictStep, ImageStates
<1>6. CASE ImageRefused
  BY <1>6 DEF ImageRefused, SetImageState, VerdictStep, ImageStates, VerdictInv,
              NotGivenUp, StoreInv, ReadyToInsert
<1>7. CASE ImageRetry
  BY <1>7 DEF ImageRetry, SetImageState, VerdictStep, ImageStates, VerdictInv, NotGivenUp
<1>8. CASE ImageDone
  BY <1>8 DEF ImageDone, SetImageState, VerdictStep, ImageStates, VerdictInv, NotGivenUp
<1> QED
  BY <1>1, <1>2, <1>3, <1>4, <1>5, <1>6, <1>7, <1>8
  DEF VerdictStep, Next, EnrichStep, SpaceCheck, FlagCheck, Queues, TextLeg, ImageSettle,
      ImageLeg, StoreVector, vars, work, StartPass, SpaceSame, SpaceChanged, SpaceLabel,
      FlagDown, LowerFlag, Select, TakeBackfill, BackfillDrained, TakeFresh, FreshDrained,
      Touch, TextSettled, EmbedText, TextRefused, TextDisabled, TextRetry, AskTopics,
      AttachTopic, TopicsDone, SkipImages, AlreadySkipped, EmbedImage, ImageDisabled,
      MarkProcessed, StoreSame, StoreClear, StoreRelabel, StoreInsert, InsertCapture,
      ServiceChanges, Interrupt

\* How a step may add to the image store: the vector of the image in hand.
LEMMA ImageVectors ==
  ASSUME TypeInv, StoreInv, VerdictInv, [Next]_vars, NEW c \in Captures,
         vecs["image"][c] = <<>>
  PROVE  \/ vecs'["image"][c] = <<>>
         \/ c = cur /\ cur \in Rows /\ UNCHANGED <<rows, imgState>>
            /\ image[cur] # "noToken" /\ imgState[cur] # "skipped"
<1>0. /\ SemType /\ leg \in Stores /\ "image" \in Stores
      /\ pc = "insert" => cur \in Captures /\ cur \in Rows
  BY BoundsAssumption
  DEF TypeInv, RowsType, CtlInv, CtlType, InHand, Captures, Rows, Stores
<1>1. CASE UNCHANGED vecs
  BY <1>1
<1>2. CASE SpaceChanged \/ StoreClear
  <2>1. vecs'["image"] = NoVectors \/ vecs'["image"] = vecs["image"]
    BY <1>0, <1>2 DEF SpaceChanged, StoreClear, ClearStore, SemType
  <2> QED BY <2>1 DEF NoVectors
<1>3. CASE StoreInsert
  <2>1. CASE leg = "image" /\ c = cur
    BY <1>0, <1>3, <2>1
    DEF StoreInsert, work, VerdictInv, NotGivenUp
  <2>2. CASE leg # "image" \/ c # cur
    <3>1. vecs' = [vecs EXCEPT ![leg][cur] = Append(@, answer.space)]
      BY <1>3 DEF StoreInsert, InsertVector
    <3>2. vecs'["image"][c] = vecs["image"][c]
      BY <1>0, <2>2, <3>1 DEF SemType
    <3> QED BY <3>2
  <2> QED BY <2>1, <2>2
<1> QED
  BY <1>1, <1>2, <1>3, Frame
  DEF SpaceSame, SpaceLabel, StoreSame, StoreRelabel, SetSpaceId, sem

LEMMA VerdictInvStep ==
  ASSUME TypeInv, StoreInv, VerdictInv, [Next]_vars
  PROVE  VerdictInv'
<1>0. /\ inserted \in Nat /\ Rows \subseteq Captures /\ Rows \subseteq Rows'
      /\ imgState \in [Captures -> ImageStates]
      /\ image \in [Captures -> {"noToken"} \cup ImageKinds]
      /\ \A c \in Rows : image'[c] = image[c]
      /\ \A c \in Captures : c \notin Rows' => c \notin Rows
  <2>1. /\ inserted \in 0 .. NumCaptures /\ inserted' \in {inserted, inserted + 1}
        /\ imgState \in [Captures -> ImageStates]
        /\ image \in [Captures -> {"noToken"} \cup ImageKinds]
    BY RowsStep DEF TypeInv, RowsType, WorkType
  <2>2. CASE InsertCapture
    BY <2>1, <2>2, BoundsAssumption DEF InsertCapture, Captures, Rows
  <2>3. CASE UNCHANGED rows
    BY <2>1, <2>3, BoundsAssumption DEF rows, Captures, Rows
  <2> QED BY <2>2, <2>3, Frame
<1>1. NothingStored'
  <2> SUFFICES ASSUME NEW c \in Captures,
                      c \notin Rows' \/ image'[c] = "noToken" \/ imgState'[c] = "skipped",
                      vecs'["image"][c] # <<>>
               PROVE  FALSE
    BY DEF NothingStored
  <2>1. CASE vecs["image"][c] = <<>>
    <3>1. c = cur /\ cur \in Rows /\ UNCHANGED <<rows, imgState>>
          /\ image[cur] # "noToken" /\ imgState[cur] # "skipped"
      BY <2>1, ImageVectors
    <3> QED BY <1>0, <3>1 DEF rows
  <2>2. CASE vecs["image"][c] # <<>>
    <3>1. c \in Rows /\ image[c] # "noToken" /\ imgState[c] # "skipped"
      BY <2>2 DEF VerdictInv, NothingStored
    <3>2. imgState'[c] = "skipped"
      BY <1>0, <3>1
    <3>3. c = cur /\ vecs["image"][cur] = <<>>
      BY <1>0, <3>1, <3>2, VerdictSteps DEF VerdictStep
    <3> QED BY <2>2, <3>3
  <2> QED BY <2>1, <2>2
<1>2. NotGivenUp'
  <2>0. /\ leg \in Stores
        /\ pc \in {"record", "rebuild", "relabel", "insert", "done"} => cur \in Rows
    BY DEF TypeInv, CtlInv, CtlType, InHand
  <2> USE DEF NotGivenUp, VerdictInv
  <2>1. CASE EmbedImage
    BY <2>1 DEF EmbedImage, ToEmbed, AtImageStep, Goto, rows, work
  <2>2. CASE StoreSame \/ StoreClear \/ StoreRelabel \/ StoreInsert
    BY <2>0, <2>2
    DEF StoreSame, StoreClear, StoreRelabel, StoreInsert, OkAnswer, Goto, rows, work, Stores
  <2>3. CASE StoreRequeue
    BY <1>0, <2>0, <2>3 DEF StoreRequeue, Requeue, Goto, rows, Stores
  <2>4. CASE InsertCapture \/ ServiceChanges \/ UNCHANGED vars
    BY <1>0, <2>0, <2>4 DEF InsertCapture, ServiceChanges, vars, rows, work, ctl
  <2>5. CASE EmbedText
    BY <2>5 DEF EmbedText, Goto
  <2>6. CASE /\ ~EmbedImage /\ ~EmbedText /\ ~StoreVector
             /\ ~InsertCapture /\ ~ServiceChanges /\ ~UNCHANGED vars
    <3>1. pc' \notin {"record", "rebuild", "relabel", "insert", "done"}
      BY <2>6
      DEF Next, EnrichStep, SpaceCheck, FlagCheck, Queues, TextLeg, ImageSettle, ImageLeg,
          Goto, StartPass, SpaceSame, SpaceChanged, SpaceRequeue, SpaceLabel, AfterSpace,
          FlagDown, LowerFlag, FlagRequeue, AfterFlag, Select, EndPass, TakeBackfill,
          BackfillDrained, TakeFresh, FreshDrained, TextSettled, TextRefused, TextDisabled,
          TextRetry, AskTopics, AttachTopic, TopicsDone, EndImageLeg, SkipImages, NoImageToken,
          AlreadyEmbedded, AlreadySkipped, NeverEmbeddable, ObjectMissing, ReadError,
          ImageRefused, ImageDisabled, ImageRetry, ImageDone, MarkProcessed, Interrupt
    <3> QED BY <3>1
  <2> QED BY <2>1, <2>2, <2>3, <2>4, <2>5, <2>6 DEF StoreVector
<1> QED BY <1>1, <1>2 DEF VerdictInv

(***************************************************************************)
(* A terminal verdict is final: the per-image steps of enrich.rs take back *)
(* no "skipped"; only reset_image_embedding_states does, for all.          *)
(***************************************************************************)
THEOREM VerdictsAreFinal == Spec => SkippedIsFinal
<1> DEFINE Inv == TypeInv /\ StoreInv /\ VerdictInv
           Final == \A c \in Captures : imgState[c] = "skipped" /\ imgState'[c] # "skipped"
                      => \A d \in Captures : imgState'[d] = "none"
<1>1. Init => Inv
  BY InitTypeInv, SpacesAssumption
  DEF Init, StoreInv, Homogeneous, UnknownEmpty, Emptied, ReadyToInsert, NoVectors,
      VerdictInv, NothingStored, NotGivenUp, Stores
<1>2. Inv /\ [Next]_vars => Inv'
  BY TypeStep, StoreStep, VerdictInvStep
<1>3. Inv /\ [Next]_vars => [Final]_vars
  <2> SUFFICES ASSUME Inv, [Next]_vars PROVE Final
    OBVIOUS
  <2>1. VerdictStep /\ imgState \in [Captures -> ImageStates]
    BY VerdictSteps DEF TypeInv, WorkType
  <2> QED BY <2>1 DEF VerdictStep
<1> QED BY <1>1, <1>2, <1>3, PTL DEF Spec, SkippedIsFinal

-----------------------------------------------------------------------------
(* Without faults: what a pass has begun it ends, so each statement is     *)
(* followed by those that make it good.                                    *)

LEMMA NoFaults ==
  ASSUME MaxFaults = 0, EnvType
  PROVE  ~Interrupt /\ ~ReadError
  BY DEF EnvType, Interrupt, ReadError

\* What follows the clearing of a store or the lowering of a flag.
LEMMA RequeuingStep ==
  ASSUME MaxFaults = 0, EnvType, [Next]_vars, NEW s \in Stores, Requeuing(s)
  PROVE  \/ Requeuing(s)' /\ UNCHANGED <<sem, work, hist>>
         \/ Requeue(s) /\ UNCHANGED sem
  BY NoFaults
  DEF Requeuing, Next, EnrichStep, SpaceCheck, FlagCheck, Queues, TextLeg, ImageSettle,
      ImageLeg, StoreVector, vars, ctl, StartPass, SpaceSame, SpaceChanged, SpaceRequeue,
      SpaceLabel, FlagDown, LowerFlag, FlagRequeue, Select, TakeBackfill, BackfillDrained,
      TakeFresh, FreshDrained, TextSettled, EmbedText, TextRefused, TextDisabled, TextRetry,
      AskTopics, AttachTopic, TopicsDone, SkipImages, NoImageToken, AlreadyEmbedded,
      AlreadySkipped, NeverEmbeddable, ObjectMissing, EmbedImage, ToEmbed, AtImageStep,
      AtImage, ImageRefused, ImageDisabled, ImageRetry, ImageDone, MarkProcessed, StoreSame,
      StoreClear, StoreRequeue, StoreRelabel, StoreInsert, OkAnswer, InsertCapture,
      ServiceChanges

\* How the vectors may change: a store is cleared and its captures are about
\* to be re-queued, or the capture in hand gets a vector.
LEMMA VectorSteps ==
  ASSUME TypeInv, [Next]_vars
  PROVE  \/ ~StoreInsert /\ UNCHANGED vecs
         \/ /\ SpaceChanged \/ StoreClear
            /\ Requeuing(leg)' /\ leg' = leg
            /\ \A s \in Stores \ {leg} : vecs'[s] = vecs[s]
         \/ /\ StoreInsert /\ cur \in Captures /\ leg \in Stores
            /\ vecs'[leg][cur] # <<>>
            /\ \A s \in Stores, c \in Captures : s # leg \/ c # cur => vecs'[s][c] = vecs[s][c]
<1>0. SemType /\ leg \in Stores /\ (pc = "insert" => cur \in Captures /\ answer.space \in Labels)
  BY BoundsAssumption
  DEF TypeInv, RowsType, CtlInv, CtlType, InHand, AnswerUsable, Captures, Rows, Labels
<1>1. CASE SpaceChanged \/ StoreClear
  BY <1>0, <1>1 DEF SpaceChanged, StoreClear, ClearStore, SemType, Goto, Requeuing
<1>2. CASE StoreInsert
  <2>1. /\ vecs' = [vecs EXCEPT ![leg][cur] = Append(@, answer.space)]
        /\ cur \in Captures /\ answer.space \in Labels /\ vecs[leg][cur] \in Seq(Labels)
    BY <1>0, <1>2 DEF StoreInsert, InsertVector, SemType
  <2>2. vecs'[leg][cur] = Append(vecs[leg][cur], answer.space)
    BY <1>0, <2>1 DEF SemType
  <2>3. vecs'[leg][cur] # <<>>
    BY <2>1, <2>2
  <2>4. \A s \in Stores, c \in Captures : s # leg \/ c # cur => vecs'[s][c] = vecs[s][c]
    BY <1>0, <2>1 DEF SemType
  <2> QED BY <1>0, <1>2, <2>1, <2>3, <2>4
<1> QED
  BY <1>1, <1>2, Frame DEF SpaceSame, SpaceLabel, StoreSame, StoreRelabel, SetSpaceId, sem

\* A text vector that was not there before is that of the capture in hand.
LEMMA TextVectorAdded ==
  ASSUME TypeInv, [Next]_vars, NEW c \in Captures,
         vecs["text"][c] = <<>>, vecs'["text"][c] # <<>>
  PROVE  StoreInsert /\ leg = "text" /\ c = cur
<1>0. "text" \in Stores /\ vecs \in [Stores -> [Captures -> Seq(Labels)]]
  BY DEF TypeInv, SemType, Stores
<1>1. CASE SpaceChanged \/ StoreClear
  <2>1. vecs' = [vecs EXCEPT ![leg] = NoVectors]
    BY <1>1 DEF SpaceChanged, StoreClear, ClearStore
  <2>2. CASE leg = "text"
    BY <1>0, <2>1, <2>2 DEF NoVectors
  <2>3. CASE leg # "text"
    <3>1. vecs'["text"] = vecs["text"]
      BY <1>0, <2>1, <2>3
    <3> QED BY <3>1
  <2> QED BY <2>2, <2>3
<1> QED BY <1>0, <1>1, VectorSteps

\* The topics still to be attached are all that is missing, or none were given.
TopicsInHand ==
  pc = "attach" => Titles \subseteq topics[cur] \cup pass.titles \/ cur \in untitled

\* Topics are never taken back, and are attached before anything else is done.
LEMMA TopicSteps ==
  ASSUME MaxFaults = 0, EnvType, [Next]_vars
  PROVE  /\ AttachTopic \/ UNCHANGED topics
         /\ AskTopics \/ UNCHANGED untitled
         /\ pc = "topics" => AskTopics \/ UNCHANGED <<pc, cur>>
         /\ pc = "attach" => AttachTopic \/ TopicsDone \/ UNCHANGED <<pc, cur, pass>>
         /\ pc' = "attach" => pc = "attach" \/ AskTopics
  BY NoFaults
  DEF Next, EnrichStep, SpaceCheck, FlagCheck, Queues, TextLeg, ImageSettle, ImageLeg,
      StoreVector, vars, ctl, work, hist, StartPass, SpaceSame, SpaceChanged, SpaceRequeue,
      SpaceLabel, AfterSpace, FlagDown, LowerFlag, FlagRequeue, AfterFlag, Requeue, Goto, Select,
      EndPass, TakeBackfill, BackfillDrained, TakeFresh, FreshDrained, Touch, TextSettled,
      EmbedText, TextRefused, TextDisabled, TextRetry, AskTopics, AttachTopic, TopicsDone,
      EndImageLeg, SkipImages, NoImageToken, SetImageState, AlreadyEmbedded, AlreadySkipped,
      NeverEmbeddable, ObjectMissing, EmbedImage, ToEmbed, AtImageStep, AtImage, ImageRefused,
      ImageDisabled, ImageRetry, ImageDone, MarkProcessed, StoreSame, StoreClear, StoreRequeue,
      StoreRelabel, StoreInsert, OkAnswer, InsertCapture, ServiceChanges

\* What the three topic steps do to the topics.
LEMMA TopicEffects ==
  ASSUME TypeInv, TopicsInHand
  PROVE  /\ AskTopics => cur' = cur /\ pc' = "attach" /\ TopicsInHand'
                         /\ untitled \ {cur} \subseteq untitled'
         /\ AttachTopic => UNCHANGED <<pc, cur, untitled>> /\ TopicsInHand'
                           /\ \A c \in Captures : topics[c] \subseteq topics'[c]
         /\ pc = "attach" /\ TopicsDone => topics[cur] = Titles \/ cur \in untitled
<1>0. /\ topics \in [Captures -> SUBSET Titles] /\ pass \in PassType
      /\ pc \in {"topics", "attach"} => cur \in Captures
  BY BoundsAssumption
  DEF TypeInv, RowsType, WorkType, CtlInv, CtlType, InHand, Rows, Captures
<1>1. CASE AskTopics
  BY <1>0, <1>1 DEF AskTopics, Goto, TopicsInHand, PassType, work, TopicsDone, AttachTopic
<1>2. CASE AttachTopic
  <2>1. PICK t \in pass.titles : /\ topics' = [topics EXCEPT ![cur] = @ \cup {t}]
                                /\ pass' = [pass EXCEPT !.titles = @ \ {t}]
    BY <1>2 DEF AttachTopic
  <2>2. UNCHANGED <<pc, cur, untitled>> /\ cur \in Captures
    BY <1>0, <1>2 DEF AttachTopic, hist
  <2>3. pass'.titles = pass.titles \ {t}
    BY <1>0, <2>1 DEF PassType
  <2>4. topics'[cur] = topics[cur] \cup {t}
    BY <1>0, <2>1, <2>2
  <2>5. TopicsInHand'
    BY <2>2, <2>3, <2>4 DEF TopicsInHand
  <2>6. \A c \in Captures : topics[c] \subseteq topics'[c]
    BY <1>0, <2>1
  <2> QED BY <1>2, <2>2, <2>5, <2>6 DEF AskTopics, AttachTopic, TopicsDone
<1>3. pc = "attach" /\ TopicsDone => topics[cur] = Titles \/ cur \in untitled
  BY <1>0 DEF TopicsDone, TopicsInHand
<1> QED BY <1>1, <1>2, <1>3

(***************************************************************************)
(* Without crashes and storage errors a text vector is followed by all its *)
(* topics, or by the one call of /topics that gave nothing: they are asked *)
(* for and attached before the pass does anything else (Embedder::topics   *)
(* and attach_topic in enrich.rs).                                         *)
(***************************************************************************)
THEOREM TopicsAlwaysFollow == ASSUME MaxFaults = 0 PROVE Spec => []TopicsFollowVector
<1> DEFINE Inv == TypeInv /\ TopicsFollowVector /\ TopicsInHand
<1>1. Init => Inv
  BY InitTypeInv DEF Init, TopicsFollowVector, TopicsInHand, HasItem, Stores, NoVectors
<1>2. ASSUME Inv, [Next]_vars PROVE Inv'
  <2>0. EnvType /\ "text" \in Stores /\ topics \in [Captures -> SUBSET Titles]
    BY <1>2 DEF TypeInv, WorkType, Stores
  <2>1. TypeInv'
    BY <1>2, TypeStep
  <2>2. TopicsInHand'
    <3>1. CASE AskTopics \/ AttachTopic
      BY <1>2, <3>1, TopicEffects
    <3>2. CASE ~AskTopics /\ ~AttachTopic
      BY <1>2, <2>0, <3>2, TopicSteps DEF TopicsInHand, TopicsDone, Goto
    <3> QED BY <3>1, <3>2
  <2>3. ASSUME NEW c \in Captures, vecs'["text"][c] # <<>>
        PROVE  topics'[c] = Titles \/ AttachingTopics(c)' \/ c \in untitled'
    <3>1. CASE vecs["text"][c] = <<>>
      <4>1. StoreInsert /\ leg = "text" /\ c = cur
        BY <1>2, <2>0, <2>3, <3>1, TextVectorAdded
      <4> QED BY <4>1 DEF StoreInsert, Goto, AttachingTopics
    <3>2. CASE vecs["text"][c] # <<>> /\ topics[c] = Titles
      <4>1. topics'[c] \in SUBSET Titles
        BY <2>1, <2>3 DEF TypeInv, WorkType
      <4> QED BY <1>2, <2>0, <2>3, <3>2, <4>1, TopicSteps, TopicEffects
    <3>3. CASE AttachingTopics(c)
      BY <1>2, <2>0, <3>3, TopicSteps, TopicEffects DEF AttachingTopics, TopicsDone, hist, work
    <3>4. CASE c \in untitled
      BY <1>2, <2>0, <3>4, TopicSteps, TopicEffects DEF AttachingTopics
    <3> QED BY <1>2, <2>3, <3>1, <3>2, <3>3, <3>4 DEF TopicsFollowVector, HasItem
  <2> QED BY <2>1, <2>2, <2>3 DEF TopicsFollowVector, HasItem
<1> QED BY <1>1, <1>2, PTL DEF Spec

\* A vector that was inserted is recorded next.
InsertedNow == pc = "done" => leg = "image" /\ cur \in Captures /\ vecs["image"][cur] # <<>>

\* Who records "done", and when the pass is about to.
LEMMA DoneSteps ==
  ASSUME TypeInv, [Next]_vars
  PROVE  /\ \A c \in Captures : imgState'[c] = "done"
              => \/ imgState[c] = "done"
                 \/ c = cur /\ (pc = "done" \/ HasItem("image", c)) /\ UNCHANGED sem
         /\ pc' = "done" => \/ StoreInsert /\ leg = "image" /\ UNCHANGED <<leg, cur>>
                            \/ UNCHANGED <<pc, leg, cur, sem>>
<1>0. imgState \in [Captures -> ImageStates] /\ leg \in Stores
  BY DEF TypeInv, WorkType, CtlInv, CtlType
<1>1. \A c \in Captures : imgState'[c] = "done"
        => \/ imgState[c] = "done"
           \/ c = cur /\ (pc = "done" \/ HasItem("image", c)) /\ UNCHANGED sem
  BY <1>0
  DEF Next, EnrichStep, SpaceCheck, FlagCheck, Queues, TextLeg, ImageSettle, ImageLeg,
      StoreVector, vars, work, StartPass, SpaceSame, SpaceChanged, SpaceRequeue, SpaceLabel,
      FlagDown, LowerFlag, FlagRequeue, Requeue, Select, TakeBackfill, BackfillDrained,
      TakeFresh, FreshDrained, Touch, TextSettled, EmbedText, TextRefused, TextDisabled,
      TextRetry, AskTopics, AttachTopic, TopicsDone, SkipImages, NoImageToken, SetImageState,
      AlreadyEmbedded, AlreadySkipped, NeverEmbeddable, ObjectMissing, ReadError, EmbedImage,
      ImageRefused, ImageDisabled, ImageRetry, ImageDone, MarkProcessed, StoreSame, StoreClear,
      StoreRequeue, StoreRelabel, StoreInsert, InsertCapture, ServiceChanges, Interrupt
<1>2. pc' = "done" => \/ StoreInsert /\ leg = "image" /\ UNCHANGED <<leg, cur>>
                      \/ UNCHANGED <<pc, leg, cur, sem>>
  BY <1>0
  DEF Next, EnrichStep, SpaceCheck, FlagCheck, Queues, TextLeg, ImageSettle, ImageLeg,
      StoreVector, vars, ctl, Stores, Goto, StartPass, SpaceSame, SpaceChanged, SpaceRequeue,
      SpaceLabel, AfterSpace, FlagDown, LowerFlag, FlagRequeue, AfterFlag, Select, EndPass,
      TakeBackfill, BackfillDrained, TakeFresh, FreshDrained, TextSettled, EmbedText,
      TextRefused, TextDisabled, TextRetry, AskTopics, AttachTopic, TopicsDone, EndImageLeg,
      SkipImages, NoImageToken, AlreadyEmbedded, AlreadySkipped, NeverEmbeddable,
      ObjectMissing, ReadError, EmbedImage, ImageRefused, ImageDisabled, ImageRetry, ImageDone,
      MarkProcessed, StoreSame, StoreClear, StoreRequeue, StoreRelabel, StoreInsert,
      InsertCapture, ServiceChanges, Interrupt
<1> QED BY <1>1, <1>2

(***************************************************************************)
(* Without crashes and storage errors an image recorded as embedded has    *)
(* its vector, or the row is about to be reset: the row follows the insert *)
(* and the reset follows the clearing (embed_image, store_image_vector and *)
(* align_spaces).                                                          *)
(***************************************************************************)
THEOREM DoneIsNeverAhead == ASSUME MaxFaults = 0 PROVE Spec => []DoneHasVector
<1> DEFINE Inv == TypeInv /\ DoneHasVector /\ InsertedNow
<1>1. Init => Inv
  BY InitTypeInv DEF Init, DoneHasVector, InsertedNow
<1>2. ASSUME Inv, [Next]_vars PROVE Inv'
  <2>0. EnvType /\ "image" \in Stores /\ "text" # "image"
    BY <1>2 DEF TypeInv, Stores
  <2>1. TypeInv'
    BY <1>2, TypeStep
  <2>2. InsertedNow'
    <3>1. CASE StoreInsert /\ leg = "image" /\ UNCHANGED <<leg, cur>>
      <4>1. vecs'[leg][cur] # <<>> /\ cur \in Captures
        BY <1>2, <3>1, VectorSteps DEF StoreInsert, SpaceChanged, StoreClear, OkAnswer
      <4> QED BY <3>1, <4>1 DEF InsertedNow
    <3>2. CASE UNCHANGED <<pc, leg, cur, sem>>
      BY <1>2, <3>2 DEF InsertedNow, sem
    <3> QED BY <1>2, <3>1, <3>2, DoneSteps DEF InsertedNow
  <2>3. DoneHasVector'
    <3> SUFFICES ASSUME NEW c \in Captures, imgState'[c] = "done"
                 PROVE  vecs'["image"][c] # <<>> \/ Requeuing("image")'
      BY DEF DoneHasVector, HasItem
    <3>1. CASE imgState[c] # "done"
      BY <1>2, <3>1, DoneSteps DEF InsertedNow, HasItem, sem
    <3>2. CASE imgState[c] = "done" /\ Requeuing("image")
      BY <1>2, <2>0, <3>2, RequeuingStep DEF Requeue
    <3>3. CASE vecs["image"][c] # <<>>
      BY <1>2, <2>0, <3>3, VectorSteps
    <3> QED BY <1>2, <3>1, <3>2, <3>3 DEF DoneHasVector, HasItem
  <2> QED BY <2>1, <2>2, <2>3
<1> QED BY <1>1, <1>2, PTL DEF Spec

\* A text that can be embedded is, unless its route was absent or it was refused.
Settled(c) == text[c] = "good" /\ vecs["text"][c] = <<>> => unavail["text"] \/ c \in ruled

\* The pass has finished with the text of a new capture and owes it no retry.
TextAnswered ==
  /\ pass.queue = "fresh" /\ ~pass.textRetry
  /\ \/ pc \in {"topics", "attach", "image", "done", "mark"}
     \/ pc \in {"record", "rebuild", "relabel", "insert"} /\ leg = "image"

ForgetsNothing ==
  /\ \A c \in processed : Settled(c) \/ Requeuing("text")
  /\ TextAnswered => Settled(cur)
  /\ pc = "mark" => TextAnswered

\* A settled capture stays settled until the texts are re-queued.
LEMMA SettledKept ==
  ASSUME TypeInv, [Next]_vars, NEW c \in Rows, Settled(c), ~Requeuing("text")
  PROVE  Settled(c)' \/ Requeuing("text")'
<1>0. /\ c \in Captures /\ unavail \in [Stores -> BOOLEAN] /\ "text" \in Stores
      /\ "text" # "image" /\ leg \in Stores
  BY BoundsAssumption DEF TypeInv, RowsType, WorkType, CtlInv, CtlType, Captures, Rows, Stores
<1>1. text'[c] = text[c]
  <2>1. CASE InsertCapture
    BY <1>0, <2>1, BoundsAssumption DEF InsertCapture, TypeInv, RowsType, Rows, Captures
  <2>2. CASE UNCHANGED rows
    BY <2>2 DEF rows
  <2> QED BY <2>1, <2>2, Frame
<1>2. vecs["text"][c] # <<>> => vecs'["text"][c] # <<>> \/ Requeuing("text")'
  BY <1>0, VectorSteps DEF Stores
<1>3. (unavail["text"] => unavail'["text"] \/ Requeuing("text")') /\ ruled \subseteq ruled'
  BY <1>0
  DEF Requeuing, Next, EnrichStep, SpaceCheck, FlagCheck, Queues, TextLeg, ImageSettle,
      ImageLeg, StoreVector, vars, work, hist, StartPass, SpaceSame, SpaceChanged,
      SpaceRequeue, SpaceLabel, FlagDown, LowerFlag, FlagRequeue, Requeue, Goto, Stores,
      Select, TakeBackfill, BackfillDrained, TakeFresh, FreshDrained, Touch, TextSettled,
      EmbedText, TextRefused, TextDisabled, TextRetry, AskTopics, AttachTopic, TopicsDone,
      SkipImages, NoImageToken, SetImageState, AlreadyEmbedded, AlreadySkipped,
      NeverEmbeddable, ObjectMissing, ReadError, EmbedImage, ImageRefused, ImageDisabled,
      ImageRetry, ImageDone, MarkProcessed, StoreSame, StoreClear, StoreRequeue, StoreRelabel,
      StoreInsert, InsertCapture, ServiceChanges, Interrupt
<1> QED BY <1>1, <1>2, <1>3 DEF Settled

\* How the pass gets past the text of a new capture.
LEMMA AnsweredSteps ==
  ASSUME TypeInv, [Next]_vars, TextAnswered'
  PROVE  /\ cur' = cur
         /\ \/ TextAnswered
            \/ TextSettled \/ TextRefused \/ TextDisabled
            \/ StoreInsert /\ leg = "text"
<1>0. pass \in PassType /\ leg \in Stores
  BY DEF TypeInv, CtlInv, CtlType
<1>1. CASE StartPass \/ SpaceCheck \/ FlagCheck
  BY <1>0, <1>1
  DEF TextAnswered, PassType, Stores, SpaceCheck, FlagCheck, ctl, Goto, StartPass, SpaceSame,
      SpaceChanged, SpaceRequeue, SpaceLabel, AfterSpace, FlagDown, LowerFlag, FlagRequeue,
      AfterFlag
<1>2. CASE Queues
  BY <1>0, <1>2
  DEF TextAnswered, PassType, Stores, Queues, ctl, Goto, Select, EndPass, TakeBackfill,
      BackfillDrained, TakeFresh, FreshDrained
<1>3. CASE TextLeg
  BY <1>0, <1>3
  DEF TextAnswered, PassType, Stores, TextLeg, ctl, Goto, EmbedText, TextRetry, AskTopics,
      AttachTopic, TopicsDone, TextSettled, TextRefused, TextDisabled
<1>4. CASE ImageSettle
  BY <1>0, <1>4
  DEF TextAnswered, PassType, Stores, ImageSettle, ctl, Goto, EndImageLeg, AtImage, SkipImages,
      NoImageToken, AlreadyEmbedded, AtImageStep, AlreadySkipped, ToEmbed, NeverEmbeddable,
      ObjectMissing
<1>5. CASE ImageLeg
  BY <1>0, <1>5
  DEF TextAnswered, PassType, Stores, ImageLeg, ctl, Goto, EndImageLeg, AtImage, AtImageStep,
      ToEmbed, EmbedImage, ImageRefused, ImageDisabled, ImageRetry, ImageDone
<1>6. CASE StoreVector \/ MarkProcessed
  BY <1>0, <1>6
  DEF TextAnswered, PassType, Stores, StoreVector, ctl, Goto, MarkProcessed, StoreSame,
      StoreClear, StoreRequeue, StoreRelabel, StoreInsert, OkAnswer
<1>7. CASE ReadError \/ InsertCapture \/ ServiceChanges \/ Interrupt \/ UNCHANGED vars
  BY <1>0, <1>7
  DEF TextAnswered, PassType, Stores, vars, ctl, Goto, AtImage, EndPass, EndImageLeg,
      AtImageStep, ToEmbed, ReadError, InsertCapture, ServiceChanges, Interrupt
<1> QED
  BY <1>1, <1>2, <1>3, <1>4, <1>5, <1>6, <1>7 DEF Next, EnrichStep

\* Only a new capture whose text needs no retry is marked.
LEMMA MarkSteps ==
  ASSUME TypeInv, [Next]_vars
  PROVE  /\ \A c \in processed' : c \in processed \/ (pc = "mark" /\ c = cur)
         /\ pc' = "mark" => TextAnswered' \/ (pc = "mark" /\ UNCHANGED <<pc, pass>>)
<1>0. pass \in PassType
  BY DEF TypeInv, CtlInv, CtlType
<1>1. processed' \in {processed, {}} \/ MarkProcessed
  BY DEF Next, EnrichStep, SpaceCheck, FlagCheck, Queues, TextLeg, ImageSettle, ImageLeg,
         StoreVector, vars, work, StartPass, SpaceSame, SpaceChanged, SpaceRequeue, SpaceLabel,
         FlagDown, LowerFlag, FlagRequeue, Requeue, Select, TakeBackfill, BackfillDrained,
         TakeFresh, FreshDrained, Touch, TextSettled, EmbedText, TextRefused, TextDisabled,
         TextRetry, AskTopics, AttachTopic, TopicsDone, SkipImages, NoImageToken,
         SetImageState, AlreadyEmbedded, AlreadySkipped, NeverEmbeddable, ObjectMissing,
         ReadError, EmbedImage, ImageRefused, ImageDisabled, ImageRetry, ImageDone, StoreSame,
         StoreClear, StoreRequeue, StoreRelabel, StoreInsert, InsertCapture, ServiceChanges,
         Interrupt
<1>2. \A c \in processed' : c \in processed \/ (pc = "mark" /\ c = cur)
  BY <1>1 DEF MarkProcessed
<1>3. ASSUME NEW outcome, EndImageLeg(outcome) PROVE pc' = "mark" => TextAnswered'
  BY <1>0, <1>3 DEF EndImageLeg, Goto, TextAnswered, PassType
<1>4. CASE ImageSettle \/ ReadError \/ ImageRefused \/ ImageDisabled \/ ImageRetry \/ ImageDone
  BY <1>2, <1>3, <1>4
  DEF ImageSettle, SkipImages, NoImageToken, AlreadyEmbedded, AlreadySkipped, NeverEmbeddable,
      ObjectMissing, ReadError, ImageRefused, ImageDisabled, ImageRetry, ImageDone
<1>5. CASE ~(ImageSettle \/ ReadError \/ ImageRefused \/ ImageDisabled \/ ImageRetry \/ ImageDone)
  <2>1. pc' = "mark" => pc = "mark" /\ UNCHANGED <<pc, pass>>
    BY <1>5
    DEF Next, EnrichStep, SpaceCheck, FlagCheck, Queues, TextLeg, ImageLeg, StoreVector, vars,
        ctl, Goto, StartPass, SpaceSame, SpaceChanged, SpaceRequeue, SpaceLabel, AfterSpace,
        FlagDown, LowerFlag, FlagRequeue, AfterFlag, Select, EndPass, TakeBackfill,
        BackfillDrained, TakeFresh, FreshDrained, TextSettled, EmbedText, TextRefused,
        TextDisabled, TextRetry, AskTopics, AttachTopic, TopicsDone, EmbedImage, MarkProcessed,
        StoreSame, StoreClear, StoreRequeue, StoreRelabel, StoreInsert, InsertCapture,
        ServiceChanges, Interrupt
  <2> QED BY <1>2, <2>1
<1> QED BY <1>4, <1>5

(***************************************************************************)
(* Without crashes and storage errors no embeddable text is forgotten: a   *)
(* capture marked as processed has its vector or was refused, or the flag  *)
(* or the step that queues it again is there (enrich_capture, embed_text   *)
(* and the flags that enrich_once lowers).                                 *)
(***************************************************************************)
THEOREM TextsAreNotForgotten == ASSUME MaxFaults = 0 PROVE Spec => []NoTextForgotten
<1> DEFINE Inv == TypeInv /\ ForgetsNothing
<1>1. Init => Inv
  BY InitTypeInv DEF Init, ForgetsNothing, TextAnswered
<1>2. ASSUME Inv, [Next]_vars PROVE Inv'
  <2>0. /\ EnvType /\ processed \subseteq Rows /\ "text" \in Stores /\ "text" # "image"
        /\ (TextAnswered => cur \in Rows /\ ~Requeuing("text"))
    BY <1>2
    DEF TypeInv, WorkType, Stores, CtlInv, InHand, TextAnswered, Requeuing
  <2>1. TypeInv'
    BY <1>2, TypeStep
  <2>2. ASSUME NEW c \in processed' PROVE Settled(c)' \/ Requeuing("text")'
    <3>1. CASE Requeuing("text")
      BY <1>2, <2>0, <2>2, <3>1, RequeuingStep DEF Requeue
    <3>2. CASE ~Requeuing("text") /\ c \in processed
      BY <1>2, <2>0, <3>2, SettledKept DEF ForgetsNothing
    <3>3. CASE c \notin processed
      <4>1. TextAnswered /\ c = cur
        BY <1>2, <2>2, <3>3, MarkSteps DEF ForgetsNothing
      <4> QED BY <1>2, <2>0, <4>1, SettledKept DEF ForgetsNothing
    <3> QED BY <3>1, <3>2, <3>3
  <2>3. ASSUME TextAnswered' PROVE Settled(cur)'
    <3>0. cur' = cur /\ ~Requeuing("text")'
      BY <1>2, <2>3, AnsweredSteps DEF TextAnswered, Requeuing
    <3>1. CASE TextAnswered
      BY <1>2, <2>0, <3>0, <3>1, SettledKept DEF ForgetsNothing, Settled
    <3>2. CASE TextSettled
      BY <3>0, <3>2 DEF TextSettled, HasItem, Settled, rows, sem
    <3>3. CASE TextRefused
      BY <3>0, <3>3 DEF TextRefused, Settled
    <3>4. CASE TextDisabled
      BY <1>2, <3>0, <3>4 DEF TextDisabled, Settled, TypeInv, WorkType, Stores
    <3>5. CASE StoreInsert /\ leg = "text"
      BY <1>2, <3>0, <3>5, VectorSteps
      DEF Settled, StoreInsert, SpaceChanged, StoreClear, OkAnswer
    <3> QED BY <1>2, <2>3, <3>1, <3>2, <3>3, <3>4, <3>5, AnsweredSteps
  <2>4. pc' = "mark" => TextAnswered'
    BY <1>2, MarkSteps DEF ForgetsNothing, TextAnswered
  <2> QED BY <2>1, <2>2, <2>3, <2>4 DEF ForgetsNothing
<1>3. Inv => NoTextForgotten
  BY DEF ForgetsNothing, Settled, NoTextForgotten, HasItem
<1> QED BY <1>1, <1>2, <1>3, PTL DEF Spec

=============================================================================
