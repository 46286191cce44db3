---------------------------- MODULE ViewsProofs ----------------------------
(***************************************************************************)
(* Proofs about Views, for any number of captures, any searches, page      *)
(* sizes and spaces, and any number of inserts, rebuilds, wipes and        *)
(* failures beside the reader.                                             *)
(***************************************************************************)
EXTENDS Views, FiniteSetTheorems, SequenceTheorems, TLAPS

-----------------------------------------------------------------------------
(* The stores.  Captures are stored in their order, so a capture's id is   *)
(* its number, and the one in the broker's hand is the next.               *)

TablesInv ==
  /\ seq \in 0 .. NumCaptures
  /\ rowid = [c \in Captures |-> IF c <= seq THEN c ELSE 0]
  /\ storing = 0 \/ (storing = seq + 1 /\ storing \in Captures)
  /\ rows \subseteq Captures /\ \A c \in rows : c <= seq
  /\ related \subseteq rows
  /\ indexed \subseteq Captures /\ \A c \in indexed : c <= seq
  /\ named \subseteq Captures
  /\ objects \subseteq Captures /\ \A c \in objects : c <= seq \/ c = storing
  /\ ts \in [Captures -> Nat \ {0}]
  /\ scenario \in [stored : SUBSET Captures, space : Labels, reader : Readers,
                   inserts : Nat, moves : Nat, wipes : Nat, faults : Nat]

\* A store: its vectors are of its label and of the capture with their id.
StoreInv(label, vecs, from) ==
  /\ label \in Labels
  /\ from \in [Ids -> Captures \cup {0}]
  /\ vecs \in [Ids -> {<<>>, <<label>>}]
  /\ \A id \in Ids : vecs[id] # <<>> => label # Unknown /\ from[id] = id

VectorsInv ==
  /\ source \in [{"text", "image"} -> [Ids -> Captures \cup {0}]]
  /\ StoreInv(textLabel, textVecs, source["text"])
  /\ StoreInv(imageLabel, imageVecs, source["image"])

\* What the wipe has deleted so far stays deleted.
WipeInv ==
  /\ wipe \in Wiping \cup {"none", "done", "failed"}
  /\ canonical \in BOOLEAN
  /\ doomed \subseteq Captures /\ \A c \in doomed : c <= seq
  /\ canonical /\ wipe \in {"relations", "index", "rows", "done"} => doomed \cap objects = {}
  /\ wipe \in {"index", "rows", "done"} => doomed \cap related = {}
  /\ wipe \in {"rows", "done"} => doomed \cap indexed = {}
  /\ wipe = "done" => doomed \cap rows = {}

StoresInv == TablesInv /\ VectorsInv /\ WipeInv

LEMMA StoresInit == ViewsInit => StoresInv
<1> SUFFICES ASSUME ViewsInit PROVE StoresInv
  OBVIOUS
<1> USE StoresAssumption, ScenariosAssumption DEF ViewsInit, Init, Captures, Ids
<1>1. rows \subseteq 1 .. NumCaptures /\ rows = 1 .. seq /\ seq \in 0 .. NumCaptures
  <2>1. rows \subseteq 1 .. NumCaptures
    OBVIOUS
  <2>2. IsFiniteSet(1 .. NumCaptures) /\ Cardinality(1 .. NumCaptures) = NumCaptures
    BY FS_Interval
  <2>3. Cardinality(rows) \in Nat /\ Cardinality(rows) <= NumCaptures
    BY <2>1, <2>2, FS_Subset, FS_CardinalityType
  <2> QED
    BY <2>1, <2>3
<1>2. TablesInv
  <2>1. rowid = [c \in Captures |-> IF c <= seq THEN c ELSE 0]
    <3>1. rowid = [c \in Captures |-> IF c \in rows THEN c ELSE 0]
      OBVIOUS
    <3> HIDE DEF ViewsInit, Init
    <3>2. \A c \in Captures : c \in rows <=> c <= seq
      BY <1>1
    <3> HIDE DEF Captures, Ids
    <3> QED
      BY <3>1, <3>2
  <2>2. ts \in [Captures -> Nat \ {0}]
    OBVIOUS
  <2>3. storing = 0 /\ related = rows /\ indexed = rows /\ objects = rows /\ named = rows
    OBVIOUS
  <2>4. scenario \in [stored : SUBSET Captures, space : Labels, reader : Readers,
                      inserts : Nat, moves : Nat, wipes : Nat, faults : Nat]
    OBVIOUS
  <2> HIDE DEF ViewsInit, Init
  <2>5. rows \subseteq Captures /\ \A c \in rows : c <= seq
    BY <1>1
  <2> HIDE DEF Captures, Ids
  <2> QED
    BY <1>1, <2>1, <2>2, <2>3, <2>4, <2>5 DEF TablesInv
<1>3. VectorsInv
  <2>1. Given = rows
    BY <1>1 DEF Given
  <2>2. /\ source \in [{"text", "image"} -> [Ids -> Captures \cup {0}]]
        /\ \A id \in rows : source["text"][id] = id /\ source["image"][id] = id
    BY <1>1
  <2>3. /\ textLabel \in Labels /\ imageLabel = textLabel /\ imageVecs = textVecs
        /\ textVecs \in [Ids -> {<<>>, <<textLabel>>}]
        /\ \A id \in Ids : textVecs[id] # <<>> => id \in rows /\ textLabel # Unknown
    BY <2>1
  <2> QED
    BY <2>2, <2>3 DEF VectorsInv, StoreInv
<1>4. WipeInv
  BY DEF WipeInv
<1> QED
  BY <1>2, <1>3, <1>4 DEF StoresInv

-----------------------------------------------------------------------------
(* A step of a writer *)

LEMMA SpendType ==
  ASSUME TablesInv, NEW what \in {"inserts", "moves", "wipes", "faults"}, Spend(what)
  PROVE  /\ scenario' \in [stored : SUBSET Captures, space : Labels, reader : Readers,
                           inserts : Nat, moves : Nat, wipes : Nat, faults : Nat]
         /\ scenario'.reader = scenario.reader
<1>1. CASE what = "inserts"
  BY <1>1 DEF Spend, TablesInv
<1>2. CASE what = "moves"
  BY <1>2 DEF Spend, TablesInv
<1>3. CASE what = "wipes"
  BY <1>3 DEF Spend, TablesInv
<1>4. CASE what = "faults"
  BY <1>4 DEF Spend, TablesInv
<1> QED
  BY <1>1, <1>2, <1>3, <1>4

LEMMA BrokerKeeps == StoresInv /\ Broker => StoresInv'
<1> SUFFICES ASSUME StoresInv, Broker PROVE StoresInv'
  OBVIOUS
<1> USE StoresAssumption DEF StoresInv
<1>1. CASE InsertRow
  <2> DEFINE c == seq + 1
  <2>0. /\ c \in Captures /\ storing = c /\ storing' = 0 /\ seq' = c
        /\ seq \in Nat /\ c <= NumCaptures /\ c \notin rows
    BY <1>1 DEF InsertRow, NextId, TablesInv, Captures
  <2>a. /\ rows' = rows \cup {c} /\ related' = related \cup {c} /\ indexed' = indexed \cup {c}
        /\ rowid' = [rowid EXCEPT ![c] = c] /\ objects' = objects /\ ts' = ts
        /\ scenario' = scenario /\ doomed' = doomed /\ wipe' = wipe /\ canonical' = canonical
        /\ named' = named \cup {c}
    BY <1>1, <2>0 DEF InsertRow, NextId, erase
  <2>b. rowid' = [b \in Captures |-> IF b <= seq' THEN b ELSE 0]
    <3>1. \A b \in Captures : rowid[b] = IF b <= seq THEN b ELSE 0
      BY DEF TablesInv
    <3>2. rowid' = [b \in Captures |-> IF b = c THEN c ELSE rowid[b]]
      BY <2>a DEF TablesInv
    <3>3. \A b \in Captures : (IF b = c THEN c ELSE rowid[b]) = IF b <= seq' THEN b ELSE 0
      BY <2>0, <3>1 DEF Captures
    <3> QED
      BY <3>2, <3>3
  <2>1. TablesInv'
    <3>1. seq' \in 0 .. NumCaptures
      BY <2>0
    <3>2. /\ rows' \subseteq Captures /\ related' \subseteq rows'
          /\ indexed' \subseteq Captures /\ objects' \subseteq Captures /\ named' \subseteq Captures
      BY <2>0, <2>a DEF TablesInv
    <3>3. \A b \in rows' \cup indexed' \cup objects' : b <= seq'
      BY <2>0, <2>a DEF TablesInv, Captures
    <3> QED
      BY <2>0, <2>a, <2>b, <3>1, <3>2, <3>3 DEF TablesInv
  <2>2. WipeInv'
    <3>1. c \notin doomed /\ \A b \in doomed : b <= seq'
      BY <2>0 DEF WipeInv, Captures
    <3> QED
      BY <2>0, <2>a, <3>1 DEF WipeInv
  <2>3. VectorsInv'
    BY <1>1 DEF InsertRow, VectorsInv, StoreInv, sem
  <2> QED
    BY <2>1, <2>2, <2>3
<1>2. ASSUME NEW c \in Captures, PutObject(c) PROVE StoresInv'
  <2>a. seq \in Nat
    BY DEF TablesInv
  <2>1. c = seq + 1
    <3>1. c > seq
      BY <1>2 DEF PutObject, TablesInv, Captures
    <3>2. \A b \in Captures : b < c => b <= seq
      BY <1>2 DEF PutObject, TablesInv, Captures
    <3>3. seq + 1 \in Captures
      BY <3>1 DEF TablesInv, Captures
    <3>4. c \in Nat /\ seq \in Nat
      BY <1>2, <2>a DEF Captures
    <3>5. ~(seq + 1 < c)
      BY <3>2, <3>3, <3>4
    <3> QED
      BY <3>1, <3>4, <3>5
  <2>2. TablesInv'
    BY <1>2, <2>1, SpendType DEF PutObject, TablesInv, ukg
  <2>3. WipeInv'
    BY <1>2, <2>1 DEF PutObject, WipeInv, TablesInv, ukg, erase, Captures
  <2>4. VectorsInv'
    BY <1>2 DEF PutObject, VectorsInv, StoreInv, sem
  <2> QED
    BY <2>2, <2>3, <2>4
<1> QED
  BY <1>1, <1>2 DEF Broker

\* What VectorStore allows a writer keeps a store in order.
LEMMA StoreKept ==
  ASSUME NEW label, NEW vecs, NEW from, NEW label2, NEW vecs2, NEW from2,
         StoreInv(label, vecs, from), <<>> # <<label2>>,
         \/ vecs2 = [i \in Ids |-> <<>>] /\ label2 = label /\ from2 = from
         \/ vecs = [i \in Ids |-> <<>>] /\ label2 \in Labels /\ vecs2 = vecs /\ from2 = from
         \/ \E id \in Ids : /\ label # Unknown /\ label2 = label
                            /\ vecs2 = [vecs EXCEPT ![id] = <<label>>]
                            /\ from2 = [from EXCEPT ![id] = id]
  PROVE  StoreInv(label2, vecs2, from2)
<1>1. CASE vecs2 = [i \in Ids |-> <<>>] /\ label2 = label /\ from2 = from
  BY <1>1 DEF StoreInv
<1>2. CASE vecs = [i \in Ids |-> <<>>] /\ label2 \in Labels /\ vecs2 = vecs /\ from2 = from
  BY <1>2 DEF StoreInv
<1>3. ASSUME NEW id \in Ids, label # Unknown, label2 = label,
             vecs2 = [vecs EXCEPT ![id] = <<label>>], from2 = [from EXCEPT ![id] = id]
      PROVE  StoreInv(label2, vecs2, from2)
  BY <1>3 DEF StoreInv, Ids, Captures
<1> QED
  BY <1>1, <1>2, <1>3

LEMMA EnricherKeeps == StoresInv /\ Enricher => StoresInv'
<1> SUFFICES ASSUME StoresInv, Enricher PROVE StoresInv'
  OBVIOUS
<1> USE DEF StoresInv
<1>1. TablesInv' /\ WipeInv'
  BY SpendType DEF Enricher, TablesInv, WipeInv, ukg, erase
<1>2. ASSUME NEW c \in Captures, rowid[c] # 0 PROVE rowid[c] = c /\ c \in Ids
  BY <1>2 DEF TablesInv, Captures, Ids
<1>3. CASE /\ \/ \E c \in Captures : EmbedText(c)
              \/ (TextStore!Clear \/ TextStore!Relabel) /\ UNCHANGED source
           /\ UNCHANGED <<imageLabel, imageVecs>>
  <2>1. StoreInv(textLabel', textVecs', source'["text"]) /\ source'["image"] = source["image"]
        /\ source' \in [{"text", "image"} -> [Ids -> Captures \cup {0}]]
    <3>1. ASSUME NEW c \in Captures, EmbedText(c)
          PROVE  /\ textLabel # Unknown /\ textLabel' = textLabel /\ c \in Ids
                 /\ textVecs' = [textVecs EXCEPT ![c] = <<textLabel>>]
                 /\ source' = [source EXCEPT !["text"][c] = c]
      BY <3>1, <1>2 DEF EmbedText, TextStore!Add
    <3>2. CASE \E c \in Captures : EmbedText(c)
      <4>1. PICK c \in Captures : EmbedText(c)
        BY <3>2, Zenon
      <4>2. /\ source'["text"] = [source["text"] EXCEPT ![c] = c]
            /\ source'["image"] = source["image"]
            /\ source' \in [{"text", "image"} -> [Ids -> Captures \cup {0}]]
        BY <4>1, <3>1 DEF VectorsInv
      <4> QED
        BY <4>1, <4>2, <3>1, StoreKept DEF VectorsInv
    <3>3. CASE TextStore!Clear /\ UNCHANGED source
      <4>1. textVecs' = [i \in Ids |-> <<>>] /\ textLabel' = textLabel
        BY <3>3 DEF TextStore!Clear, TextStore!NoVectors
      <4> QED
        BY <3>3, <4>1, StoreKept DEF VectorsInv
    <3>4. CASE TextStore!Relabel /\ UNCHANGED source
      <4>1. textVecs = [i \in Ids |-> <<>>] /\ textVecs' = textVecs /\ textLabel' \in Labels
        BY <3>4 DEF TextStore!Relabel, TextStore!NoVectors
      <4> QED
        BY <3>4, <4>1, StoreKept DEF VectorsInv
    <3> QED
      BY <1>3, <3>2, <3>3, <3>4
  <2> QED
    BY <1>1, <1>3, <2>1 DEF VectorsInv
<1>4. CASE /\ \/ \E c \in Captures : EmbedImage(c)
              \/ (ImageStore!Clear \/ ImageStore!Relabel) /\ UNCHANGED source
           /\ UNCHANGED <<textLabel, textVecs>>
  <2>1. StoreInv(imageLabel', imageVecs', source'["image"]) /\ source'["text"] = source["text"]
        /\ source' \in [{"text", "image"} -> [Ids -> Captures \cup {0}]]
    <3>1. ASSUME NEW c \in Captures, EmbedImage(c)
          PROVE  /\ imageLabel # Unknown /\ imageLabel' = imageLabel /\ c \in Ids
                 /\ imageVecs' = [imageVecs EXCEPT ![c] = <<imageLabel>>]
                 /\ source' = [source EXCEPT !["image"][c] = c]
      BY <3>1, <1>2 DEF EmbedImage, ImageStore!Add
    <3>2. CASE \E c \in Captures : EmbedImage(c)
      <4>1. PICK c \in Captures : EmbedImage(c)
        BY <3>2, Zenon
      <4>2. /\ source'["image"] = [source["image"] EXCEPT ![c] = c]
            /\ source'["text"] = source["text"]
            /\ source' \in [{"text", "image"} -> [Ids -> Captures \cup {0}]]
        BY <4>1, <3>1 DEF VectorsInv
      <4> QED
        BY <4>1, <4>2, <3>1, StoreKept DEF VectorsInv
    <3>3. CASE ImageStore!Clear /\ UNCHANGED source
      <4>1. imageVecs' = [i \in Ids |-> <<>>] /\ imageLabel' = imageLabel
        BY <3>3 DEF ImageStore!Clear, ImageStore!NoVectors
      <4> QED
        BY <3>3, <4>1, StoreKept DEF VectorsInv
    <3>4. CASE ImageStore!Relabel /\ UNCHANGED source
      <4>1. imageVecs = [i \in Ids |-> <<>>] /\ imageVecs' = imageVecs /\ imageLabel' \in Labels
        BY <3>4 DEF ImageStore!Relabel, ImageStore!NoVectors
      <4> QED
        BY <3>4, <4>1, StoreKept DEF VectorsInv
    <3> QED
      BY <1>4, <3>2, <3>3, <3>4
  <2> QED
    BY <1>1, <1>4, <2>1 DEF VectorsInv
<1> QED
  BY <1>3, <1>4 DEF Enricher

LEMMA WipeKeeps == StoresInv /\ Wipe => StoresInv'
<1> SUFFICES ASSUME StoresInv, Wipe PROVE StoresInv'
  OBVIOUS
<1> USE DEF StoresInv, Wiping
<1>1. CASE WipeBegin
  <2>1. TablesInv'
    BY <1>1, SpendType DEF WipeBegin, TablesInv, ukg
  <2>2. WipeInv'
    BY <1>1 DEF WipeBegin, WipeInv, TablesInv, ukg
  <2>3. VectorsInv'
    BY <1>1 DEF WipeBegin, VectorsInv, StoreInv, sem
  <2> QED
    BY <2>1, <2>2, <2>3
<1>2. CASE WipeStep
  <2>1. TablesInv'
    BY <1>2 DEF WipeStep, TablesInv
  <2>2. WipeInv'
    BY <1>2 DEF WipeStep, WipeInv, TablesInv, InReach
  <2>3. VectorsInv'
    BY <1>2 DEF WipeStep, VectorsInv, StoreInv, sem
  <2> QED
    BY <2>1, <2>2, <2>3
<1>3. CASE WipeFails
  <2>0. objects' \subseteq objects
    BY <1>3 DEF WipeFails
  <2>1. TablesInv'
    BY <1>3, <2>0, SpendType DEF WipeFails, TablesInv, ukg
  <2>2. WipeInv'
    BY <1>3 DEF WipeFails, WipeInv, ukg
  <2>3. VectorsInv'
    BY <1>3 DEF WipeFails, VectorsInv, StoreInv, sem
  <2> QED
    BY <2>1, <2>2, <2>3
<1> QED
  BY <1>1, <1>2, <1>3 DEF Wipe

LEMMA StoresKept == StoresInv /\ StoresNext => StoresInv'
BY BrokerKeeps, EnricherKeeps, WipeKeeps DEF StoresNext

\* What a writer leaves of what a reader has seen: ids are never given again,
\* a capture that is gone stays gone, and times do not change.
LEMMA StoresHistory ==
  ASSUME StoresInv, StoresNext
  PROVE  /\ seq \in Nat /\ seq' \in Nat /\ seq <= seq' /\ ts' = ts
         /\ \A c \in rows' : c \in rows \/ c > seq
         /\ \A c \in related' : c \in related \/ c > seq
         /\ scenario'.reader = scenario.reader
<1> USE StoresAssumption DEF StoresInv
<1> DEFINE Goal == /\ seq \in Nat /\ seq' \in Nat /\ seq <= seq' /\ ts' = ts
                   /\ \A c \in rows' : c \in rows \/ c > seq
                   /\ \A c \in related' : c \in related \/ c > seq
                   /\ scenario'.reader = scenario.reader
<1>1. CASE InsertRow
  BY <1>1 DEF InsertRow, NextId, TablesInv, Captures
<1>2. ASSUME NEW c \in Captures, PutObject(c) PROVE Goal
  BY <1>2, SpendType DEF PutObject, TablesInv, ukg
<1>3. CASE Enricher
  BY <1>3, SpendType DEF Enricher, TablesInv, ukg
<1>4. CASE WipeBegin
  BY <1>4, SpendType DEF WipeBegin, TablesInv, ukg
<1>5. CASE WipeStep
  BY <1>5 DEF WipeStep, TablesInv
<1>6. CASE WipeFails
  BY <1>6, SpendType DEF WipeFails, TablesInv, ukg
<1> QED
  BY <1>1, <1>2, <1>3, <1>4, <1>5, <1>6 DEF StoresNext, Broker, Wipe

-----------------------------------------------------------------------------
(* Sequences and ids *)

\* The domain of a sequence.
LEMMA Places ==
  ASSUME NEW S, NEW q \in Seq(S)
  PROVE  Len(q) \in Nat /\ DOMAIN q = 1 .. Len(q) /\ \A i \in DOMAIN q : q[i] \in S
<1>1. Len(q) \in Nat /\ DOMAIN q = 1 .. Len(q)
  BY LenProperties
<1> QED
  BY <1>1, ElementOfSeq

LEMMA IdsFinite ==
  ASSUME NEW S, S \subseteq Captures
  PROVE  IsFiniteSet(S) /\ Cardinality(S) \in Nat
<1>1. IsFiniteSet(1 .. NumCaptures)
  BY FS_Interval, StoresAssumption
<1> QED
  BY <1>1, FS_Subset, FS_CardinalityType DEF Captures

\* A member of SetToSeqs(S) lists every element of S, once.
LEMMA Listed ==
  ASSUME NEW S, IsFiniteSet(S), NEW p \in SetToSeqs(S)
  PROVE  /\ p \in Seq(S) /\ Len(p) = Cardinality(S) /\ Len(p) \in Nat /\ DOMAIN p = 1 .. Len(p)
         /\ \A i, j \in DOMAIN p : i # j => p[i] # p[j]
         /\ \A x \in S : \E i \in DOMAIN p : p[i] = x
<1> DEFINE n == Cardinality(S)
<1>1. n \in Nat
  BY FS_CardinalityType
<1>2. p \in [1 .. n -> S] /\ \A i, j \in 1 .. n : i # j => p[i] # p[j]
  BY DEF SetToSeqs
<1> HIDE DEF n
<1>3. p \in Seq(S) /\ Len(p) = n /\ DOMAIN p = 1 .. n
  BY <1>1, <1>2
<1>4. ASSUME NEW x \in S, \A i \in 1 .. n : p[i] # x PROVE FALSE
  <2>1. IsFiniteSet(S \ {x}) /\ Cardinality(S \ {x}) = n - 1
    BY FS_RemoveElement DEF n
  <2>2. IsFiniteSet(1 .. n) /\ Cardinality(1 .. n) = n
    BY <1>1, FS_Interval
  <2>3. p \in [1 .. n -> S \ {x}]
    BY <1>2, <1>4
  <2>4. \E i, j \in 1 .. n : i # j /\ p[i] = p[j]
    BY <1>1, <2>1, <2>2, <2>3, FS_PigeonHole
  <2> QED
    BY <1>2, <2>4
<1> QED
  BY <1>1, <1>2, <1>3, <1>4 DEF n

\* The first n elements of a sequence, or all.
LEMMA FirstPart ==
  ASSUME NEW S, NEW p \in Seq(S), NEW n \in Nat,
         NEW q, NEW m, q = SubSeq(p, 1, m), m = IF Len(p) < n THEN Len(p) ELSE n
  PROVE  /\ q \in Seq(S) /\ Len(q) = m /\ m \in Nat /\ m <= n /\ m <= Len(p) /\ DOMAIN q = 1 .. m
         /\ \A i \in 1 .. m : q[i] = p[i] /\ i \in DOMAIN p
<1>1. Len(p) \in Nat /\ DOMAIN p = 1 .. Len(p) /\ \A i \in DOMAIN p : p[i] \in S
  BY Places
<1>2. m \in Nat /\ m <= n /\ m <= Len(p) /\ \A i \in 1 .. m : p[i] \in S /\ i \in DOMAIN p
  BY <1>1
<1>3. /\ q \in Seq(S)
      /\ Len(q) = IF 1 <= m THEN m - 1 + 1 ELSE 0
      /\ \A i \in 1 .. m - 1 + 1 : q[i] = p[1 + i - 1]
  BY <1>2, SubSeqProperties
<1>4. Len(q) = m /\ \A i \in 1 .. m : q[i] = p[i]
  BY <1>2, <1>3
<1> QED
  BY <1>2, <1>3, <1>4, Places

LEMMA LeastOfTwo ==
  ASSUME NEW a \in Nat, NEW b \in Nat
  PROVE  Min({a, b}) = (IF a < b THEN a ELSE b) /\ Max({a, b}) = (IF a < b THEN b ELSE a)
BY DEF Min, Max

LEMMA FirstOfPart ==
  ASSUME NEW S, NEW p \in Seq(S), NEW n \in Nat, NEW q, q = FirstOf(p, n)
  PROVE  /\ q \in Seq(S) /\ Len(q) \in Nat /\ DOMAIN q = 1 .. Len(q)
         /\ Len(q) = (IF Len(p) < n THEN Len(p) ELSE n)
         /\ \A i \in DOMAIN q : q[i] = p[i] /\ i \in DOMAIN p
<1> DEFINE m == IF Len(p) < n THEN Len(p) ELSE n
<1>1. Len(p) \in Nat
  BY Places
<1>2. q = SubSeq(p, 1, m)
  BY <1>1, LeastOfTwo DEF FirstOf
<1>3. m = IF Len(p) < n THEN Len(p) ELSE n
  OBVIOUS
<1> HIDE DEF m
<1>4. /\ q \in Seq(S) /\ Len(q) = m /\ m \in Nat /\ DOMAIN q = 1 .. m
      /\ \A i \in 1 .. m : q[i] = p[i] /\ i \in DOMAIN p
  BY <1>2, <1>3, FirstPart
<1> QED
  BY <1>3, <1>4

\* A capture's id is its number.
LEMMA OwnIds ==
  ASSUME TablesInv
  PROVE  /\ \A c \in Captures : c <= seq => rowid[c] = c /\ Owner(c) = c
         /\ \A S : S \subseteq rows => {rowid[c] : c \in S} = S
         /\ RowIds = rows
         /\ \A id \in Captures : Holders(id) = {id} \cap rows
<1> USE StoresAssumption
<1>1. \A c \in Captures : c <= seq => rowid[c] = c
  BY DEF TablesInv
<1>2. \A c, d \in Captures : rowid[d] = c => d = c
  <2> SUFFICES ASSUME NEW c \in Captures, NEW d \in Captures, rowid[d] = c PROVE d = c
    OBVIOUS
  <2>1. rowid[d] = IF d <= seq THEN d ELSE 0
    BY DEF TablesInv
  <2>2. c # 0
    BY DEF Captures
  <2> QED
    BY <2>1, <2>2
<1>3. \A c \in Captures : c <= seq => Owner(c) = c
  BY <1>1, <1>2 DEF Owner
<1>4. \A c \in rows : rowid[c] = c /\ c \in Captures
  BY <1>1 DEF TablesInv
<1>5. \A S : S \subseteq rows => {rowid[c] : c \in S} = S
  BY <1>4
<1>6. RowIds = rows
  BY <1>5 DEF RowIds
<1>7. \A id \in Captures : Holders(id) = {id} \cap rows
  BY <1>4 DEF Holders
<1> QED
  BY <1>1, <1>3, <1>5, <1>6, <1>7

-----------------------------------------------------------------------------
(* Only captures that were stored have vectors.                            *)

VectorsOld == \A id \in Ids : textVecs[id] # <<>> \/ imageVecs[id] # <<>> => id <= seq

LEMMA VectorsOldInit == ViewsInit => VectorsOld
<1> SUFFICES ASSUME ViewsInit PROVE VectorsOld
  OBVIOUS
<1>1. TablesInv
  BY StoresInit DEF StoresInv
<1>2. \A id \in Ids : (textVecs[id] # <<>> \/ imageVecs[id] # <<>>) => id \in Given
  BY DEF ViewsInit, Init
<1>3. ASSUME NEW id \in Given PROVE id <= seq
  <2>1. PICK c \in Captures : rowid[c] = id
    BY DEF Given
  <2>2. id # 0
    BY DEF Given, Ids
  <2>3. id = IF c <= seq THEN c ELSE 0
    BY <1>1, <2>1 DEF TablesInv
  <2> QED
    BY <2>2, <2>3
<1> QED
  BY <1>2, <1>3 DEF VectorsOld

LEMMA VectorsOldKept == StoresInv /\ VectorsOld /\ StoresNext => VectorsOld'
<1> SUFFICES ASSUME StoresInv, VectorsOld, StoresNext PROVE VectorsOld'
  OBVIOUS
<1>0. seq \in Nat /\ seq' \in Nat /\ seq <= seq'
  BY StoresHistory
<1>1. CASE textVecs' = textVecs /\ imageVecs' = imageVecs
  BY <1>0, <1>1 DEF VectorsOld, Ids
<1>2. CASE Enricher
  <2>0. seq' = seq /\ \A c \in Captures : rowid[c] # 0 => rowid[c] <= seq /\ rowid[c] \in Ids
    BY <1>2, StoresAssumption DEF Enricher, ukg, StoresInv, TablesInv, Captures, Ids
  <2>1. \A id \in Ids : textVecs'[id] # <<>> => textVecs[id] # <<>> \/ id <= seq
    <3>1. CASE UNCHANGED <<textLabel, textVecs>>
      BY <3>1
    <3>2. CASE \E c \in Captures : EmbedText(c)
      <4>1. PICK c \in Captures : EmbedText(c)
        BY <3>2, Zenon
      <4>2. rowid[c] <= seq /\ textVecs' = [textVecs EXCEPT ![rowid[c]] = <<textLabel>>]
        BY <2>0, <4>1 DEF EmbedText, TextStore!Add
      <4> QED
        BY <4>2 DEF StoresInv, VectorsInv, StoreInv
    <3>3. CASE TextStore!Clear
      BY <3>3 DEF TextStore!Clear, TextStore!NoVectors
    <3>4. CASE TextStore!Relabel
      BY <3>4 DEF TextStore!Relabel
    <3> QED
      BY <1>2, <3>1, <3>2, <3>3, <3>4 DEF Enricher
  <2>2. \A id \in Ids : imageVecs'[id] # <<>> => imageVecs[id] # <<>> \/ id <= seq
    <3>1. CASE UNCHANGED <<imageLabel, imageVecs>>
      BY <3>1
    <3>2. CASE \E c \in Captures : EmbedImage(c)
      <4>1. PICK c \in Captures : EmbedImage(c)
        BY <3>2, Zenon
      <4>2. rowid[c] <= seq /\ imageVecs' = [imageVecs EXCEPT ![rowid[c]] = <<imageLabel>>]
        BY <2>0, <4>1 DEF EmbedImage, ImageStore!Add
      <4> QED
        BY <4>2 DEF StoresInv, VectorsInv, StoreInv
    <3>3. CASE ImageStore!Clear
      BY <3>3 DEF ImageStore!Clear, ImageStore!NoVectors
    <3>4. CASE ImageStore!Relabel
      BY <3>4 DEF ImageStore!Relabel
    <3> QED
      BY <1>2, <3>1, <3>2, <3>3, <3>4 DEF Enricher
  <2> QED
    BY <2>0, <2>1, <2>2 DEF VectorsOld
<1>3. CASE Broker \/ Wipe
  BY <1>1, <1>3 DEF Broker, InsertRow, PutObject, Wipe, WipeBegin, WipeStep, WipeFails, sem
<1> QED
  BY <1>2, <1>3 DEF StoresNext

-----------------------------------------------------------------------------
(* The search *)

\* What the filter says of a capture that has not lost its relations.
Passes(id) ==
  /\ InRange(req, id)
  /\ req.apps = <<>> \/ {Path[id], Name[id]} \cap ToSet(req.apps) # {}

\* What a leg may still be expected to return.
Due(leg, id) ==
  /\ id \in began.rows /\ id \in rows /\ InRange(req, id) /\ OfApps(req, id)
  /\ leg = "fts" => FtsOfApps(req, id)

\* A window is full, or holds everything due.
Taken(leg, window) ==
  /\ \A i, j \in DOMAIN window : i # j => window[i] # window[j]
  /\ Len(window) >= req.limit \/ \A id \in ToSet(order[leg]) : Due(leg, id) => id \in ToSet(window)

Shapes ==
  /\ req \in Requests \cup {NoRequest}
  /\ step \in Working \cup {"none", "refused", "unavailable", "answered", "error"}
  /\ todo \in Seq(Legs) /\ (step \in Working \ {"leg"} => todo # <<>>)
  /\ \A i, j \in DOMAIN todo : i # j => todo[i] # todo[j]
  /\ answer \in [space : Labels, fits : BOOLEAN]
  /\ allowed \subseteq Ids /\ found \in Seq(Ids) /\ hits \subseteq Ids
  /\ DOMAIN ranks \subseteq DOMAIN order /\ DOMAIN order \subseteq Legs
  /\ \A i \in DOMAIN todo : todo[i] \notin DOMAIN ranks
  /\ \A leg \in DOMAIN order : ToSet(order[leg]) \subseteq Ids
  /\ \A leg \in DOMAIN ranks : ranks[leg] \in Seq(Ids)
  /\ step # "answered" => results = <<>>
  /\ ToSet(results) \subseteq hits

\* Before the request came nothing was found, and what is gone since stays gone.
Untouched ==
  /\ step = "none" => hits = {} /\ ranks = <<>> /\ found = <<>> /\ foreign = {}
  /\ step # "none" => /\ began.seq \in Nat /\ began.seq <= seq /\ began.rows \subseteq Captures
                      /\ \A c \in began.rows : c <= began.seq
                      /\ \A c \in rows : c \in began.rows \/ c > began.seq

\* Everything found passes the filter and was there.
Found ==
  /\ \A id \in hits : /\ id \in Captures /\ id <= seq /\ Passes(id)
                      /\ id \in began.rows \/ id > began.seq
  /\ step = "scan" => \A id \in allowed : Passes(id)
  /\ step = "rows" => \A id \in ToSet(found) : Passes(id) /\ id <= seq

\* The label was that of the query's space, or of an empty store, at the check.
Checked ==
  /\ step \in {"filter", "scan"} => seen \in {Unknown, answer.space}
  /\ foreign \subseteq moved

\* No leg has lost anything on the way.
Complete ==
  /\ step = "scan" =>
       \A id \in began.rows \cap rows : InRange(req, id) /\ OfApps(req, id) => id \in allowed
  /\ step = "rows" => Head(todo) \in DOMAIN order /\ Taken(Head(todo), found)
  /\ step # "none" => \A leg \in DOMAIN ranks :
       Taken(leg, ranks[leg]) /\ \A id \in ToSet(ranks[leg]) : id <= seq /\ (id \in rows => id \in hits)
  /\ step = "answered" /\ Len(results) < req.limit =>
       Cardinality(hits) < req.limit /\ hits \subseteq ToSet(results)

SearchInv == Shapes /\ Untouched /\ Found /\ Checked /\ Complete

LEMMA SearchInitial == ViewsInit => SearchInv
<1> SUFFICES ASSUME ViewsInit PROVE SearchInv
  OBVIOUS
<1> USE DEF ViewsInit, SearchInit
<1>1. Shapes
  <2>1. <<>> \in Seq(Legs) /\ <<>> \in Seq(Ids) /\ DOMAIN <<>> = {}
    OBVIOUS
  <2>2. ToSet(<<>>) = {}
    BY <2>1 DEF ToSet
  <2>3. NoAnswer \in [space : Labels, fits : BOOLEAN]
    BY DEF NoAnswer, Labels
  <2>4. step = "none" /\ req = NoRequest /\ answer = NoAnswer /\ todo = <<>> /\ found = <<>>
        /\ allowed = {} /\ hits = {} /\ ranks = <<>> /\ order = <<>> /\ results = <<>>
    OBVIOUS
  <2> HIDE DEF ViewsInit, SearchInit
  <2> QED
    BY <2>1, <2>2, <2>3, <2>4 DEF Shapes, Working
<1>2. Untouched
  BY DEF Untouched
<1>3. Found
  BY DEF Found
<1>4. Checked
  BY DEF Checked
<1>5. Complete
  BY DEF Complete
<1> QED
  BY <1>1, <1>2, <1>3, <1>4, <1>5 DEF SearchInv

\* What was ranked are ids.
LEMMA FoundInts ==
  ASSUME Shapes
  PROVE  /\ \A id \in ToSet(found) : id \in Nat
         /\ \A leg \in DOMAIN ranks : \A id \in ToSet(ranks[leg]) : id \in Nat
<1>1. ASSUME NEW q \in Seq(Ids), NEW id \in ToSet(q) PROVE id \in Nat
  <2>1. PICK i \in DOMAIN q : id = q[i]
    BY <1>1 DEF ToSet
  <2>2. id \in Ids
    BY <1>1, <2>1, Places
  <2> QED
    BY <2>2, StoresAssumption DEF Ids
<1> QED
  BY <1>1 DEF Shapes

\* A step of a writer beside the search.
LEMMA SearchBeside ==
  ASSUME StoresInv, VectorsOld, SearchInv, StoresNext, UNCHANGED search
  PROVE  SearchInv'
<1> USE DEF SearchInv
<1>0. /\ req' = req /\ step' = step /\ todo' = todo /\ answer' = answer /\ allowed' = allowed
      /\ order' = order /\ found' = found /\ ranks' = ranks /\ hits' = hits /\ results' = results
      /\ began' = began /\ seen' = seen /\ foreign' = foreign /\ moved' = moved
  BY DEF search
<1>1. /\ seq \in Nat /\ seq' \in Nat /\ seq <= seq' /\ ts' = ts
      /\ \A c \in rows' : c \in rows \/ c > seq
      /\ \A c \in related' : c \in related \/ c > seq
  BY StoresHistory
<1>2. \A id : Passes(id)' <=> Passes(id)
  BY <1>0, <1>1 DEF Passes, InRange
<1>3. Shapes'
  BY <1>0 DEF Shapes
<1>4. Untouched'
  <2> SUFFICES ASSUME step # "none"
               PROVE  /\ began.seq \in Nat /\ began.seq <= seq' /\ began.rows \subseteq Captures
                      /\ \A c \in began.rows : c <= began.seq
                      /\ \A c \in rows' : c \in began.rows \/ c > began.seq
    BY <1>0 DEF Untouched
  <2>1. \A c \in rows' : c \in Nat
    <3>1. rows' \subseteq Captures
      BY StoresKept DEF StoresInv, TablesInv
    <3> QED
      BY <3>1, StoresAssumption DEF Captures
  <2>2. /\ began.seq \in Nat /\ began.seq <= seq /\ began.rows \subseteq Captures
        /\ \A c \in began.rows : c <= began.seq
        /\ \A c \in rows : c \in began.rows \/ c > began.seq
    BY DEF Untouched
  <2>3. ASSUME NEW c \in rows' PROVE c \in began.rows \/ c > began.seq
    BY <1>1, <2>1, <2>2
  <2> QED
    BY <1>1, <2>2, <2>3
<1>5. Found'
  <2>1. \A id \in ToSet(found) : id \in Nat
    BY FoundInts
  <2>2. \A id \in hits : id \in Nat /\ id <= seq'
    BY <1>1 DEF Found, Captures
  <2>3. step = "rows" => \A id \in ToSet(found) : Passes(id) /\ id <= seq'
    BY <1>1, <2>1 DEF Found
  <2> QED
    BY <1>0, <1>2, <2>2, <2>3 DEF Found
<1>6. Checked'
  BY <1>0 DEF Checked
<1>7. Complete'
  <2> SUFFICES ASSUME step # "none" PROVE Complete'
    BY <1>0 DEF Complete
  <2>1. \A id \in began.rows : id \in Nat /\ id <= seq /\ (id \in rows' => id \in rows)
                               /\ (id \in related' => id \in related)
    BY <1>1 DEF Untouched, Captures
  <2>2. ASSUME NEW leg, NEW id, Due(leg, id)' PROVE Due(leg, id)
    <3>1. id \in began.rows /\ id \in rows /\ (id \in related' => id \in related)
      BY <1>0, <2>1, <2>2 DEF Due
    <3>2. InRange(req, id) /\ OfApps(req, id) /\ (leg = "fts" => FtsOfApps(req, id))
      BY <1>0, <1>1, <2>2, <3>1 DEF Due, InRange, OfApps, FtsOfApps
    <3> QED
      BY <3>1, <3>2 DEF Due
  <2>3. \A leg, w : Taken(leg, w) => Taken(leg, w)'
    BY <1>0, <2>2 DEF Taken
  <2>4. step = "scan" => \A id \in began.rows \cap rows' :
          InRange(req, id)' /\ OfApps(req, id)' => id \in allowed
    BY <1>0, <1>1, <2>1 DEF Complete, InRange, OfApps
  <2>5. step = "rows" => Head(todo) \in DOMAIN order /\ Taken(Head(todo), found)'
    BY <1>0, <2>3 DEF Complete
  <2>6. ASSUME NEW leg \in DOMAIN ranks
        PROVE  /\ Taken(leg, ranks[leg])'
               /\ \A id \in ToSet(ranks[leg]) : id <= seq' /\ (id \in rows' => id \in hits)
    <3>1. Taken(leg, ranks[leg]) /\ \A id \in ToSet(ranks[leg]) : id <= seq /\ (id \in rows => id \in hits)
      BY <2>6 DEF Complete
    <3>2. \A id \in ToSet(ranks[leg]) : id \in Nat
      BY <2>6, FoundInts
    <3>3. Taken(leg, ranks[leg])'
      BY <1>0, <2>3, <3>1
    <3> QED
      BY <1>1, <3>1, <3>2, <3>3
  <2> QED
    BY <1>0, <2>4, <2>5, <2>6 DEF Complete
<1> QED
  BY <1>3, <1>4, <1>5, <1>6, <1>7

-----------------------------------------------------------------------------
(* What a leg offers *)

LEMMA Limits ==
  ASSUME req \in Requests \cup {NoRequest}
  PROVE  /\ req.limit \in Nat /\ FusionPool(req.limit) \in Nat
         /\ req.limit <= FusionPool(req.limit)
<1> USE RequestsAssumption
<1>1. req.limit \in 1 .. MaxPool
  BY DEF SearchBody, NoRequest
<1> DEFINE n == req.limit
           m == req.limit * PoolFactor
<1>2. n \in Nat /\ PoolFactor \in Nat /\ n <= MaxPool /\ MaxPool \in Nat
  BY <1>1
<1>3. m \in Nat
  BY <1>2
<1> HIDE DEF n, m
<1>4. FusionPool(n) = Min({Max({m, n}), MaxPool})
  BY DEF FusionPool, n, m
<1>5. Max({m, n}) = IF m < n THEN n ELSE m
  BY <1>2, <1>3, LeastOfTwo
<1>6. Max({m, n}) \in Nat /\ n <= Max({m, n})
  BY <1>2, <1>3, <1>5
<1>7. Min({Max({m, n}), MaxPool}) = IF Max({m, n}) < MaxPool THEN Max({m, n}) ELSE MaxPool
  BY <1>2, <1>6, LeastOfTwo
<1>8. FusionPool(n) \in Nat /\ n <= FusionPool(n)
  BY <1>2, <1>4, <1>6, <1>7
<1> QED
  BY <1>2, <1>8 DEF n

\* The first n of what S leaves of a ranking: no more than that, nothing twice,
\* and nothing left out unless there are n.
LEMMA Window ==
  ASSUME NEW X, X \subseteq Ids, NEW S, NEW o \in SetToAllKPermutations(X),
         NEW e \in Kept(o, S), NEW n \in Nat
  PROVE  LET w == FirstOf(e, n)
         IN  /\ w \in Seq(Ids) /\ ToSet(w) \subseteq X \cap S
             /\ \A i, j \in DOMAIN w : i # j => w[i] # w[j]
             /\ Len(w) >= n \/ ToSet(o) \cap S \subseteq ToSet(w)
             /\ ToSet(o) \subseteq X
<1> DEFINE w == FirstOf(e, n)
           T == ToSet(o) \cap S
<1>1. ToSet(o) \subseteq X
  BY DEF SetToAllKPermutations, SetToSeqs, ToSet
<1>2. IsFiniteSet(T)
  BY <1>1, IdsFinite DEF Ids, Captures
<1>3. e \in SetToSeqs(T)
  BY DEF Kept
<1> HIDE DEF T
<1>4. /\ e \in Seq(T) /\ Len(e) \in Nat /\ DOMAIN e = 1 .. Len(e)
      /\ \A i, j \in DOMAIN e : i # j => e[i] # e[j]
      /\ \A x \in T : \E i \in DOMAIN e : e[i] = x
  BY <1>2, <1>3, Listed
<1>5. /\ w \in Seq(T) /\ Len(w) \in Nat /\ Len(w) = (IF Len(e) < n THEN Len(e) ELSE n)
      /\ DOMAIN w = 1 .. Len(w)
      /\ \A i \in DOMAIN w : w[i] = e[i] /\ i \in DOMAIN e
  <2>1. w = FirstOf(e, n)
    OBVIOUS
  <2> HIDE DEF w
  <2> QED
    BY <1>4, <2>1, FirstOfPart
<1> HIDE DEF w
<1>6. ToSet(w) \subseteq T
  BY <1>5, Places DEF ToSet
<1>7. T \subseteq Ids /\ T \subseteq X \cap S /\ T = ToSet(o) \cap S
  BY <1>1 DEF T
<1>8. w \in Seq(Ids)
  BY <1>5, <1>7, Places
<1>9. \A i, j \in DOMAIN w : i # j => w[i] # w[j]
  BY <1>4, <1>5
<1>10. Len(w) >= n \/ T \subseteq ToSet(w)
  <2> SUFFICES ASSUME Len(e) < n, NEW x \in T PROVE x \in ToSet(w)
    BY <1>4, <1>5
  <2>1. PICK i \in DOMAIN e : e[i] = x
    BY <1>4
  <2> QED
    BY <1>4, <1>5, <2>1 DEF ToSet
<1> QED
  BY <1>1, <1>6, <1>7, <1>8, <1>9, <1>10 DEF w

-----------------------------------------------------------------------------
(* The legs of a request *)

\* A sequence that has nothing twice.
Once(p) == \A i, j \in DOMAIN p : i # j => p[i] # p[j]

LEMMA OneMore ==
  ASSUME NEW S, NEW p \in Seq(S), Once(p), NEW x, x \notin S,
         NEW more, more = <<>> \/ more = <<x>>
  PROVE  p \o more \in Seq(S \cup {x}) /\ Once(p \o more)
<1>1. Len(p) \in Nat /\ DOMAIN p = 1 .. Len(p) /\ \A i \in DOMAIN p : p[i] \in S
  BY Places
<1>2. p \in Seq(S \cup {x}) /\ <<x>> \in Seq(S \cup {x}) /\ <<>> \in Seq(S \cup {x})
  BY <1>1, Places
<1>3. CASE more = <<x>>
  <2> DEFINE r == p \o <<x>>
  <2>1. r \in Seq(S \cup {x}) /\ Len(r) = Len(p) + 1
    BY <1>2, ConcatProperties
  <2>2. \A i \in 1 .. Len(r) : r[i] = IF i <= Len(p) THEN p[i] ELSE x
    BY <1>1, <1>2, <2>1, ConcatProperties
  <2> HIDE DEF r
  <2>3. DOMAIN r = 1 .. Len(p) + 1
    BY <1>1, <2>1, Places
  <2>4. \A i \in DOMAIN r : r[i] = IF i \in DOMAIN p THEN p[i] ELSE x
    BY <1>1, <2>1, <2>2, <2>3
  <2>5. \A i, j \in DOMAIN r : i # j => i \in DOMAIN p \/ j \in DOMAIN p
    BY <1>1, <2>3
  <2>6. Once(r)
    BY <1>1, <2>4, <2>5 DEF Once
  <2> QED
    BY <1>3, <2>1, <2>6 DEF r
<1>4. CASE more = <<>>
  BY <1>2, <1>4, ConcatEmptySeq
<1> QED
  BY <1>3, <1>4

LEMMA LegsOnce == \A q : LegsOf(q) \in Seq(Legs) /\ Once(LegsOf(q))
<1> TAKE q
<1> DEFINE w(leg) == IF Wants(q, leg) THEN <<leg>> ELSE <<>>
           a == w("fts")
           b == a \o w("text-semantic")
           c == b \o w("image-semantic")
           d == c \o w("image-text")
<1>0. \A leg : w(leg) = <<>> \/ w(leg) = <<leg>>
  OBVIOUS
<1> HIDE DEF w
<1>1. a \in Seq({"fts"}) /\ Once(a)
  <2>1. a = <<>> \/ a = <<"fts">>
    BY <1>0
  <2>2. <<>> \in Seq({"fts"}) /\ <<"fts">> \in Seq({"fts"}) /\ Once(<<>>) /\ Once(<<"fts">>)
    BY DEF Once
  <2> HIDE DEF a
  <2> QED
    BY <2>1, <2>2
<1> HIDE DEF a
<1>2. b \in Seq({"fts"} \cup {"text-semantic"}) /\ Once(b)
  <2>1. "text-semantic" \notin {"fts"}
    OBVIOUS
  <2>2. w("text-semantic") = <<>> \/ w("text-semantic") = <<"text-semantic">>
    BY <1>0
  <2> QED
    BY <1>1, <2>1, <2>2, OneMore
<1> HIDE DEF b
<1>3. c \in Seq({"fts"} \cup {"text-semantic"} \cup {"image-semantic"}) /\ Once(c)
  <2>1. "image-semantic" \notin ({"fts"} \cup {"text-semantic"})
    OBVIOUS
  <2>2. w("image-semantic") = <<>> \/ w("image-semantic") = <<"image-semantic">>
    BY <1>0
  <2> QED
    BY <1>2, <2>1, <2>2, OneMore
<1> HIDE DEF c
<1>4. d \in Seq({"fts"} \cup {"text-semantic"} \cup {"image-semantic"} \cup {"image-text"}) /\ Once(d)
  <2>1. "image-text" \notin ({"fts"} \cup {"text-semantic"} \cup {"image-semantic"})
    OBVIOUS
  <2>2. w("image-text") = <<>> \/ w("image-text") = <<"image-text">>
    BY <1>0
  <2> QED
    BY <1>3, <2>1, <2>2, OneMore
<1>5. LegsOf(q) = d
  BY DEF LegsOf, a, b, c, w
<1> HIDE DEF d
<1>6. Legs = {"fts"} \cup {"text-semantic"} \cup {"image-semantic"} \cup {"image-text"}
  BY DEF Legs
<1> QED
  BY <1>4, <1>5, <1>6

\* The leg in work has not been ranked, and is not one of the others.
LEMMA Rest ==
  ASSUME Shapes, todo # <<>>
  PROVE  /\ Head(todo) \in Legs /\ Head(todo) \notin DOMAIN ranks
         /\ Tail(todo) \in Seq(Legs) /\ Once(Tail(todo))
         /\ \A i \in DOMAIN Tail(todo) : Tail(todo)[i] \notin DOMAIN ranks \cup {Head(todo)}
<1>1. todo \in Seq(Legs) /\ Once(todo) /\ \A i \in DOMAIN todo : todo[i] \notin DOMAIN ranks
  BY DEF Shapes, Once
<1>2. Len(todo) \in Nat /\ DOMAIN todo = 1 .. Len(todo) /\ Len(todo) >= 1
  BY <1>1, Places, EmptySeq
<1>3. Head(todo) = todo[1] /\ 1 \in DOMAIN todo
  BY <1>1, <1>2, HeadTailProperties
<1>4. /\ Tail(todo) \in Seq(Legs) /\ Len(Tail(todo)) = Len(todo) - 1
      /\ \A i \in 1 .. Len(Tail(todo)) : Tail(todo)[i] = todo[i + 1]
  BY <1>1, HeadTailProperties
<1>5. DOMAIN Tail(todo) = 1 .. Len(todo) - 1
  BY <1>2, <1>4, Places
<1>6. \A i \in DOMAIN Tail(todo) : Tail(todo)[i] = todo[i + 1] /\ i + 1 \in DOMAIN todo /\ i + 1 # 1
                                   /\ i \in Int
  BY <1>2, <1>4, <1>5
<1>7. Once(Tail(todo))
  BY <1>1, <1>6 DEF Once
<1>8. \A i \in DOMAIN Tail(todo) : Tail(todo)[i] \notin DOMAIN ranks \cup {Head(todo)}
  BY <1>1, <1>3, <1>6 DEF Once
<1> QED
  BY <1>1, <1>3, <1>4, <1>7, <1>8, Places

-----------------------------------------------------------------------------
(* What the steps of the search have in common *)

LEMMA SameFilter ==
  ASSUME UNCHANGED <<ukg, req, began>>
  PROVE  /\ \A id : Passes(id)' <=> Passes(id)
         /\ \A leg, id : Due(leg, id)' <=> Due(leg, id)
         /\ \A leg, w : order'[leg] = order[leg] /\ Taken(leg, w) => Taken(leg, w)'
<1>0. req' = req /\ began' = began /\ rows' = rows /\ related' = related /\ ts' = ts
  BY DEF ukg
<1>1. \A id : Passes(id)' <=> Passes(id)
  BY <1>0 DEF Passes, InRange
<1>2. \A leg, id : Due(leg, id)' <=> Due(leg, id)
  BY <1>0 DEF Due, InRange, OfApps, FtsOfApps
<1>3. \A leg, w : order'[leg] = order[leg] /\ Taken(leg, w) => Taken(leg, w)'
  BY <1>0, <1>2 DEF Taken
<1> QED
  BY <1>1, <1>2, <1>3

\* What has been ranked stays as it is.
LEMMA RanksKept ==
  ASSUME SearchInv, step # "none", UNCHANGED <<ukg, req, began>>, hits \subseteq hits',
         \A leg \in DOMAIN ranks : ranks'[leg] = ranks[leg] /\ order'[leg] = order[leg]
  PROVE  \A leg \in DOMAIN ranks :
           /\ Taken(leg, ranks[leg])'
           /\ \A id \in ToSet(ranks'[leg]) : id <= seq' /\ (id \in rows' => id \in hits')
<1> TAKE leg \in DOMAIN ranks
<1>1. /\ Taken(leg, ranks[leg])
      /\ \A id \in ToSet(ranks[leg]) : id <= seq /\ (id \in rows => id \in hits)
  BY DEF SearchInv, Complete
<1>2. \A w : Taken(leg, w) => Taken(leg, w)'
  BY SameFilter
<1>3. seq' = seq /\ rows' = rows /\ ranks'[leg] = ranks[leg]
  BY DEF ukg
<1> QED
  BY <1>1, <1>2, <1>3

\* A step within a request that finds nothing.
LEMMA FindsNothing ==
  ASSUME SearchInv, step # "none", step' # "none",
         UNCHANGED <<ukg, req, began, order, ranks, hits, foreign, moved>>
  PROVE  /\ Untouched'
         /\ \A id \in hits' : /\ id \in Captures /\ id <= seq' /\ Passes(id)'
                              /\ id \in began'.rows \/ id > began'.seq
         /\ foreign' \subseteq moved'
         /\ \A leg \in DOMAIN ranks' :
              Taken(leg, ranks[leg])' /\ \A id \in ToSet(ranks'[leg]) : id <= seq' /\ (id \in rows' => id \in hits')
<1>0. seq' = seq /\ rows' = rows
  BY DEF ukg
<1>1. Untouched'
  BY <1>0 DEF SearchInv, Untouched
<1>2. \A id \in hits' : /\ id \in Captures /\ id <= seq' /\ Passes(id)'
                        /\ id \in began'.rows \/ id > began'.seq
  BY <1>0, SameFilter DEF SearchInv, Found
<1>3. foreign' \subseteq moved'
  BY DEF SearchInv, Checked
<1> QED
  BY <1>1, <1>2, <1>3, RanksKept

-----------------------------------------------------------------------------
(* The steps of the search *)

LEMMA BeginKeeps ==
  ASSUME StoresInv, SearchInv, NEW q \in Requests, BeginSearch(q), UNCHANGED stores
  PROVE  SearchInv'
<1>0. /\ step = "none" /\ req' = q /\ began' = [rows |-> {rowid[c] : c \in rows}, seq |-> seq]
      /\ UNCHANGED <<answer, allowed, order, found, ranks, hits, results, seen, foreign, moved>>
      /\ seq' = seq /\ rows' = rows
  BY DEF BeginSearch, stores, ukg
<1>1. hits = {} /\ ranks = <<>> /\ foreign = {} /\ DOMAIN ranks = {}
  BY <1>0 DEF SearchInv, Untouched
<1>2. step' \in {"refused", "leg"} /\ todo' \in Seq(Legs) /\ Once(todo')
  <2>1. todo' = <<>> \/ todo' = LegsOf(q)
    BY DEF BeginSearch
  <2>2. <<>> \in Seq(Legs) /\ Once(<<>>)
    BY DEF Once
  <2>3. step' \in {"refused", "leg"}
    BY DEF BeginSearch
  <2> QED
    BY <2>1, <2>2, <2>3, LegsOnce
<1>3. Shapes'
  <2>1. results' = <<>> /\ ToSet(results') \subseteq hits'
    BY <1>0 DEF SearchInv, Shapes
  <2>2. step' \in Working \cup {"none", "refused", "unavailable", "answered", "error"}
        /\ (step' \in Working \ {"leg"} => todo' # <<>>)
    BY <1>2 DEF Working
  <2> QED
    BY <1>0, <1>1, <1>2, <2>1, <2>2 DEF SearchInv, Shapes, Once
<1>4. Untouched'
  <2>1. {rowid[c] : c \in rows} = rows
    BY OwnIds DEF StoresInv
  <2>2. rows \subseteq Captures /\ seq \in Nat /\ \A c \in rows : c <= seq
    BY StoresAssumption DEF StoresInv, TablesInv
  <2> QED
    BY <1>0, <1>2, <2>1, <2>2 DEF Untouched
<1>5. Found'
  BY <1>0, <1>1, <1>2 DEF Found
<1>6. Checked'
  BY <1>0, <1>1, <1>2 DEF Checked
<1>7. Complete'
  BY <1>0, <1>1, <1>2 DEF Complete
<1> QED
  BY <1>3, <1>4, <1>5, <1>6, <1>7 DEF SearchInv

\* LegDone, when nothing is found.
LEMMA SkipKeeps ==
  ASSUME SearchInv, step # "none", todo # <<>>, LegDone,
         UNCHANGED <<ukg, req, began, order, ranks, hits, results, foreign, moved>>,
         step # "answered"
  PROVE  SearchInv'
<1>0. /\ step' = "leg" /\ todo' = Tail(todo)
      /\ answer' = NoAnswer /\ allowed' = {} /\ found' = <<>> /\ seen' = Unknown
  BY DEF LegDone

<1>1. Shapes'
  <2>1. <<>> \in Seq(Ids) /\ {} \subseteq Ids /\ NoAnswer \in [space : Labels, fits : BOOLEAN]
    BY DEF NoAnswer, Labels
  <2>2. results = <<>> /\ "leg" \in Working
    BY DEF SearchInv, Shapes, Working
  <2> QED
    BY <1>0, <2>1, <2>2, Rest DEF SearchInv, Shapes, Once
<1>2. Found'
  BY <1>0, FindsNothing DEF Found
<1>3. Checked'
  BY <1>0, FindsNothing DEF Checked
<1>4. Complete'
  BY <1>0, FindsNothing DEF Complete
<1> QED
  BY <1>0, <1>1, <1>2, <1>3, <1>4, FindsNothing DEF SearchInv

\* The request ends without an answer.
LEMMA StopKeeps ==
  ASSUME SearchInv, step \in Working, step' \in {"refused", "unavailable", "error"}, UNCHANGED ukg,
         UNCHANGED <<req, todo, answer, allowed, order, found, ranks, hits, results,
                     began, seen, foreign, moved>>
  PROVE  SearchInv'
<1>0. step # "none" /\ step' # "none" /\ step' \notin Working /\ step' # "answered" /\ step # "answered"
  BY DEF Working
<1>1. Shapes'
  BY <1>0 DEF SearchInv, Shapes
<1>2. Found'
  BY <1>0, FindsNothing DEF Found, Working
<1>3. Checked'
  BY <1>0, FindsNothing DEF Checked, Working
<1>4. Complete'
  BY <1>0, FindsNothing DEF Complete, Working
<1> QED
  BY <1>0, <1>1, <1>2, <1>3, <1>4, FindsNothing DEF SearchInv

LEMMA NoEmbeddingKeeps ==
  ASSUME SearchInv, NoEmbedding, UNCHANGED stores
  PROVE  SearchInv'
<1>0. /\ step = "leg" /\ todo # <<>> /\ step \in Working /\ UNCHANGED ukg
      /\ UNCHANGED <<req, order, ranks, hits, results, began, foreign, moved>>
  BY DEF NoEmbedding, stores, Working
<1>1. CASE Head(todo) = "image-semantic"
  <2>1. step' \in {"refused", "unavailable", "error"} /\ UNCHANGED <<todo, answer, allowed, found, seen>>
    BY <1>1 DEF NoEmbedding
  <2> QED
    BY <1>0, <2>1, StopKeeps
<1>2. CASE Head(todo) # "image-semantic"
  <2>1. LegDone
    BY <1>2 DEF NoEmbedding
  <2> QED
    BY <1>0, <2>1, SkipKeeps
<1> QED
  BY <1>1, <1>2

LEMMA EmbeddedKeeps ==
  ASSUME SearchInv, Embedded, UNCHANGED stores
  PROVE  SearchInv'
<1>0. /\ step = "leg" /\ todo # <<>> /\ step' = "verdict" /\ UNCHANGED ukg
      /\ UNCHANGED <<req, todo, allowed, order, found, ranks, hits, results, began, seen, foreign, moved>>
  BY DEF Embedded, stores
<1>1. Shapes'
  <2>1. answer' \in [space : Labels, fits : BOOLEAN]
    BY DEF Embedded, Labels
  <2>2. "verdict" \in Working /\ "leg" \in Working
    BY DEF Working
  <2> QED
    BY <1>0, <2>1, <2>2 DEF SearchInv, Shapes
<1>2. Found'
  BY <1>0, FindsNothing DEF Found
<1>3. Checked'
  BY <1>0, FindsNothing DEF Checked
<1>4. Complete'
  BY <1>0, FindsNothing DEF Complete
<1> QED
  BY <1>0, <1>1, <1>2, <1>3, <1>4, FindsNothing DEF SearchInv

LEMMA VerdictKeeps ==
  ASSUME StoresInv, SearchInv, Verdict, UNCHANGED stores
  PROVE  SearchInv'
<1>0. /\ step = "verdict" /\ step \in Working /\ todo # <<>> /\ UNCHANGED ukg
      /\ UNCHANGED <<req, order, ranks, hits, results, began, foreign, moved>>
  BY DEF Verdict, stores, Working, SearchInv, Shapes
<1>1. CASE LegDone
  BY <1>0, <1>1, SkipKeeps
<1>2. CASE ~LegDone
  <2>1. /\ seen' = LabelOf(Head(todo)) /\ UNCHANGED <<todo, answer, allowed, found>>
        /\ step' = (IF answer.fits THEN "filter" ELSE "unavailable")
        /\ ~Mismatch(LabelOf(Head(todo)), answer.space)
    BY <1>2 DEF Verdict
  <2>2. seen' \in {Unknown, answer.space}
    BY <2>1 DEF Mismatch
  <2>3. step' \in {"filter", "unavailable"} /\ "filter" \in Working
    BY <2>1 DEF Working
  <2>4. Shapes'
    BY <1>0, <2>1, <2>3 DEF SearchInv, Shapes
  <2>5. Found'
    BY <1>0, <2>1, <2>3, FindsNothing DEF Found
  <2>6. Checked'
    BY <1>0, <2>1, <2>2, <2>3, FindsNothing DEF Checked
  <2>7. Complete'
    BY <1>0, <2>1, <2>3, FindsNothing DEF Complete
  <2> QED
    BY <1>0, <2>1, <2>3, <2>4, <2>5, <2>6, <2>7, FindsNothing DEF SearchInv
<1> QED
  BY <1>1, <1>2

LEMMA FilterKeeps ==
  ASSUME StoresInv, SearchInv, Filter, UNCHANGED stores
  PROVE  SearchInv'
<1>0. /\ step = "filter" /\ step' = "scan" /\ UNCHANGED ukg
      /\ UNCHANGED <<req, todo, answer, order, found, ranks, hits, results, began, seen, foreign, moved>>
  BY DEF Filter, stores
<1>1. rows \subseteq Ids
  BY DEF StoresInv, TablesInv, Captures, Ids
<1>2. /\ allowed' \subseteq Ids /\ \A id \in allowed' : Passes(id)
      /\ \A id \in rows : InRange(req, id) /\ OfApps(req, id) => id \in allowed'
  <2> DEFINE F == {c \in rows : InRange(req, c) /\ OfApps(req, c)}
  <2>1. CASE Filtered(req)
    <3>1. allowed' = {rowid[c] : c \in F}
      BY <2>1 DEF Filter
    <3>2. {rowid[c] : c \in F} = F
      BY OwnIds DEF StoresInv
    <3>3. \A id \in F : Passes(id)
      BY DEF Passes, OfApps
    <3> QED
      BY <1>1, <3>1, <3>2, <3>3
  <2>2. CASE ~Filtered(req)
    <3>1. allowed' = Ids
      BY <2>2 DEF Filter
    <3>2. \A id : Passes(id)
      BY <2>2 DEF Filtered, Passes, InRange
    <3> QED
      BY <1>1, <3>1, <3>2
  <2> QED
    BY <2>1, <2>2
<1>3. Shapes'
  <2>1. "filter" \in Working \ {"leg"} /\ "scan" \in Working \ {"leg"}
    BY DEF Working
  <2> QED
    BY <1>0, <1>2, <2>1 DEF SearchInv, Shapes
<1>4. Found'
  <2>1. \A id \in allowed' : Passes(id)'
    BY <1>0, <1>2, SameFilter
  <2> QED
    BY <1>0, <2>1, FindsNothing DEF Found
<1>5. Checked'
  BY <1>0, FindsNothing DEF Checked, SearchInv
<1>6. Complete'
  <2>1. \A id \in began.rows \cap rows :
          InRange(req, id)' /\ OfApps(req, id)' => id \in allowed'
    BY <1>0, <1>2 DEF InRange, OfApps, ukg
  <2>2. began' = began /\ rows' = rows
    BY <1>0 DEF ukg
  <2> QED
    BY <1>0, <2>1, <2>2, FindsNothing DEF Complete
<1> QED
  BY <1>0, <1>3, <1>4, <1>5, <1>6, FindsNothing DEF SearchInv

LEMMA ScanKeeps ==
  ASSUME StoresInv, VectorsOld, SearchInv, Scan, UNCHANGED stores
  PROVE  SearchInv'
<1>a. PICK leg : leg = Head(todo)
  OBVIOUS
<1> DEFINE X == {id \in Ids : VecsOf(leg)[id] # <<>>}
           pool == FusionPool(req.limit)
<1>0. /\ step = "scan" /\ step' = "rows" /\ todo # <<>> /\ UNCHANGED ukg
      /\ UNCHANGED <<req, todo, answer, allowed, ranks, hits, results, began, seen>>
  BY DEF Scan, stores, SearchInv, Shapes, Working
<1>1. /\ leg \in Legs /\ leg \notin DOMAIN ranks
      /\ req.limit \in Nat /\ pool \in Nat /\ req.limit <= pool
  BY <1>0, <1>a, Rest, Limits DEF SearchInv, Shapes
<1>2. PICK o \in SetToAllKPermutations(X) :
        /\ order' = [l \in DOMAIN order \cup {leg} |-> IF l = leg THEN o ELSE order[l]]
        /\ found' \in Nearest(o, pool)
        /\ foreign' = IF \E id \in ToSet(found') : VecsOf(leg)[id] # <<answer.space>>
                      THEN foreign \cup {leg} ELSE foreign
  BY <1>a DEF Scan
<1>3. PICK e \in Kept(o, allowed) : found' = FirstOf(e, pool)
  BY <1>2 DEF Nearest
<1>4. X \subseteq Ids
  OBVIOUS
<1> HIDE DEF X
<1>5. /\ found' \in Seq(Ids) /\ ToSet(found') \subseteq X \cap allowed
      /\ \A i, j \in DOMAIN found' : i # j => found'[i] # found'[j]
      /\ Len(found') >= pool \/ ToSet(o) \cap allowed \subseteq ToSet(found')
      /\ ToSet(o) \subseteq X
  BY <1>1, <1>3, <1>4, Window
<1>6. Len(found') \in Nat
  BY <1>5, Places
<1> HIDE DEF pool
<1>7. \A l \in DOMAIN ranks : order'[l] = order[l] /\ l \in DOMAIN order
  BY <1>1, <1>2 DEF SearchInv, Shapes
<1>8. DOMAIN order' = DOMAIN order \cup {leg} /\ order'[leg] = o
  BY <1>2
<1>9. Shapes'
  <2>1. \A l \in DOMAIN order' : ToSet(order'[l]) \subseteq Ids
    BY <1>2, <1>4, <1>5 DEF SearchInv, Shapes
  <2>2. "rows" \in Working
    BY DEF Working
  <2>3. step # "answered"
    BY <1>0
  <2> QED
    BY <1>0, <1>1, <1>5, <1>7, <1>8, <2>1, <2>2, <2>3 DEF SearchInv, Shapes
<1>10. Untouched'
  BY <1>0 DEF SearchInv, Untouched, ukg
<1>11. Found'
  <2>1. \A id \in X : id <= seq
    BY <1>4 DEF VectorsOld, VecsOf, X
  <2>2. \A id \in ToSet(found') : Passes(id) /\ id <= seq
    BY <1>0, <1>5, <2>1 DEF SearchInv, Found
  <2>3. seq' = seq /\ \A id : Passes(id)' <=> Passes(id)
    BY <1>0, SameFilter DEF ukg
  <2> QED
    BY <1>0, <2>2, <2>3 DEF SearchInv, Found
<1>12. Checked'
  <2>1. moved' = IF LabelOf(leg) # seen THEN moved \cup {leg} ELSE moved
    BY <1>a DEF Scan
  <2>2. ASSUME LabelOf(leg) = seen, NEW id \in ToSet(found') PROVE VecsOf(leg)[id] = <<answer.space>>
    <3>1. seen \in {Unknown, answer.space}
      BY <1>0 DEF SearchInv, Checked
    <3>2. id \in Ids /\ VecsOf(leg)[id] # <<>>
      BY <1>5, <2>2 DEF X
    <3>3. /\ StoreInv(textLabel, textVecs, source["text"])
          /\ StoreInv(imageLabel, imageVecs, source["image"])
      BY DEF StoresInv, VectorsInv
    <3>4. VecsOf(leg)[id] = <<LabelOf(leg)>> /\ LabelOf(leg) # Unknown
      BY <3>2, <3>3 DEF StoreInv, VecsOf, LabelOf
    <3> QED
      BY <2>2, <3>1, <3>4
  <2>3. foreign' \subseteq moved'
    BY <1>2, <2>1, <2>2 DEF SearchInv, Checked
  <2> QED
    BY <1>0, <2>3 DEF Checked
<1>13. Complete'
  <2>1. ASSUME NEW id \in ToSet(o), Due(leg, id) PROVE id \in allowed
    BY <1>0, <2>1 DEF SearchInv, Complete, Due
  <2>2. Len(found') >= req.limit \/ \A id \in ToSet(o) : Due(leg, id) => id \in ToSet(found')
    BY <1>1, <1>5, <1>6, <2>1
  <2>3. \A l, id : Due(l, id)' <=> Due(l, id)
    BY <1>0, SameFilter
  <2>4. Taken(leg, found)'
    BY <1>0, <1>5, <1>8, <2>2, <2>3 DEF Taken
  <2>5. \A l \in DOMAIN ranks :
          /\ Taken(l, ranks[l])'
          /\ \A id \in ToSet(ranks'[l]) : id <= seq' /\ (id \in rows' => id \in hits')
    BY <1>0, <1>7, RanksKept
  <2>6. Head(todo') = leg /\ leg \in DOMAIN order'
    BY <1>0, <1>a, <1>8
  <2> QED
    BY <1>0, <2>4, <2>5, <2>6 DEF Complete
<1> QED
  BY <1>9, <1>10, <1>11, <1>12, <1>13 DEF SearchInv

\* The end of a leg that ranked: its window w joins the others, and the rows
\* H that were read join what was found.
LEMMA LegRanked ==
  ASSUME SearchInv, StoresInv, NEW leg, leg = Head(todo), todo # <<>>, step \in {"leg", "rows"},
         step' = "leg", todo' = Tail(todo), UNCHANGED <<ukg, req, results, began, foreign, moved>>,
         answer' \in [space : Labels, fits : BOOLEAN], allowed' \subseteq Ids, found' \in Seq(Ids),
         NEW w \in Seq(Ids), NEW H, hits' = hits \cup H,
         ranks' = [l \in DOMAIN ranks \cup {leg} |-> IF l = leg THEN w ELSE ranks[l]],
         DOMAIN order' = DOMAIN order \cup {leg}, \A l \in DOMAIN ranks : order'[l] = order[l],
         \A l \in DOMAIN order' : ToSet(order'[l]) \subseteq Ids,
         \A id \in H : id \in rows /\ Passes(id),
         \A id \in ToSet(w) : id <= seq /\ (id \in rows => id \in H),
         Taken(leg, w)'
  PROVE  SearchInv'
<1>0. /\ leg \in Legs /\ leg \notin DOMAIN ranks
      /\ Tail(todo) \in Seq(Legs) /\ Once(Tail(todo))
      /\ \A i \in DOMAIN Tail(todo) : Tail(todo)[i] \notin DOMAIN ranks \cup {leg}
  BY Rest DEF SearchInv
<1>1. seq' = seq /\ rows' = rows /\ rows \subseteq Captures /\ \A id \in rows : id <= seq
  BY DEF ukg, StoresInv, TablesInv
<1>2. DOMAIN ranks' = DOMAIN ranks \cup {leg} /\ ranks'[leg] = w
      /\ \A l \in DOMAIN ranks : ranks'[l] = ranks[l]
  BY <1>0
<1>3. Shapes'
  <2>1. results = <<>> /\ ToSet(results) \subseteq hits'
    BY DEF SearchInv, Shapes
  <2>2. hits' \subseteq Ids
    BY <1>1 DEF SearchInv, Shapes, Captures, Ids
  <2>3. "leg" \in Working
    BY DEF Working
  <2>4. DOMAIN ranks' \subseteq DOMAIN order' /\ DOMAIN order' \subseteq Legs
        /\ \A l \in DOMAIN ranks' : ranks'[l] \in Seq(Ids)
    BY <1>0, <1>2 DEF SearchInv, Shapes
  <2>5. \A i \in DOMAIN todo' : todo'[i] \notin DOMAIN ranks'
    BY <1>0, <1>2
  <2> QED
    BY <1>0, <2>1, <2>2, <2>3, <2>4, <2>5 DEF SearchInv, Shapes, Once
<1>4. Untouched'
  BY <1>1 DEF SearchInv, Untouched
<1>5. Found'
  <2>1. \A id \in H : id \in began.rows \/ id > began.seq
    BY DEF SearchInv, Untouched
  <2>2. \A id \in hits' : /\ id \in Captures /\ id <= seq /\ Passes(id)
                          /\ id \in began.rows \/ id > began.seq
    BY <1>1, <2>1 DEF SearchInv, Found
  <2>3. \A id : Passes(id)' <=> Passes(id)
    BY SameFilter
  <2> QED
    BY <1>1, <2>2, <2>3 DEF Found
<1>6. Checked'
  BY DEF SearchInv, Checked
<1>7. Complete'
  <2>1. \A l \in DOMAIN ranks :
          /\ Taken(l, ranks[l])'
          /\ \A id \in ToSet(ranks'[l]) : id <= seq' /\ (id \in rows' => id \in hits')
    BY <1>2, RanksKept
  <2>2. \A id \in ToSet(w) : id <= seq' /\ (id \in rows' => id \in hits')
    BY <1>1
  <2>3. \A l \in DOMAIN ranks' : 
          /\ Taken(l, ranks[l])'
          /\ \A id \in ToSet(ranks'[l]) : id <= seq' /\ (id \in rows' => id \in hits')
    <3>1. Taken(leg, ranks[leg])'
      BY <1>2
    <3> QED
      BY <1>2, <2>1, <2>2, <3>1
  <2> QED
    BY <2>3 DEF Complete
<1> QED
  BY <1>3, <1>4, <1>5, <1>6, <1>7 DEF SearchInv

LEMMA AbsorbKeeps ==
  ASSUME StoresInv, SearchInv, Absorb, UNCHANGED stores
  PROVE  SearchInv'
<1>a. PICK leg : leg = Head(todo)
  OBVIOUS
<1> DEFINE H == WithRows(ToSet(found))
<1>0. /\ step = "rows" /\ todo # <<>> /\ UNCHANGED ukg
      /\ step' = "leg" /\ todo' = Tail(todo)
      /\ answer' = NoAnswer /\ allowed' = {} /\ found' = <<>>
      /\ hits' = hits \cup H
      /\ ranks' = [l \in DOMAIN ranks \cup {leg} |-> IF l = leg THEN found ELSE ranks[l]]
      /\ UNCHANGED <<req, order, results, began, foreign, moved>>
  BY <1>a DEF Absorb, LegDone, stores, SearchInv, Shapes, Working
<1>1. found \in Seq(Ids) /\ ToSet(found) \subseteq Captures
  <2>1. found \in Seq(Ids)
    BY DEF SearchInv, Shapes
  <2>2. Ids = Captures /\ \A i \in DOMAIN found : found[i] \in Ids
    BY <2>1, Places DEF Ids, Captures
  <2> QED
    BY <2>1, <2>2 DEF ToSet
<1>2. leg \in DOMAIN order /\ Taken(leg, found)
  BY <1>a, <1>0 DEF SearchInv, Complete
<1>3. \A id \in ToSet(found) : Passes(id) /\ id <= seq
  BY <1>0 DEF SearchInv, Found
<1>4. \A id \in ToSet(found) : id \in rows <=> id \in H
  BY <1>1, OwnIds DEF WithRows, HasRow, StoresInv
<1>5. H \subseteq ToSet(found)
  BY DEF WithRows
<1>7. \A l, w : Taken(l, w) => Taken(l, w)'
  BY <1>0, SameFilter
<1>8. answer' \in [space : Labels, fits : BOOLEAN] /\ allowed' \subseteq Ids /\ found' \in Seq(Ids)
  BY <1>0 DEF NoAnswer, Labels
<1>9. /\ DOMAIN order' = DOMAIN order \cup {leg} /\ \A l \in DOMAIN ranks : order'[l] = order[l]
      /\ \A l \in DOMAIN order' : ToSet(order'[l]) \subseteq Ids
  BY <1>0, <1>2 DEF SearchInv, Shapes
<1>b. PICK w : w = found
  OBVIOUS
<1>10. /\ w \in Seq(Ids) /\ \A id \in ToSet(w) : id <= seq /\ (id \in rows => id \in H)
       /\ \A id \in H : id \in rows /\ Passes(id)
       /\ Taken(leg, w)'
       /\ ranks' = [l \in DOMAIN ranks \cup {leg} |-> IF l = leg THEN w ELSE ranks[l]]
  BY <1>0, <1>1, <1>2, <1>3, <1>4, <1>5, <1>7, <1>b
<1> HIDE DEF H
<1> QED
  BY <1>0, <1>a, <1>8, <1>9, <1>10, LegRanked

\* A step that neither the search nor what it reads sees.
LEMMA SearchSame ==
  ASSUME SearchInv, UNCHANGED ukg, UNCHANGED search
  PROVE  SearchInv'
<1>0. /\ UNCHANGED <<req, step, todo, answer, allowed, order, found, ranks, hits, results,
                     began, seen, foreign, moved>>
      /\ seq' = seq /\ rows' = rows /\ ts' = ts /\ related' = related
  BY DEF search, ukg
<1>1. Shapes' /\ Untouched' /\ Checked'
  BY <1>0 DEF SearchInv, Shapes, Untouched, Checked
<1>2. Found'
  <2>1. \A id : Passes(id)' <=> Passes(id)
    BY <1>0, SameFilter
  <2> QED
    BY <1>0, <2>1 DEF SearchInv, Found
<1>3. Complete'
  <2>1. \A leg, w : Taken(leg, w) => Taken(leg, w)'
    BY <1>0, SameFilter
  <2>2. \A id : InRange(req, id)' /\ OfApps(req, id)' => InRange(req, id) /\ OfApps(req, id)
    BY <1>0 DEF InRange, OfApps
  <2>3. step = "rows" => Head(todo) \in DOMAIN order /\ Taken(Head(todo), found)'
    BY <1>0, <2>1 DEF SearchInv, Complete
  <2>4. step # "none" => \A leg \in DOMAIN ranks : Taken(leg, ranks[leg])'
    BY <1>0, <2>1 DEF SearchInv, Complete
  <2> QED
    BY <1>0, <2>2, <2>3, <2>4 DEF SearchInv, Complete
<1> QED
  BY <1>1, <1>2, <1>3 DEF SearchInv

\* The applications a request names.
LEMMA Apps ==
  ASSUME req \in Requests \cup {NoRequest}
  PROVE  req.apps \in Seq(STRING)
<1>1. CASE req \in Requests
  BY <1>1, RequestsAssumption DEF SearchBody
<1>2. CASE req = NoRequest
  BY <1>2 DEF NoRequest
<1> QED
  BY <1>1, <1>2

\* The lexical leg binds each name twice, and compares some of them.
LEMMA FtsFilter ==
  ASSUME req \in Requests \cup {NoRequest}, NEW id, FtsOfApps(req, id)
  PROVE  req.apps = <<>> \/ {Path[id], Name[id]} \cap ToSet(req.apps) # {}
<1>1. req.apps \in Seq(STRING)
  BY Apps
<1> DEFINE n == Len(req.apps)
<1>2. n \in Nat /\ DOMAIN req.apps = 1 .. n
  BY <1>1, Places
<1>3. CASE n = 0
  BY <1>1, <1>3, EmptySeq
<1>4. CASE n # 0
  <2>1. \A i \in 1 .. 2 * n : (i + 1) \div 2 \in 1 .. n
    BY <1>2
  <2>2. \A i \in 1 .. 2 * n : req.apps[(i + 1) \div 2] \in ToSet(req.apps)
    BY <1>2, <2>1 DEF ToSet
  <2>3. \/ Path[id] \in {req.apps[(i + 1) \div 2] : i \in 1 .. n}
        \/ Name[id] \in {req.apps[(i + 1) \div 2] : i \in n + 1 .. 2 * n}
    BY <1>4 DEF FtsOfApps
  <2>4. 1 .. n \subseteq 1 .. 2 * n /\ n + 1 .. 2 * n \subseteq 1 .. 2 * n
    BY <1>2
  <2> QED
    BY <2>2, <2>3, <2>4
<1> QED
  BY <1>3, <1>4

LEMMA FtsKeeps ==
  ASSUME StoresInv, SearchInv, FtsLeg, UNCHANGED stores
  PROVE  SearchInv'
<1> DEFINE X == rows \cap indexed
           M == {c \in rows \cap indexed : InRange(req, c) /\ FtsOfApps(req, c)}
           pool == FusionPool(req.limit)
<1>0. /\ step = "leg" /\ todo # <<>> /\ Head(todo) = "fts" /\ UNCHANGED ukg
      /\ todo' = Tail(todo)
      /\ UNCHANGED <<req, step, answer, allowed, found, results, began, seen, foreign, moved>>
  BY DEF FtsLeg, stores
<1>1. req.limit \in Nat /\ pool \in Nat /\ req.limit <= pool
  BY Limits DEF SearchInv, Shapes
<1>2. {rowid[c] : c \in rows \cap indexed} = X /\ {rowid[c] : c \in M} = M
  BY OwnIds DEF StoresInv
<1>a. \E o \in SetToAllKPermutations(X) : \E e \in Kept(o, M) :
        /\ order' = [l \in DOMAIN order \cup {"fts"} |-> IF l = "fts" THEN o ELSE order[l]]
        /\ ranks' = [l \in DOMAIN ranks \cup {"fts"} |-> IF l = "fts" THEN FirstOf(e, pool) ELSE ranks[l]]
        /\ hits' = hits \cup ToSet(FirstOf(e, pool))
  BY <1>2 DEF FtsLeg
<1>b. PICK o \in SetToAllKPermutations(X) : \E e \in Kept(o, M) :
        /\ order' = [l \in DOMAIN order \cup {"fts"} |-> IF l = "fts" THEN o ELSE order[l]]
        /\ ranks' = [l \in DOMAIN ranks \cup {"fts"} |-> IF l = "fts" THEN FirstOf(e, pool) ELSE ranks[l]]
        /\ hits' = hits \cup ToSet(FirstOf(e, pool))
  BY <1>a, Zenon
<1>c. PICK e \in Kept(o, M) :
        /\ order' = [l \in DOMAIN order \cup {"fts"} |-> IF l = "fts" THEN o ELSE order[l]]
        /\ ranks' = [l \in DOMAIN ranks \cup {"fts"} |-> IF l = "fts" THEN FirstOf(e, pool) ELSE ranks[l]]
        /\ hits' = hits \cup ToSet(FirstOf(e, pool))
  BY <1>b, Zenon
<1>d. PICK w : w = FirstOf(e, pool)
  OBVIOUS
<1>3. /\ w = FirstOf(e, pool)
      /\ order' = [l \in DOMAIN order \cup {"fts"} |-> IF l = "fts" THEN o ELSE order[l]]
      /\ ranks' = [l \in DOMAIN ranks \cup {"fts"} |-> IF l = "fts" THEN w ELSE ranks[l]]
      /\ hits' = hits \cup ToSet(w)
  BY <1>c, <1>d
<1>4. X \subseteq Ids /\ \A id \in X : id \in rows /\ id <= seq
  BY DEF StoresInv, TablesInv, Captures, Ids
<1> HIDE DEF X
<1>5. /\ w \in Seq(Ids) /\ ToSet(w) \subseteq X \cap M
      /\ \A i, j \in DOMAIN w : i # j => w[i] # w[j]
      /\ Len(w) >= pool \/ ToSet(o) \cap M \subseteq ToSet(w)
      /\ ToSet(o) \subseteq X
  BY <1>1, <1>3, <1>4, Window
<1>6. Len(w) \in Nat
  BY <1>5, Places
<1> HIDE DEF pool
<1>7. "fts" \notin DOMAIN ranks
  BY <1>0, Rest DEF SearchInv
<1>8. /\ DOMAIN order' = DOMAIN order \cup {"fts"} /\ order'["fts"] = o
      /\ \A l \in DOMAIN ranks : order'[l] = order[l]
      /\ \A l \in DOMAIN order' : ToSet(order'[l]) \subseteq Ids
  BY <1>3, <1>4, <1>5, <1>7 DEF SearchInv, Shapes
<1>9. Taken("fts", w)'
  <2>1. ASSUME NEW id \in ToSet(o), Due("fts", id) PROVE id \in M
    BY <1>5, <2>1 DEF Due, X
  <2>2. Len(w) >= req.limit \/ \A id \in ToSet(o) : Due("fts", id) => id \in ToSet(w)
    BY <1>1, <1>5, <1>6, <2>1
  <2>3. \A l, id : Due(l, id)' <=> Due(l, id)
    BY <1>0, SameFilter
  <2> HIDE DEF M
  <2> QED
    BY <1>0, <1>5, <1>8, <2>2, <2>3 DEF Taken
<1>10. \A id \in ToSet(w) : id \in rows /\ id <= seq /\ Passes(id)
  <2>1. \A id \in M : InRange(req, id) /\ FtsOfApps(req, id)
    OBVIOUS
  <2>2. req \in Requests \cup {NoRequest}
    BY DEF SearchInv, Shapes
  <2> HIDE DEF M
  <2>3. \A id \in M : Passes(id)
    BY <2>1, <2>2, FtsFilter DEF Passes
  <2> QED
    BY <1>4, <1>5, <2>3
<1>11. answer' \in [space : Labels, fits : BOOLEAN] /\ allowed' \subseteq Ids /\ found' \in Seq(Ids)
  BY <1>0 DEF SearchInv, Shapes
<1> HIDE DEF M
<1> QED
  BY <1>0, <1>3, <1>5, <1>8, <1>9, <1>10, <1>11, LegRanked

LEMMA AnswerKeeps ==
  ASSUME StoresInv, SearchInv, Answer, UNCHANGED stores
  PROVE  SearchInv'
<1>0. /\ step = "leg" /\ todo = <<>> /\ step' = "answered" /\ UNCHANGED ukg
      /\ UNCHANGED <<req, todo, answer, allowed, order, found, ranks, hits, began, seen, foreign, moved>>
  BY DEF Answer, stores
<1>1. PICK p \in SetToSeqs(hits) : results' = FirstOf(p, req.limit)
  BY DEF Answer
<1>2. IsFiniteSet(hits) /\ Cardinality(hits) \in Nat
  BY IdsFinite DEF SearchInv, Shapes, Ids, Captures
<1>3. req.limit \in Nat
  BY Limits DEF SearchInv, Shapes
<1>4. /\ p \in Seq(hits) /\ Len(p) = Cardinality(hits) /\ DOMAIN p = 1 .. Len(p)
      /\ \A x \in hits : \E i \in DOMAIN p : p[i] = x
  BY <1>2, Listed
<1>5. /\ results' \in Seq(hits) /\ Len(results') \in Nat
      /\ Len(results') = (IF Len(p) < req.limit THEN Len(p) ELSE req.limit)
      /\ DOMAIN results' = 1 .. Len(results')
      /\ \A i \in DOMAIN results' : results'[i] = p[i] /\ i \in DOMAIN p
  BY <1>1, <1>3, <1>4, FirstOfPart
<1>6. ToSet(results') \subseteq hits
  BY <1>5, Places DEF ToSet
<1>7. Len(results') < req.limit =>
        Cardinality(hits) < req.limit /\ hits \subseteq ToSet(results')
  <2> SUFFICES ASSUME Len(p) < req.limit, NEW x \in hits PROVE x \in ToSet(results')
    BY <1>2, <1>3, <1>4, <1>5
  <2>1. PICK i \in DOMAIN p : p[i] = x
    BY <1>4
  <2> QED
    BY <1>4, <1>5, <2>1 DEF ToSet
<1>8. Shapes'
  BY <1>0, <1>6 DEF SearchInv, Shapes, Working
<1>9. Found'
  BY <1>0, FindsNothing DEF Found
<1>10. Checked'
  BY <1>0, FindsNothing DEF Checked
<1>11. Complete'
  BY <1>0, <1>7, FindsNothing DEF Complete
<1> QED
  BY <1>0, <1>8, <1>9, <1>10, <1>11, FindsNothing DEF SearchInv

LEMMA SearchKeeps ==
  ASSUME StoresInv, VectorsOld, SearchInv, SearchStep
  PROVE  SearchInv' /\ StoresInv' /\ VectorsOld'
<1>1. CASE SearchError
  <2>1. SearchInv'
    BY <1>1, StopKeeps DEF SearchError
  <2>2. StoresInv' /\ VectorsOld'
    <3>1. TablesInv'
      BY <1>1, SpendType DEF SearchError, StoresInv, TablesInv, ukg
    <3> QED
      BY <1>1, <3>1
      DEF SearchError, StoresInv, VectorsInv, StoreInv, WipeInv, VectorsOld, ukg, sem, erase
  <2> QED
    BY <2>1, <2>2
<1>2. CASE SearchNext /\ UNCHANGED stores
  <2>1. StoresInv' /\ VectorsOld'
    BY <1>2
    DEF stores, ukg, sem, erase, StoresInv, TablesInv, VectorsInv, StoreInv, WipeInv, VectorsOld
  <2>2. SearchInv'
    BY <1>2, BeginKeeps, FtsKeeps, NoEmbeddingKeeps, EmbeddedKeeps, VerdictKeeps, FilterKeeps,
       ScanKeeps, AbsorbKeeps, AnswerKeeps DEF SearchNext
  <2> QED
    BY <2>1, <2>2
<1> QED
  BY <1>1, <1>2 DEF SearchStep

-----------------------------------------------------------------------------
(* The export *)

\* What the next page may hold.
Older(before) == {id \in rows : before = 0 \/ ts[id] < before}

LEMMA PageFacts ==
  ASSUME StoresInv, NEW before \in Nat, NEW limit \in Nat \ {0}, NEW page \in Pages(before, limit)
  PROVE  /\ page \in Seq(Older(before)) /\ Once(page)
         /\ page = <<>> => Older(before) = {}
         /\ page # <<>> =>
              /\ Last(page) \in ToSet(page) /\ \A id \in ToSet(page) : ts[id] >= ts[Last(page)]
              /\ \A id \in Older(before) : id \in ToSet(page) \/ ts[id] <= ts[Last(page)]
              /\ \A id \in Older(before) : ts[id] <= ts[page[1]]
<1> DEFINE old == Older(before)
<1>1. /\ rows \subseteq Captures /\ \A c \in rows : c <= seq /\ Owner(c) = c
      /\ \A c \in rows : ts[c] \in Nat
  BY OwnIds DEF StoresInv, TablesInv
<1>2. {id \in RowIds : before = 0 \/ ts[Owner(id)] < before} = old
  BY <1>1, OwnIds DEF Older, StoresInv
<1>3. IsFiniteSet(old) /\ old \subseteq rows
  BY <1>1, IdsFinite DEF Older
<1>4. PICK p \in SetToSeqs(old) :
        /\ \A i, j \in DOMAIN p : i < j => ts[Owner(p[i])] >= ts[Owner(p[j])]
        /\ page = SubSeq(p, 1, IF Len(p) < limit THEN Len(p) ELSE limit)
  BY <1>2 DEF Pages
<1>5. /\ p \in Seq(old) /\ Len(p) \in Nat /\ DOMAIN p = 1 .. Len(p)
      /\ \A i, j \in DOMAIN p : i # j => p[i] # p[j]
      /\ \A x \in old : \E i \in DOMAIN p : p[i] = x
  BY <1>3, <1>4, Listed
<1> HIDE DEF old
<1>6. /\ page \in Seq(old) /\ Len(page) \in Nat
      /\ Len(page) = (IF Len(p) < limit THEN Len(p) ELSE limit)
      /\ DOMAIN page = 1 .. Len(page)
      /\ \A i \in 1 .. Len(page) : page[i] = p[i] /\ i \in DOMAIN p
  <2> DEFINE m == IF Len(p) < limit THEN Len(p) ELSE limit
  <2>1. /\ page \in Seq(old) /\ Len(page) = m /\ m \in Nat /\ DOMAIN page = 1 .. m
        /\ \A i \in 1 .. m : page[i] = p[i] /\ i \in DOMAIN p
    BY <1>4, <1>5, FirstPart
  <2> QED
    BY <2>1
<1>7. \A i \in DOMAIN p : p[i] \in old /\ ts[p[i]] \in Nat /\ Owner(p[i]) = p[i]
  BY <1>1, <1>3, <1>5, Places
<1>8. Once(page)
  BY <1>5, <1>6 DEF Once
<1>9. \A i \in DOMAIN p : i <= Len(page) => p[i] \in ToSet(page)
  BY <1>5, <1>6 DEF ToSet
<1>10. ASSUME page = <<>> PROVE old = {}
  <2>1. Len(p) = 0
    BY <1>5, <1>6, <1>10
  <2> QED
    BY <1>5, <2>1
<1>11. ASSUME page # <<>>
       PROVE  /\ Last(page) \in ToSet(page) /\ \A id \in ToSet(page) : ts[id] >= ts[Last(page)]
              /\ \A id \in old : id \in ToSet(page) \/ ts[id] <= ts[Last(page)]
              /\ \A id \in old : ts[id] <= ts[page[1]]
  <2>1. Len(page) >= 1 /\ Len(page) \in DOMAIN page /\ Last(page) = p[Len(page)] /\ Len(page) \in DOMAIN p
    BY <1>6, <1>11, EmptySeq DEF Last
  <2>2. \A i, j \in DOMAIN p : i <= j => ts[p[i]] >= ts[p[j]]
    BY <1>4, <1>5, <1>7
  <2>3. \A id \in ToSet(page) : \E i \in DOMAIN p : i <= Len(page) /\ id = p[i]
    BY <1>5, <1>6 DEF ToSet
  <2>4. \A id \in ToSet(page) : ts[id] >= ts[Last(page)]
    BY <2>1, <2>2, <2>3
  <2>5. ASSUME NEW id \in old PROVE id \in ToSet(page) \/ ts[id] <= ts[Last(page)]
    <3>1. PICK i \in DOMAIN p : p[i] = id
      BY <1>5
    <3>2. i <= Len(page) \/ Len(page) <= i
      BY <1>5, <1>6
    <3>3. CASE i <= Len(page)
      BY <1>9, <3>1, <3>3
    <3>4. CASE Len(page) <= i
      BY <1>7, <2>1, <2>2, <3>1, <3>4
    <3> QED
      BY <3>2, <3>3, <3>4
  <2>6. \A id \in old : ts[id] <= ts[page[1]]
    <3>1. 1 \in DOMAIN p /\ page[1] = p[1] /\ \A i \in DOMAIN p : 1 <= i
      BY <1>5, <1>6, <2>1
    <3> QED
      BY <1>5, <1>7, <2>2, <3>1
  <2> QED
    BY <1>9, <2>1, <2>4, <2>5, <2>6
<1> QED
  BY <1>6, <1>8, <1>10, <1>11 DEF old

\* Everything that was there throughout is out, shares its time with an edge,
\* or is older than the cursor.
ExportInv ==
  /\ export \in [step : {"none", "page", "done"}, cursor : Nat, out : Seq(Ids)]
  /\ present \subseteq rows /\ edges \subseteq Nat
  /\ export.cursor = 0 => export.out = <<>>
  /\ export.step = "none" => export.cursor = 0
  /\ Once(export.out)
  /\ \A i \in DOMAIN export.out : export.out[i] <= seq /\ ts[export.out[i]] >= export.cursor
  /\ export.step # "none" =>
       \A id \in present : \/ id \in ToSet(export.out) \/ ts[id] \in edges
                           \/ export.step = "page" /\ id \in Older(export.cursor)

LEMMA ExportInitial == ViewsInit => ExportInv
<1> SUFFICES ASSUME ViewsInit PROVE ExportInv
  OBVIOUS
<1>1. /\ export = [step |-> "none", cursor |-> 0, out |-> <<>>] /\ present = {} /\ edges = {}
  BY DEF ViewsInit, FeedsInit
<1>2. <<>> \in Seq(Ids) /\ Once(<<>>) /\ DOMAIN <<>> = {}
  BY DEF Once
<1> QED
  BY <1>1, <1>2 DEF ExportInv

\* Two sequences that have nothing in common and nothing twice.
LEMMA Joined ==
  ASSUME NEW S, NEW p \in Seq(S), NEW q \in Seq(S), Once(p), Once(q),
         \A i \in DOMAIN p : \A j \in DOMAIN q : p[i] # q[j]
  PROVE  LET r == p \o q
         IN  /\ r \in Seq(S) /\ Once(r) /\ ToSet(r) = ToSet(p) \cup ToSet(q)
             /\ \A k \in DOMAIN r : r[k] \in ToSet(p) \cup ToSet(q)
<1> DEFINE r == p \o q
<1>1. /\ Len(p) \in Nat /\ DOMAIN p = 1 .. Len(p) /\ Len(q) \in Nat /\ DOMAIN q = 1 .. Len(q)
  BY Places
<1>2. /\ r \in Seq(S) /\ Len(r) = Len(p) + Len(q)
      /\ \A i \in 1 .. Len(r) : r[i] = IF i <= Len(p) THEN p[i] ELSE q[i - Len(p)]
  BY ConcatProperties
<1> HIDE DEF r
<1>3. DOMAIN r = 1 .. Len(p) + Len(q)
  BY <1>2, Places
<1>4. \A i \in DOMAIN r : \/ i \in DOMAIN p /\ r[i] = p[i]
                          \/ i - Len(p) \in DOMAIN q /\ r[i] = q[i - Len(p)]
  BY <1>1, <1>2, <1>3
<1>5. Once(r)
  <2> SUFFICES ASSUME NEW i \in DOMAIN r, NEW j \in DOMAIN r, i # j PROVE r[i] # r[j]
    BY DEF Once
  <2>1. i \in Int /\ j \in Int /\ i - Len(p) # j - Len(p)
    BY <1>1, <1>3
  <2> QED
    BY <1>4, <2>1 DEF Once
<1>6. \A k \in DOMAIN r : r[k] \in ToSet(p) \cup ToSet(q)
  BY <1>4 DEF ToSet
<1>7. ASSUME NEW x \in ToSet(p) \cup ToSet(q) PROVE x \in ToSet(r)
  <2>1. CASE x \in ToSet(p)
    <3>1. PICK i \in DOMAIN p : x = p[i]
      BY <2>1 DEF ToSet
    <3>2. i \in DOMAIN r /\ r[i] = x
      BY <1>1, <1>2, <1>3, <3>1
    <3> QED
      BY <3>2 DEF ToSet
  <2>2. CASE x \in ToSet(q)
    <3>1. PICK i \in DOMAIN q : x = q[i]
      BY <2>2 DEF ToSet
    <3>2. i + Len(p) \in DOMAIN r /\ r[i + Len(p)] = q[i + Len(p) - Len(p)] /\ i + Len(p) - Len(p) = i
      BY <1>1, <1>2, <1>3
    <3> QED
      BY <3>1, <3>2 DEF ToSet
  <2> QED
    BY <1>7, <2>1, <2>2
<1>8. ToSet(r) \subseteq ToSet(p) \cup ToSet(q)
  BY <1>6 DEF ToSet
<1> QED
  BY <1>2, <1>5, <1>6, <1>7, <1>8 DEF r

LEMMA ExportKeeps ==
  ASSUME StoresInv, ExportInv, ExportStep
  PROVE  ExportInv'
<1>0. UNCHANGED stores /\ rows' = rows /\ seq' = seq /\ ts' = ts
  BY DEF ExportStep, stores, ukg
<1>1. CASE BeginExport
  <2>1. present' = rows
    BY <1>1, OwnIds DEF BeginExport, StoresInv
  <2>2. export' = [export EXCEPT !.step = "page"] /\ export.step = "none" /\ edges' = edges
    BY <1>1 DEF BeginExport
  <2>3. export.cursor = 0 /\ Older(0) = rows
    BY <2>2 DEF ExportInv, Older
  <2>4. export' = [step |-> "page", cursor |-> 0, out |-> export.out]
    BY <2>2, <2>3 DEF ExportInv
  <2>5. \A b : Older(b)' = Older(b)
    BY <1>0 DEF Older
  <2> QED
    BY <1>0, <2>1, <2>2, <2>3, <2>4, <2>5 DEF ExportInv
<1>2. CASE ExportNext
  <2>1. PICK page \in Pages(export.cursor, ExportPage) :
          IF page = <<>>
          THEN export' = [export EXCEPT !.step = "done"] /\ UNCHANGED edges
          ELSE /\ export' = [export EXCEPT !.cursor = Cursor(page), !.out = @ \o page]
               /\ edges' = edges \cup {ts[Owner(Last(page))]}
    BY <1>2, Zenon DEF ExportNext
  <2>2. present' = present /\ export.step = "page" /\ export.cursor \in Nat /\ ExportPage \in Nat \ {0}
    BY <1>2, PagesAssumption DEF ExportNext, ExportInv
  <2> DEFINE b == export.cursor
             old == Older(b)
  <2>3. /\ page \in Seq(old) /\ Once(page)
        /\ page = <<>> => old = {}
        /\ page # <<>> =>
             /\ Last(page) \in ToSet(page) /\ \A id \in ToSet(page) : ts[id] >= ts[Last(page)]
             /\ \A id \in old : id \in ToSet(page) \/ ts[id] <= ts[Last(page)]
    BY <2>1, <2>2, PageFacts
  <2>4. rows \subseteq Captures /\ \A c \in rows : c <= seq /\ Owner(c) = c /\ ts[c] \in Nat \ {0}
    BY OwnIds DEF StoresInv, TablesInv
  <2>5. old \subseteq rows /\ old \subseteq Ids /\ \A id \in old : b = 0 \/ ts[id] < b
    BY <2>4 DEF Older, Captures, Ids
  <2> HIDE DEF old
  <2>6. CASE page = <<>>
    <3>1. export' = [step |-> "done", cursor |-> export.cursor, out |-> export.out] /\ edges' = edges
      BY <2>1, <2>6 DEF ExportInv
    <3> QED
      BY <1>0, <2>2, <2>3, <2>6, <3>1 DEF ExportInv, old
  <2>7. CASE page # <<>>
    <3> DEFINE out == export.out
               r == out \o page
               last == Last(page)
    <3>1. last \in old /\ ToSet(page) \subseteq old
      BY <2>3, <2>7, Places DEF ToSet
    <3>2. ts[last] \in Nat \ {0} /\ Owner(last) = last
      BY <2>4, <2>5, <3>1
    <3>3. export' = [step |-> "page", cursor |-> ts[last], out |-> r] /\ edges' = edges \cup {ts[last]}
      BY <2>1, <2>2, <2>7, <3>2 DEF ExportInv, Cursor
    <3>4. /\ out \in Seq(Ids) /\ Once(out) /\ page \in Seq(Ids)
          /\ \A i \in DOMAIN out : out[i] \in Ids /\ out[i] <= seq /\ ts[out[i]] >= b
      BY <2>3, <2>5, Places DEF ExportInv
    <3>5. \A i \in DOMAIN out : ts[out[i]] \in Nat
      BY <3>4 DEF StoresInv, TablesInv, Ids, Captures
    <3>6. b = 0 => out = <<>>
      BY DEF ExportInv
    <3>7. \A j \in DOMAIN page : page[j] \in old /\ page[j] \in ToSet(page)
      BY <2>3, Places DEF ToSet
    <3> HIDE DEF out, last
    <3>8. \A i \in DOMAIN out : \A j \in DOMAIN page : out[i] # page[j]
      <4> SUFFICES ASSUME NEW i \in DOMAIN out, NEW j \in DOMAIN page, out[i] = page[j] PROVE FALSE
        OBVIOUS
      <4>1. b # 0
        BY <3>4, <3>6, EmptySeq
      <4> QED
        BY <2>2, <2>5, <3>4, <3>5, <3>7, <4>1
    <3>9. /\ r \in Seq(Ids) /\ Once(r) /\ ToSet(r) = ToSet(out) \cup ToSet(page)
          /\ \A k \in DOMAIN r : r[k] \in ToSet(out) \cup ToSet(page)
      BY <2>3, <3>4, <3>8, Joined
    <3> HIDE DEF r
    <3>10. ASSUME NEW k \in DOMAIN r PROVE r[k] <= seq /\ ts[r[k]] >= ts[last]
      <4>1. CASE r[k] \in ToSet(page)
        BY <2>3, <2>4, <2>5, <2>7, <3>1, <4>1 DEF last
      <4>2. CASE r[k] \in ToSet(out)
        <5>1. PICK i \in DOMAIN out : r[k] = out[i]
          BY <4>2 DEF ToSet
        <5>2. b # 0 /\ ts[last] < b
          BY <2>5, <3>1, <3>4, <3>6, <5>1, EmptySeq
        <5> QED
          BY <2>2, <3>2, <3>4, <3>5, <5>1, <5>2
      <4> QED
        BY <3>9, <4>1, <4>2
    <3>11. ASSUME NEW id \in present
           PROVE  id \in ToSet(r) \/ ts[id] \in edges' \/ (id \in rows /\ ts[id] < ts[last])
      <4>1. id \in rows /\ (id \in ToSet(out) \/ ts[id] \in edges \/ id \in old)
        BY <2>2 DEF ExportInv, out, old
      <4>2. CASE id \in old
        <5>1. id \in ToSet(page) \/ ts[id] <= ts[last]
          BY <2>3, <2>7, <4>2 DEF last
        <5> QED
          BY <2>4, <3>2, <3>3, <3>9, <4>1, <5>1
      <4> QED
        BY <3>3, <3>9, <4>1, <4>2
    <3>12. /\ export'.step = "page" /\ export'.cursor = ts[last] /\ export'.out = r
           /\ export' \in [step : {"none", "page", "done"}, cursor : Nat, out : Seq(Ids)]
      BY <3>2, <3>3, <3>9
    <3>13. Older(export.cursor)' = {id \in rows : ts[id] < ts[last]}
      BY <1>0, <3>2, <3>12 DEF Older
    <3>14. present' \subseteq rows' /\ edges' \subseteq Nat
      BY <1>0, <2>2, <3>2, <3>3 DEF ExportInv
    <3> QED
      BY <1>0, <2>2, <3>2, <3>9, <3>10, <3>11, <3>12, <3>13, <3>14 DEF ExportInv
  <2> QED
    BY <2>6, <2>7
<1> QED
  BY <1>1, <1>2 DEF ExportStep

LEMMA ExportBeside ==
  ASSUME StoresInv, ExportInv, StoresNext, Watch, UNCHANGED <<export, edges>>
  PROVE  ExportInv'
<1>1. /\ seq \in Nat /\ seq' \in Nat /\ seq <= seq' /\ ts' = ts /\ rows \subseteq Captures
      /\ \A c \in rows : c <= seq
  BY StoresHistory DEF StoresInv, TablesInv
<1>2. present' = present \cap rows'
  <2>1. rows' \subseteq Captures
    BY StoresKept DEF StoresInv, TablesInv
  <2>2. \A c \in rows' : IF c <= seq THEN rowid[c] = c ELSE rowid[c] = 0
    BY <2>1 DEF StoresInv, TablesInv
  <2>3. \A id \in present : id \in Nat \ {0} /\ id <= seq
    BY <1>1 DEF ExportInv, Captures
  <2>4. \A id \in present : id \in {rowid[c] : c \in rows'} <=> id \in rows'
    BY <2>2, <2>3
  <2> QED
    BY <2>4 DEF Watch
<1>3. \A i \in DOMAIN export.out : export.out[i] \in Nat
  <2>1. export.out \in Seq(Ids) /\ \A id \in Ids : id \in Nat
    BY DEF ExportInv, Ids
  <2> QED
    BY <2>1, Places
<1>4. \A i \in DOMAIN export.out : export.out[i] <= seq'
  BY <1>1, <1>3 DEF ExportInv
<1>5. \A id \in present' : id \in Older(export.cursor) => id \in Older(export.cursor)'
  BY <1>1, <1>2 DEF Older
<1> QED
  BY <1>1, <1>2, <1>4, <1>5 DEF ExportInv

\* A step that neither the export nor the tables see.
LEMMA ExportSame ==
  ASSUME ExportInv, UNCHANGED ukg, UNCHANGED <<export, present, edges>>
  PROVE  ExportInv'
<1>1. \A b : Older(b)' = Older(b)
  BY DEF Older, ukg
<1> QED
  BY <1>1 DEF ExportInv, ukg

-----------------------------------------------------------------------------
(* The live feed *)

\* A sequence of ids in ascending order.
Ascending(p) == \A i, j \in DOMAIN p : i < j => p[i] < p[j]

\* What was sent is below the feed's position, what it has in hand above.
LiveInv ==
  /\ live \in [step : {"none", "poll", "closed"}, last : Nat, batch : Seq(Ids)]
  /\ live.last <= seq /\ (live.batch # <<>> => live.step = "poll")
  /\ live.step = "none" => sent = <<>>
  /\ Ascending(live.batch)
  /\ \A i \in DOMAIN live.batch : live.batch[i] > live.last /\ live.batch[i] <= seq
  /\ sent \in Seq(Ids) /\ Ascending(sent)
  /\ \A i \in DOMAIN sent : sent[i] <= live.last

LEMMA LiveInitial == ViewsInit => LiveInv
<1> SUFFICES ASSUME ViewsInit PROVE LiveInv
  OBVIOUS
<1>1. live = [step |-> "none", last |-> 0, batch |-> <<>>] /\ sent = <<>>
  BY DEF ViewsInit, FeedsInit
<1>2. <<>> \in Seq(Ids) /\ Ascending(<<>>) /\ DOMAIN <<>> = {}
  BY DEF Ascending
<1>3. seq \in Nat
  BY StoresInit, StoresAssumption DEF StoresInv, TablesInv
<1> QED
  BY <1>1, <1>2, <1>3 DEF LiveInv

\* Neither the feed nor the last id is set back.
LEMMA LiveSame ==
  ASSUME LiveInv, UNCHANGED <<live, sent>>, seq \in Nat, seq' \in Nat, seq <= seq'
  PROVE  LiveInv'
<1>1. \A i \in DOMAIN live.batch : live.batch[i] \in Nat
  <2>1. live.batch \in Seq(Ids) /\ \A id \in Ids : id \in Nat
    BY DEF LiveInv, Ids
  <2> QED
    BY <2>1, Places
<1>2. live.last \in Nat
  BY DEF LiveInv
<1> QED
  BY <1>1, <1>2 DEF LiveInv, Ascending

LEMMA PollFacts ==
  ASSUME StoresInv, LiveInv, NEW ids \in PollIds
  PROVE  /\ ids \in Seq(Ids) /\ Ascending(ids)
         /\ \A i \in DOMAIN ids : ids[i] > live.last /\ ids[i] <= seq
<1> DEFINE new == {id \in RowIds : id > live.last}
<1>1. /\ new \subseteq Captures /\ \A id \in new : id > live.last /\ id <= seq
      /\ new \subseteq Ids
  BY OwnIds DEF StoresInv, TablesInv, Captures, Ids
<1>2. IsFiniteSet(new)
  BY <1>1, IdsFinite
<1>3. PICK p \in SetToSeqs(new) :
        /\ \A i, j \in DOMAIN p : i < j => p[i] < p[j]
        /\ ids = SubSeq(p, 1, IF Len(p) < LivePage THEN Len(p) ELSE LivePage)
  BY DEF PollIds
<1> HIDE DEF new
<1>4. p \in Seq(new) /\ Len(p) \in Nat /\ DOMAIN p = 1 .. Len(p)
  BY <1>2, <1>3, Listed
<1> DEFINE m == IF Len(p) < LivePage THEN Len(p) ELSE LivePage
<1>5. /\ ids \in Seq(new) /\ m \in Nat /\ DOMAIN ids = 1 .. m
      /\ \A i \in 1 .. m : ids[i] = p[i] /\ i \in DOMAIN p
  <2>1. LivePage \in Nat
    BY PagesAssumption
  <2> QED
    BY <1>3, <1>4, <2>1, FirstPart
<1> HIDE DEF m
<1>6. \A i \in DOMAIN ids : ids[i] \in new
  BY <1>5, Places
<1>7. ids \in Seq(Ids)
  BY <1>1, <1>5
<1> QED
  BY <1>1, <1>3, <1>5, <1>6, <1>7 DEF Ascending

LEMMA LiveKeeps ==
  ASSUME StoresInv, LiveInv, LiveNext, UNCHANGED ukg
  PROVE  LiveInv'
<1>0. seq' = seq /\ seq \in Nat
  BY StoresAssumption DEF ukg, StoresInv, TablesInv
<1>a. <<>> \in Seq(Ids) /\ Ascending(<<>>) /\ DOMAIN <<>> = {}
  BY DEF Ascending
<1>1. CASE BeginLive
  <2>1. PICK page \in Pages(0, 1) \cup {<<>>} :
          live' = [live EXCEPT !.step = "poll", !.last = IF page = <<>> THEN 0 ELSE Head(page)]
    BY <1>1 DEF BeginLive
  <2>2. sent' = sent /\ sent = <<>> /\ live.batch = <<>>
    BY <1>1 DEF BeginLive, LiveInv
  <2> DEFINE n == IF page = <<>> THEN 0 ELSE Head(page)
  <2>3. n \in Nat /\ n <= seq
    <3>1. CASE page = <<>>
      BY <1>0, <3>1
    <3>2. CASE page # <<>>
      <4>1. page \in Seq(Older(0))
        BY <2>1, <3>2, PageFacts
      <4>2. Head(page) \in Older(0)
        BY <3>2, <4>1, HeadTailProperties
      <4>3. rows \subseteq Captures /\ \A c \in rows : c <= seq
        BY DEF StoresInv, TablesInv
      <4>a. PICK h : h = Head(page)
        OBVIOUS
      <4>b. h \in rows
        BY <4>2, <4>a DEF Older
      <4>c. h \in Nat /\ h <= seq
        BY <4>3, <4>b, StoresAssumption DEF Captures
      <4>4. Head(page) \in Nat /\ Head(page) <= seq
        BY <4>a, <4>c
      <4> QED
        BY <3>2, <4>4
    <3> QED
      BY <3>1, <3>2
  <2> HIDE DEF n
  <2>4. live' = [step |-> "poll", last |-> n, batch |-> <<>>]
    BY <2>1, <2>2 DEF LiveInv, n
  <2> QED
    BY <1>0, <1>a, <2>2, <2>3, <2>4 DEF LiveInv
<1>2. CASE Poll
  <2>1. PICK ids \in PollIds : live' = [live EXCEPT !.batch = ids]
    BY <1>2 DEF Poll
  <2>2. live' = [step |-> "poll", last |-> live.last, batch |-> ids] /\ sent' = sent
    BY <1>2, <2>1 DEF Poll, LiveInv
  <2>3. /\ ids \in Seq(Ids) /\ Ascending(ids)
        /\ \A i \in DOMAIN ids : ids[i] > live.last /\ ids[i] <= seq
    BY PollFacts
  <2>4. live.last \in Nat /\ live.last <= seq /\ sent \in Seq(Ids) /\ Ascending(sent)
        /\ \A i \in DOMAIN sent : sent[i] <= live.last
    BY DEF LiveInv
  <2>5. live' \in [step : {"none", "poll", "closed"}, last : Nat, batch : Seq(Ids)]
    BY <2>2, <2>3, <2>4
  <2>6. live'.last = live.last /\ live'.step = "poll" /\ live'.batch = ids
    BY <2>2
  <2> HIDE DEF Ascending
  <2> QED
    BY <1>0, <2>2, <2>3, <2>4, <2>5, <2>6 DEF LiveInv
<1>3. CASE PollError
  BY <1>0, <1>3, LiveSame DEF PollError
<1>4. CASE SendRow
  <2> DEFINE b == live.batch
             h == Head(live.batch)
  <2>1. b \in Seq(Ids) /\ b # <<>> /\ live.last \in Nat /\ sent \in Seq(Ids)
    BY <1>4 DEF SendRow, LiveInv
  <2>2. h = b[1] /\ h \in Ids /\ 1 \in DOMAIN b /\ h > live.last /\ h <= seq /\ h \in Nat
    <3>1. Len(b) \in Nat /\ DOMAIN b = 1 .. Len(b) /\ Len(b) >= 1
      BY <2>1, Places, EmptySeq
    <3>2. h = b[1] /\ 1 \in DOMAIN b
      BY <2>1, <3>1, HeadTailProperties
    <3>3. b[1] \in Ids
      BY <2>1, <3>2, Places
    <3> QED
      BY <3>2, <3>3 DEF LiveInv, Ids
  <2>3. live' = [step |-> "poll", last |-> h, batch |-> Tail(b)] /\ sent' = Append(sent, h)
    <3>1. LastAfter(live.last, h) = h
      BY <2>1, <2>2 DEF LastAfter
    <3> QED
      BY <1>4, <3>1 DEF SendRow, LiveInv
  <2> HIDE DEF h
  <2>4. /\ Tail(b) \in Seq(Ids) /\ Ascending(Tail(b))
        /\ \A i \in DOMAIN Tail(b) : Tail(b)[i] > h /\ Tail(b)[i] <= seq
    <3>1. Len(b) \in Nat /\ DOMAIN b = 1 .. Len(b) /\ Len(b) >= 1
      BY <2>1, Places, EmptySeq
    <3>2. /\ Tail(b) \in Seq(Ids) /\ Len(Tail(b)) = Len(b) - 1
          /\ \A i \in 1 .. Len(Tail(b)) : Tail(b)[i] = b[i + 1]
      BY <2>1, HeadTailProperties
    <3>3. DOMAIN Tail(b) = 1 .. Len(b) - 1
      BY <3>1, <3>2, Places
    <3>4. \A i \in DOMAIN Tail(b) : Tail(b)[i] = b[i + 1] /\ i + 1 \in DOMAIN b /\ i + 1 > 1 /\ i \in Int
      BY <3>1, <3>2, <3>3
    <3>5. Ascending(b) /\ \A i \in DOMAIN b : b[i] <= seq
      BY DEF LiveInv
    <3> HIDE DEF b
    <3> QED
      BY <2>2, <3>2, <3>4, <3>5 DEF Ascending
  <2>5. /\ sent' \in Seq(Ids) /\ Ascending(sent') /\ \A i \in DOMAIN sent' : sent'[i] <= h
    <3>1. Len(sent) \in Nat /\ DOMAIN sent = 1 .. Len(sent) /\ \A i \in DOMAIN sent : sent[i] \in Nat
      <4>1. Len(sent) \in Nat /\ DOMAIN sent = 1 .. Len(sent) /\ \A i \in DOMAIN sent : sent[i] \in Ids
        BY <2>1, Places
      <4> QED
        BY <4>1 DEF Ids
    <3>2. /\ sent' \in Seq(Ids) /\ Len(sent') = Len(sent) + 1
          /\ \A i \in 1 .. Len(sent) : sent'[i] = sent[i]
          /\ sent'[Len(sent) + 1] = h
      BY <2>1, <2>2, <2>3, AppendProperties
    <3>3. DOMAIN sent' = 1 .. Len(sent) + 1
      BY <3>1, <3>2, Places
    <3>4. \A i \in DOMAIN sent' : i \in Nat /\ \/ i \in DOMAIN sent /\ sent'[i] = sent[i] /\ sent'[i] < h
                                               \/ i = Len(sent) + 1 /\ sent'[i] = h
      BY <2>1, <2>2, <3>1, <3>2, <3>3 DEF LiveInv
    <3>5. \A i, j \in DOMAIN sent' : i < j => i \in DOMAIN sent
      BY <3>1, <3>3
    <3>6. Ascending(sent)
      BY DEF LiveInv
    <3> QED
      BY <2>2, <3>1, <3>2, <3>4, <3>5, <3>6 DEF Ascending
  <2> HIDE DEF b
  <2> QED
    BY <1>0, <2>2, <2>3, <2>4, <2>5 DEF LiveInv
<1>5. CASE SendFails
  <2>1. live' = [step |-> "closed", last |-> live.last, batch |-> <<>>] /\ sent' = sent
    BY <1>5 DEF SendFails, LiveInv
  <2>2. live.step # "none"
    BY <1>5 DEF SendFails, LiveInv
  <2> QED
    BY <1>0, <1>a, <2>1, <2>2 DEF LiveInv
<1> QED
  BY <1>1, <1>2, <1>3, <1>4, <1>5 DEF LiveNext

\* An earlier capture of this id was stored after one as new or newer.
Late(id) == \E n \in earlier : n < id /\ ts[n] >= ts[id]

\* The feed began at the newest of the earlier captures; those above it are late.
EarlierInv ==
  /\ \A c \in earlier : c \in Captures /\ c <= seq
  /\ earlier # {} => \E n \in earlier : n <= live.last /\ \A c \in earlier : ts[c] <= ts[n]
  /\ \A i \in DOMAIN live.batch : live.batch[i] \in earlier => Late(live.batch[i])
  /\ \A i \in DOMAIN sent : sent[i] \in earlier => Late(sent[i])

LEMMA EarlierInitial == ViewsInit => EarlierInv
<1> SUFFICES ASSUME ViewsInit PROVE EarlierInv
  OBVIOUS
<1>1. live.batch = <<>> /\ sent = <<>> /\ earlier = {} /\ DOMAIN <<>> = {}
  BY DEF ViewsInit, FeedsInit
<1> QED
  BY <1>1 DEF EarlierInv

LEMMA EarlierSame ==
  ASSUME StoresInv, EarlierInv, UNCHANGED <<live, sent, earlier>>, UNCHANGED ts,
         seq' \in Nat, seq <= seq'
  PROVE  EarlierInv'
<1>1. seq \in Nat /\ \A c \in Captures : c \in Nat
  BY StoresAssumption DEF StoresInv, TablesInv, Captures
<1>2. \A c \in earlier : c \in Captures /\ c <= seq'
  BY <1>1 DEF EarlierInv
<1>3. \A id : Late(id)' = Late(id)
  BY DEF Late
<1> QED
  BY <1>2, <1>3 DEF EarlierInv

LEMMA EarlierKeeps ==
  ASSUME StoresInv, LiveInv, EarlierInv, LiveNext, UNCHANGED ukg
  PROVE  EarlierInv'
<1>0. /\ seq' = seq /\ ts' = ts /\ seq \in Nat /\ rows \subseteq Captures
      /\ \A c \in rows : c <= seq
  BY StoresAssumption DEF ukg, StoresInv, TablesInv
<1>a. DOMAIN <<>> = {}
  OBVIOUS
<1>1. CASE BeginLive
  <2>1. PICK page \in Pages(0, 1) \cup {<<>>} :
          /\ live' = [live EXCEPT !.step = "poll", !.last = IF page = <<>> THEN 0 ELSE Head(page)]
          /\ earlier' = IF page = <<>> THEN {} ELSE rows
    BY <1>1 DEF BeginLive
  <2>2. sent' = <<>> /\ live'.batch = <<>>
    BY <1>1, <2>1 DEF BeginLive, LiveInv
  <2>3. CASE page = <<>>
    BY <1>a, <2>1, <2>2, <2>3 DEF EarlierInv
  <2>4. CASE page # <<>>
    <3>1. page \in Seq(Older(0)) /\ \A id \in Older(0) : ts[id] <= ts[page[1]]
      BY <2>1, <2>4, PageFacts
    <3>2. Older(0) = rows
      BY DEF Older
    <3>3. Len(page) \in Nat /\ DOMAIN page = 1 .. Len(page) /\ Len(page) >= 1
      BY <2>4, <3>1, Places, EmptySeq
    <3>4. page[1] \in rows /\ Head(page) = page[1]
      BY <2>4, <3>1, <3>2, <3>3, Places, HeadTailProperties
    <3>5. live'.last = page[1] /\ earlier' = rows
      BY <2>1, <2>4, <3>4 DEF LiveInv
    <3>6. page[1] <= live'.last
      <4>1. \A c \in Captures : c <= c
        BY StoresAssumption DEF Captures
      <4> QED
        BY <1>0, <3>4, <3>5, <4>1
    <3>7. \E n \in earlier' : n <= live'.last /\ \A c \in earlier' : ts'[c] <= ts'[n]
      BY <1>0, <3>1, <3>2, <3>4, <3>5, <3>6
    <3> QED
      BY <1>0, <1>a, <2>2, <3>5, <3>7 DEF EarlierInv
  <2> QED
    BY <2>3, <2>4
<1>b. ASSUME earlier' = earlier PROVE \A id : Late(id)' = Late(id)
  BY <1>0, <1>b DEF Late
<1>2. CASE Poll
  <2>1. PICK ids \in PollIds : live' = [live EXCEPT !.batch = ids]
    BY <1>2 DEF Poll
  <2>2. live'.batch = ids /\ live'.last = live.last /\ sent' = sent /\ earlier' = earlier
    BY <1>2, <2>1 DEF Poll, LiveInv
  <2>3. \A i \in DOMAIN ids : ids[i] > live.last /\ ids[i] \in Nat
    <3>1. ids \in Seq(Ids) /\ \A i \in DOMAIN ids : ids[i] > live.last
      BY PollFacts
    <3>2. \A i \in DOMAIN ids : ids[i] \in Ids
      BY <3>1, Places
    <3> QED
      BY <3>1, <3>2 DEF Ids
  <2>4. ASSUME NEW i \in DOMAIN ids, ids[i] \in earlier PROVE Late(ids[i])
    <3>1. PICK n \in earlier : n <= live.last /\ \A c \in earlier : ts[c] <= ts[n]
      BY <2>4 DEF EarlierInv
    <3>2. n \in Nat /\ live.last \in Nat /\ ts[n] \in Nat /\ ts[ids[i]] \in Nat
      BY <2>4, StoresAssumption DEF EarlierInv, LiveInv, StoresInv, TablesInv, Captures
    <3> QED
      BY <2>3, <2>4, <3>1, <3>2 DEF Late
  <2> QED
    BY <1>0, <1>b, <2>2, <2>4 DEF EarlierInv
<1>3. CASE PollError
  BY <1>0, <1>3, EarlierSame DEF PollError
<1>4. CASE SendRow
  <2> DEFINE b == live.batch
             h == Head(live.batch)
  <2>1. b \in Seq(Ids) /\ b # <<>> /\ live.last \in Nat /\ sent \in Seq(Ids)
    BY <1>4 DEF SendRow, LiveInv
  <2>2. Len(b) \in Nat /\ DOMAIN b = 1 .. Len(b) /\ Len(b) >= 1 /\ h = b[1] /\ h \in Ids
    <3>1. Len(b) \in Nat /\ DOMAIN b = 1 .. Len(b) /\ Len(b) >= 1
      BY <2>1, Places, EmptySeq
    <3>2. h = b[1] /\ b[1] \in Ids
      BY <2>1, <3>1, Places, HeadTailProperties
    <3> QED
      BY <3>1, <3>2
  <2>3. /\ live'.batch = Tail(b) /\ live'.last = LastAfter(live.last, h)
        /\ sent' = Append(sent, h) /\ earlier' = earlier
    BY <1>4 DEF SendRow, LiveInv
  <2>4. live.last <= live'.last /\ live'.last \in Nat
    BY <2>1, <2>2, <2>3 DEF LastAfter, Ids
  <2>5. \A i \in DOMAIN Tail(b) : \E j \in DOMAIN b : Tail(b)[i] = b[j]
    <3>1. /\ Len(Tail(b)) = Len(b) - 1 /\ Tail(b) \in Seq(Ids)
          /\ \A i \in 1 .. Len(Tail(b)) : Tail(b)[i] = b[i + 1]
      BY <2>1, HeadTailProperties
    <3>2. DOMAIN Tail(b) = 1 .. Len(b) - 1
      BY <2>2, <3>1, Places
    <3> QED
      BY <2>2, <3>1, <3>2
  <2>6. \A i \in DOMAIN sent' : sent'[i] = h \/ \E j \in DOMAIN sent : sent'[i] = sent[j]
    <3>1. Len(sent) \in Nat /\ DOMAIN sent = 1 .. Len(sent)
      BY <2>1, Places
    <3>2. /\ sent' \in Seq(Ids) /\ Len(sent') = Len(sent) + 1
          /\ \A i \in 1 .. Len(sent) : sent'[i] = sent[i]
          /\ sent'[Len(sent) + 1] = h
      BY <2>1, <2>2, <2>3, AppendProperties
    <3>3. DOMAIN sent' = 1 .. Len(sent) + 1
      BY <3>1, <3>2, Places
    <3> QED
      BY <3>1, <3>2, <3>3
  <2>7. h \in earlier => Late(h)
    BY <2>2 DEF EarlierInv
  <2>8. earlier # {} => \E n \in earlier : n <= live'.last /\ \A c \in earlier : ts[c] <= ts[n]
    <3>1. \A n \in earlier : n \in Nat
      BY StoresAssumption DEF EarlierInv, Captures
    <3> QED
      BY <2>1, <2>4, <3>1 DEF EarlierInv
  <2>9. \A i \in DOMAIN live'.batch : live'.batch[i] \in earlier => Late(live'.batch[i])
    BY <2>3, <2>5 DEF EarlierInv
  <2>10. \A i \in DOMAIN sent' : sent'[i] \in earlier => Late(sent'[i])
    BY <2>6, <2>7 DEF EarlierInv
  <2> HIDE DEF b, h
  <2> QED
    BY <1>0, <1>b, <2>3, <2>8, <2>9, <2>10 DEF EarlierInv
<1>5. CASE SendFails
  <2>1. live'.batch = <<>> /\ live'.last = live.last /\ sent' = sent /\ earlier' = earlier
    BY <1>5 DEF SendFails, LiveInv
  <2> QED
    BY <1>0, <1>a, <1>b, <2>1 DEF EarlierInv
<1> QED
  BY <1>1, <1>2, <1>3, <1>4, <1>5 DEF LiveNext

-----------------------------------------------------------------------------
(* The invariant *)

Inductive == StoresInv /\ VectorsOld /\ SearchInv /\ ExportInv /\ LiveInv /\ EarlierInv

LEMMA StepKeeps == Inductive /\ [Next]_vars => Inductive'
<1> SUFFICES ASSUME Inductive, [Next]_vars PROVE Inductive'
  OBVIOUS
<1> USE DEF Inductive
<1>a. seq \in Nat
  BY StoresAssumption DEF StoresInv, TablesInv
<1>1. CASE WritersStep
  <2>1. /\ StoresNext /\ Watch
        /\ UNCHANGED <<export, edges>> /\ UNCHANGED <<live, sent, earlier>> /\ UNCHANGED search
    BY <1>1 DEF WritersStep
  <2>2. seq' \in Nat /\ seq <= seq' /\ ts' = ts
    BY <2>1, StoresHistory
  <2>3. LiveInv' /\ EarlierInv'
    BY <1>a, <2>1, <2>2, LiveSame, EarlierSame
  <2> QED
    BY <2>1, <2>3, StoresKept, VectorsOldKept, SearchBeside, ExportBeside
<1>2. CASE SearchStep
  <2>1. StoresInv' /\ VectorsOld' /\ SearchInv'
    BY <1>2, SearchKeeps
  <2>2. UNCHANGED ukg /\ UNCHANGED <<export, present, edges>> /\ UNCHANGED <<live, sent, earlier>>
    BY <1>2 DEF SearchStep, SearchError, stores, feeds
  <2>3. seq' = seq /\ ts' = ts
    BY <2>2 DEF ukg
  <2>4. LiveInv' /\ EarlierInv'
    BY <1>a, <2>2, <2>3, LiveSame, EarlierSame
  <2> QED
    BY <2>1, <2>2, <2>4, ExportSame
<1>3. CASE ExportStep
  <2>1. UNCHANGED stores /\ UNCHANGED search /\ UNCHANGED <<live, sent, earlier>>
    BY <1>3, Zenon DEF ExportStep, BeginExport, ExportNext
  <2>2. StoresInv' /\ VectorsOld'
    BY <2>1
    DEF stores, ukg, sem, erase, StoresInv, TablesInv, VectorsInv, StoreInv, WipeInv, VectorsOld
  <2>3. SearchInv'
    BY <2>1, SearchSame DEF stores
  <2>4. seq' = seq /\ ts' = ts
    BY <2>1 DEF stores, ukg
  <2>5. LiveInv' /\ EarlierInv'
    BY <1>a, <2>1, <2>4, LiveSame, EarlierSame
  <2> QED
    BY <1>3, <2>2, <2>3, <2>5, ExportKeeps
<1>4. CASE LiveStep
  <2>1. /\ UNCHANGED <<ukg, objects, sem, storing, erase>> /\ UNCHANGED search /\ LiveNext
        /\ UNCHANGED <<export, present, edges>>
    BY <1>4, Zenon DEF LiveStep, LiveNext, BeginLive, Poll, PollError, SendRow, SendFails
  <2>2. scenario' \in [stored : SUBSET Captures, space : Labels, reader : Readers,
                       inserts : Nat, moves : Nat, wipes : Nat, faults : Nat]
    <3>1. CASE BeginLive
      <4>1. \/ scenario' = scenario
            \/ /\ scenario' = [scenario EXCEPT !.faults = @ - 1]
               /\ scenario.faults > 0
        BY <3>1 DEF BeginLive
      <4>2. scenario \in [stored : SUBSET Captures, space : Labels, reader : Readers,
                          inserts : Nat, moves : Nat, wipes : Nat, faults : Nat]
        BY DEF StoresInv, TablesInv
      <4>3. scenario.faults > 0 => scenario.faults - 1 \in Nat
        BY <4>2
      <4> QED
        BY <4>1, <4>2, <4>3
    <3>2. CASE PollError \/ SendFails
      BY <3>2, SpendType DEF PollError, SendFails, StoresInv
    <3>3. CASE Poll \/ SendRow
      BY <3>3 DEF Poll, SendRow, StoresInv, TablesInv
    <3> QED
      BY <2>1, <3>1, <3>2, <3>3 DEF LiveNext
  <2>3. StoresInv' /\ VectorsOld'
    BY <2>1, <2>2
    DEF ukg, sem, erase, StoresInv, TablesInv, VectorsInv, StoreInv, WipeInv, VectorsOld
  <2>4. SearchInv'
    BY <2>1, SearchSame
  <2> QED
    BY <2>1, <2>3, <2>4, LiveKeeps, EarlierKeeps, ExportSame
<1>5. CASE UNCHANGED vars
  <2>1. UNCHANGED stores /\ UNCHANGED search /\ UNCHANGED <<live, sent, earlier>>
        /\ UNCHANGED <<export, present, edges>>
    BY <1>5 DEF vars, feeds
  <2>2. StoresInv' /\ VectorsOld'
    BY <2>1
    DEF stores, ukg, sem, erase, StoresInv, TablesInv, VectorsInv, StoreInv, WipeInv, VectorsOld
  <2>3. SearchInv'
    BY <2>1, SearchSame DEF stores
  <2>4. seq' = seq /\ ts' = ts /\ UNCHANGED ukg
    BY <2>1 DEF stores, ukg
  <2>5. LiveInv' /\ EarlierInv'
    BY <1>a, <2>1, <2>4, LiveSame, EarlierSame
  <2> QED
    BY <2>1, <2>2, <2>3, <2>4, <2>5, ExportSame
<1> QED
  BY <1>1, <1>2, <1>3, <1>4, <1>5 DEF Next

LEMMA Invariant == Spec => []Inductive
<1>1. ViewsInit => Inductive
  BY StoresInit, VectorsOldInit, SearchInitial, ExportInitial, LiveInitial, EarlierInitial
  DEF Inductive
<1> QED
  BY <1>1, StepKeeps, PTL DEF Spec

-----------------------------------------------------------------------------
(* Theorems *)

\* The stores keep their type, whoever reads and writes.
LEMMA StoresTyped == Inductive => StoresTypeOK
<1> SUFFICES ASSUME Inductive PROVE StoresTypeOK
  OBVIOUS
<1>1. /\ rowid \in [Captures -> 0 .. seq]
      /\ storing \in Captures \cup {0}
  <2>1. /\ rowid = [c \in Captures |-> IF c <= seq THEN c ELSE 0] /\ seq \in 0 .. NumCaptures
        /\ storing \in Captures \cup {0}
    BY DEF Inductive, StoresInv, TablesInv
  <2>2. \A c \in Captures : (IF c <= seq THEN c ELSE 0) \in 0 .. seq
    BY <2>1, StoresAssumption DEF Captures
  <2> QED
    BY <2>1, <2>2
<1>2. ASSUME NEW label, NEW vecs, NEW from, StoreInv(label, vecs, from)
      PROVE  label \in Labels /\ vecs \in [Ids -> {<<>>} \cup {<<sp>> : sp \in Spaces}]
  <2>1. \A id \in Ids : vecs[id] \in {<<>>} \cup {<<sp>> : sp \in Spaces}
    BY <1>2 DEF StoreInv, Labels
  <2> QED
    BY <1>2, <2>1 DEF StoreInv
<1> QED
  BY <1>1, <1>2 DEF Inductive, StoresInv, TablesInv, VectorsInv, WipeInv, StoresTypeOK

\* The live feed has rows to send only while it is open (live_ws of routes.rs).
LEMMA FeedsTyped == Inductive => FeedsTypeOK
<1> SUFFICES ASSUME Inductive PROVE FeedsTypeOK
  OBVIOUS
<1>1. ToSet(export.out) \subseteq Ids /\ ToSet(live.batch) \subseteq Ids
  <2>1. \A p \in Seq(Ids) : ToSet(p) \subseteq Ids
    BY Places DEF ToSet
  <2> QED
    BY <2>1 DEF Inductive, ExportInv, LiveInv
<1>2. present \subseteq Ids /\ live.last \in 0 .. seq
  BY StoresAssumption DEF Inductive, StoresInv, TablesInv, ExportInv, LiveInv, Captures, Ids
<1> QED
  BY <1>1, <1>2 DEF Inductive, ExportInv, LiveInv, FeedsTypeOK

\* The types of the stores, of a search (a request at work has a leg to run and
\* nothing is answered before the end) and of the feeds, in every state of the
\* API handlers beside their writers (routes.rs).
THEOREM ViewsTyped == Spec => []ViewsTypeOK
<1>1. Inductive => SearchTypeOK
  BY DEF Inductive, SearchInv, Shapes, SearchTypeOK
<1>2. Inductive => ViewsTypeOK
  BY <1>1, StoresTyped, FeedsTyped DEF ViewsTypeOK
<1> QED
  BY <1>2, Invariant, PTL

\* A vector that a reader can join with a row is that row's capture's, through
\* every rebuild and wipe, because an id is never given again (schema.rs).
THEOREM RightVectors == Spec => []VectorsAreTheirs
<1>1. Inductive => VectorsAreTheirs
  <2> SUFFICES ASSUME Inductive, NEW id \in Ids, NEW c \in Holders(id)
               PROVE  /\ textVecs[id] # <<>> => source["text"][id] = c
                      /\ imageVecs[id] # <<>> => source["image"][id] = c
    BY DEF VectorsAreTheirs
  <2>1. c = id
    BY OwnIds DEF Inductive, StoresInv, Ids, Captures
  <2> QED
    BY <2>1 DEF Inductive, StoresInv, VectorsInv, StoreInv
<1> QED
  BY <1>1, Invariant, PTL

\* When a wipe has answered, no row, relation or text of what was stored when
\* it began is left, and no screenshot if the request spelled the client as its
\* directory is spelled, whatever the broker did between its steps
\* (routes.rs:672-682, ukg.rs:713-730).  What it leaves is said in WipeErases.
THEOREM WipeIsComplete == Spec => []WipeErases
<1>1. Inductive => WipeErases
  BY DEF Inductive, StoresInv, TablesInv, WipeInv, WipeErases
<1> QED
  BY <1>1, Invariant, PTL

\* A vector of another space is ranked only when the store was relabelled
\* between the check and the scan (routes.rs:158-170).
THEOREM SpacesApart == Spec => []RankedInSpace
<1>1. Inductive => RankedInSpace
  BY DEF Inductive, SearchInv, Checked, RankedInSpace
<1> QED
  BY <1>1, Invariant, PTL

\* Each capture of an answer passes the filter, whichever legs found it and
\* whatever was stored or erased since (routes.rs:214).
THEOREM AnswersPass == Spec => []FilterRespected
<1>1. Inductive => FilterRespected
  <2> SUFFICES ASSUME Inductive, NEW id \in ToSet(results)
               PROVE  /\ InRange(req, Owner(id))
                      /\ \/ req.apps = <<>>
                         \/ {Path[Owner(id)], Name[Owner(id)]} \cap ToSet(req.apps) # {}
    BY DEF FilterRespected
  <2>1. id \in Captures /\ id <= seq /\ Passes(id)
    BY DEF Inductive, SearchInv, Shapes, Found
  <2>2. Owner(id) = id
    BY <2>1, OwnIds DEF Inductive, StoresInv
  <2> QED
    BY <2>1, <2>2 DEF Passes
<1> QED
  BY <1>1, Invariant, PTL

\* No answer holds a capture erased before the request came, although its
\* vector is still found (ukg.rs:399-432).
THEOREM ErasedStayAway == Spec => []NoErasedResult
<1>1. Inductive => NoErasedResult
  BY DEF Inductive, SearchInv, Shapes, Found, NoErasedResult
<1> QED
  BY <1>1, Invariant, PTL

\* A request for at most one application: the lexical leg filters as asked.
LEMMA OneName ==
  ASSUME req.apps \in Seq(STRING), Len(req.apps) <= 1, NEW c, OfApps(req, c)
  PROVE  FtsOfApps(req, c)
<1>1. CASE Len(req.apps) = 0
  BY <1>1 DEF FtsOfApps
<1>2. CASE Len(req.apps) = 1
  <2>1. ToSet(req.apps) = {req.apps[1]} /\ req.apps # <<>>
    BY <1>2 DEF ToSet
  <2>2. c \in related /\ (Path[c] = req.apps[1] \/ Name[c] = req.apps[1])
    BY <2>1 DEF OfApps
  <2>3. (1 + 1) \div 2 = 1 /\ (2 + 1) \div 2 = 1
    OBVIOUS
  <2> QED
    BY <1>2, <2>2, <2>3 DEF FtsOfApps
<1>3. Len(req.apps) = 0 \/ Len(req.apps) = 1
  <2> DEFINE n == Len(req.apps)
  <2>1. n \in Nat /\ n <= 1
    OBVIOUS
  <2> HIDE DEF n
  <2>2. n = 0 \/ n = 1
    BY <2>1
  <2> QED
    BY <2>2 DEF n
<1> QED
  BY <1>1, <1>2, <1>3, Zenon

\* An answer shorter than its limit leaves out nothing that a leg ranked and
\* the request asked for, whatever was stored, rebuilt or erased meanwhile
\* (ukg.rs:437-440, semantic.rs:172-174), except on the lexical leg of a
\* request for several applications.
THEOREM NothingLost == Spec => []ShortAnswerComplete
<1>1. Inductive => ShortAnswerComplete
  <2> SUFFICES ASSUME Inductive, step = "answered", Len(results) < req.limit,
                      \A leg \in DOMAIN ranks : \A id \in ToSet(ranks[leg]) : HasRow(id),
                      NEW leg \in DOMAIN ranks, NEW id \in ToSet(order[leg]),
                      FiltersAsAsked(leg), Eligible(id)
               PROVE  id \in ToSet(results)
    BY DEF ShortAnswerComplete, ShortAnswer
  <2> USE DEF Inductive, SearchInv
  <2>1. /\ rows \subseteq Captures /\ \A c \in rows : c <= seq
        /\ \A c \in Captures : HasRow(c) <=> c \in rows
    BY OwnIds DEF StoresInv, TablesInv, HasRow
  <2>2. ranks[leg] \in Seq(Ids) /\ ToSet(ranks[leg]) \subseteq Captures
    <3>1. ranks[leg] \in Seq(Ids)
      BY DEF Shapes
    <3>2. Ids = Captures /\ \A i \in DOMAIN ranks[leg] : ranks[leg][i] \in Ids
      BY <3>1, Places DEF Ids, Captures
    <3> QED
      BY <3>1, <3>2 DEF ToSet
  <2>3. ToSet(ranks[leg]) \subseteq hits
    BY <2>1, <2>2 DEF Complete
  <2>4. hits \subseteq ToSet(results) /\ Cardinality(hits) < req.limit
    BY DEF Complete
  <2>5. Len(ranks[leg]) < req.limit
    <3>1. IsFiniteSet(hits) /\ Cardinality(hits) \in Nat /\ req.limit \in Nat
      BY IdsFinite, Limits DEF Shapes, Ids, Captures
    <3> DEFINE w == ranks[leg]
               n == Len(ranks[leg])
    <3>2. n \in Nat /\ DOMAIN w = 1 .. n
      BY <2>2, Places
    <3>3. w \in [1 .. n -> hits]
      BY <2>2, <2>3, <3>2 DEF ToSet
    <3>4. \A i, j \in 1 .. n : i # j => w[i] # w[j]
      BY <3>2 DEF Complete, Taken
    <3> HIDE DEF w, n
    <3>5. IsFiniteSet(1 .. n) /\ Cardinality(1 .. n) = n
      BY <3>2, FS_Interval
    <3>6. ~ n > Cardinality(hits)
      <4>1. Cardinality(1 .. n) > Cardinality(hits)
              => \E i, j \in 1 .. n : i # j /\ w[i] = w[j]
        BY <3>1, <3>3, <3>5, FS_PigeonHole
      <4> QED
        BY <3>4, <3>5, <4>1
    <3> QED
      BY <2>4, <3>1, <3>2, <3>6 DEF n
  <2>6. Due(leg, id)
    <3>1. id \in began.rows /\ began.rows \subseteq Captures
      BY DEF Eligible, Untouched
    <3>2. id \in rows /\ Owner(id) = id
      BY <2>1, <3>1, OwnIds DEF Eligible, StoresInv
    <3>3. leg = "fts" => FtsOfApps(req, id)
      <4>1. req.apps \in Seq(STRING)
        BY Apps DEF Shapes
      <4> QED
        BY <3>2, <4>1, OneName DEF Eligible, FiltersAsAsked
    <3> QED
      BY <3>1, <3>2, <3>3 DEF Eligible, Due
  <2>7. id \in ToSet(ranks[leg])
    <3>1. Len(ranks[leg]) \in Nat /\ req.limit \in Nat
      BY <2>2, Places, Limits DEF Shapes
    <3> QED
      BY <2>5, <2>6, <3>1 DEF Complete, Taken
  <2> QED
    BY <2>3, <2>4, <2>7
<1> QED
  BY <1>1, Invariant, PTL

\* No capture is exported twice (routes.rs:632).
THEOREM NoDuplicates == Spec => []ExportOnce
<1>1. Inductive => ExportOnce
  BY DEF Inductive, ExportInv, Once, ExportOnce
<1> QED
  BY <1>1, Invariant, PTL

\* An export misses only what shares its time with the last capture of one of
\* its pages (ukg.rs:300-332).
THEOREM MissesOnlyEdges == Spec => []ExportComplete
<1>1. Inductive => ExportComplete
  <2> SUFFICES ASSUME Inductive, export.step = "done", NEW id \in present, ts[Owner(id)] \notin edges
               PROVE  id \in ToSet(export.out)
    BY DEF ExportComplete
  <2>1. Owner(id) = id
    BY OwnIds DEF Inductive, StoresInv, TablesInv, ExportInv
  <2> QED
    BY <2>1 DEF Inductive, ExportInv
<1> QED
  BY <1>1, Invariant, PTL

\* The live feed sends nothing twice and nothing out of order, through wipes
\* and failed polls (routes.rs:695-743).
THEOREM FeedInOrder == Spec => []LiveInOrder
<1>1. Inductive => LiveInOrder
  BY DEF Inductive, LiveInv, Ascending, LiveInOrder
<1> QED
  BY <1>1, Invariant, PTL

\* What the live feed sends of the captures stored before it opened was stored
\* after one as new or newer (routes.rs:699-704).
THEOREM OldOnlyLate == Spec => []OldOnlyWhenLate
<1>1. Inductive => OldOnlyWhenLate
  <2> SUFFICES ASSUME Inductive, NEW id \in ToSet(sent), Owner(id) \in earlier
               PROVE  \E n \in earlier : rowid[n] < id /\ ts[n] >= ts[Owner(id)]
    BY DEF OldOnlyWhenLate
  <2>1. PICK i \in DOMAIN sent : sent[i] = id
    BY DEF ToSet
  <2>2. id \in Ids /\ id <= live.last /\ live.last <= seq
    BY <2>1, Places DEF Inductive, LiveInv
  <2>3. id \in Captures /\ id <= seq
    BY <2>2, StoresAssumption DEF Inductive, StoresInv, TablesInv, LiveInv, Ids, Captures
  <2>4. Owner(id) = id
    BY <2>3, OwnIds DEF Inductive, StoresInv
  <2>5. PICK n \in earlier : n < id /\ ts[n] >= ts[id]
    BY <2>1, <2>4 DEF Inductive, EarlierInv, Late
  <2>6. rowid[n] = n
    BY OwnIds DEF Inductive, StoresInv, EarlierInv
  <2> QED
    BY <2>4, <2>5, <2>6
<1> QED
  BY <1>1, Invariant, PTL
=============================================================================
