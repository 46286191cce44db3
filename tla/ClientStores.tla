---------------------------- MODULE ClientStores ----------------------------
(***************************************************************************)
(* The directory of one client - ukg.db, objects/ and the two si_* stores  *)
(* - with everybody who writes it while a request of the API reads it: the *)
(* broker that stores captures, the enricher that keeps the vectors, and   *)
(* the wipe that deletes.  One action is one file operation or one         *)
(* committed SQLite statement; the writers share no lock, so any of them   *)
(* may come between two steps of another and between two steps of a reader *)
(* (modules Search and Feeds, composed with this one in Views).            *)
(*                                                                         *)
(* What the enricher does to a store is what VectorStore allows, the       *)
(* specification Enrich implements.                                        *)
(***************************************************************************)
EXTENDS Integers, Sequences, FiniteSets

CONSTANTS
  NumCaptures,   \* captures the broker may store (bounds the model)
  Timestamps,    \* the assignments of a TimeStamp to each capture
  Path, Name,    \* the path and the name of each capture's application
  Spaces,        \* embedding spaces
  Unknown,       \* SPACE_UNKNOWN
  Scenarios      \* what is stored at the start, who reads, and how many
                 \* steps each writer may take (bounds the model)

Captures == 1 .. NumCaptures
Ids      == 1 .. NumCaptures
Legs     == {"fts", "text-semantic", "image-semantic", "image-text"}
Labels   == Spaces \cup {Unknown}
Readers  == {"search", "export", "live"}

ASSUME StoresAssumption ==
  /\ NumCaptures \in Nat
  /\ Timestamps \subseteq [Captures -> Nat \ {0}]
  /\ Unknown \notin Spaces

ASSUME ScenariosAssumption ==
  Scenarios \subseteq [stored : SUBSET Captures, space : Labels, reader : Readers,
                       inserts : Nat, moves : Nat, wipes : Nat, faults : Nat]

VARIABLES
  scenario,    \* the scenario of this behaviour, its budgets counting down
  \* ukg.db
  rows,        \* captures with a WindowCapture row
  related,     \* captures with their application relation and regions
  indexed,     \* captures with their text in WindowCaptureTextIndex
  rowid,       \* the Id each capture was given, 0 before
  named,       \* captures whose applications, documents and addresses have
               \* their rows in App, File and Web
  seq,         \* sqlite_sequence: the highest Id ever given
  ts,          \* TimeStamp of each capture
  \* objects/
  objects,     \* captures with a screenshot
  \* SemanticTextStore.db and SemanticImageStore.db, vectors by capture id
  textLabel, textVecs, imageLabel, imageVecs,
  \* the writers
  storing,     \* the capture the broker has put but not inserted, 0 for none
  wipe,        \* the next statement of the wipe, or how it ended
  canonical,   \* the last wipe spelled the client as its directory is spelled
  \* history
  source,      \* source[s][id]: the capture a vector was computed from
  doomed       \* what was completely stored when the last wipe began

ukg    == <<rows, related, indexed, named, rowid, seq, ts>>
sem    == <<textLabel, textVecs, imageLabel, imageVecs, source>>
erase  == <<wipe, canonical, doomed>>
stores == <<scenario, ukg, objects, sem, storing, erase>>

TextStore  == INSTANCE VectorStore WITH Items <- Ids, label <- textLabel, vecs <- textVecs
ImageStore == INSTANCE VectorStore WITH Items <- Ids, label <- imageLabel, vecs <- imageVecs

Wiping == {"objects", "relations", "index", "rows"}

\* The captures a reader of ukg.db finds under an id (at most one).
Holders(id) == {c \in rows : rowid[c] = id}

HasRow(id) == Holders(id) # {}

\* The capture an id was given to.
Owner(id) == CHOOSE c \in Captures : rowid[c] = id

Given == {id \in Ids : \E c \in Captures : rowid[c] = id}

\* (mutant: a row id is one more than the largest in the table)
LargestPlusOne ==
  LET used == {rowid[c] : c \in rows}
  IN  CHOOSE n \in 1 .. NumCaptures + 1 :
        n - 1 \in used \cup {0} /\ \A u \in used : u < n

\* INTEGER PRIMARY KEY AUTOINCREMENT: never an id that was given before.
NextId == seq + 1

Init ==
  /\ scenario \in Scenarios
  /\ rows = scenario.stored /\ related = rows /\ indexed = rows /\ named = rows
  /\ objects = rows
  /\ rowid = [c \in Captures |-> IF c \in rows THEN c ELSE 0]
  /\ rows = 1 .. Cardinality(rows) /\ seq = Cardinality(rows)
  /\ ts \in Timestamps
  /\ textLabel = scenario.space /\ imageLabel = scenario.space
  /\ textVecs = [id \in Ids |-> IF id \in Given /\ textLabel # Unknown
                              THEN <<textLabel>> ELSE <<>>]
  /\ imageVecs = textVecs
  /\ source = [s \in {"text", "image"} |-> [id \in Ids |-> IF id \in rows THEN id ELSE 0]]
  /\ storing = 0 /\ wipe = "none" /\ canonical = TRUE /\ doomed = {}

Spend(what) == /\ scenario[what] > 0
               /\ scenario' = [scenario EXCEPT ![what] = @ - 1]

-----------------------------------------------------------------------------
(* The broker: the image object first, then one transaction in ukg.db.     *)

PutObject(c) ==
  /\ storing = 0 /\ rowid[c] = 0
  /\ \A b \in Captures : b < c => rowid[b] # 0
  /\ Spend("inserts")
  /\ objects' = objects \cup {c}
  /\ storing' = c
  /\ UNCHANGED <<ukg, sem, erase>>

\* The row, the applications, documents and addresses it names, its relations
\* and regions, and its text, in one transaction.
InsertRow ==
  /\ storing # 0
  /\ rows' = rows \cup {storing}
  /\ related' = related \cup {storing}
  /\ indexed' = indexed \cup {storing}
  /\ named' = named \cup {storing}
  /\ rowid' = [rowid EXCEPT ![storing] = NextId]
  /\ seq' = NextId
  /\ storing' = 0
  /\ UNCHANGED <<scenario, ts, objects, sem, erase>>

Broker == InsertRow \/ \E c \in Captures : PutObject(c)

-----------------------------------------------------------------------------
(* The enricher.  It may hold the content of a capture whose row is gone.  *)

EmbedText(c) ==
  /\ rowid[c] # 0 /\ TextStore!Add(rowid[c])
  /\ source' = [source EXCEPT !["text"][rowid[c]] = c]

EmbedImage(c) ==
  /\ rowid[c] # 0 /\ ImageStore!Add(rowid[c])
  /\ source' = [source EXCEPT !["image"][rowid[c]] = c]

Enricher ==
  /\ Spend("moves")
  /\ \/ /\ \/ \E c \in Captures : EmbedText(c)
           \/ (TextStore!Clear \/ TextStore!Relabel) /\ UNCHANGED source
        /\ UNCHANGED <<imageLabel, imageVecs>>
     \/ /\ \/ \E c \in Captures : EmbedImage(c)
           \/ (ImageStore!Clear \/ ImageStore!Relabel) /\ UNCHANGED source
        /\ UNCHANGED <<textLabel, textVecs>>
  /\ UNCHANGED <<ukg, objects, storing, erase>>

-----------------------------------------------------------------------------
(* DELETE /client/{id}: the objects, then the tables of ukg.db one         *)
(* statement at a time, each committed by itself.  App, File, Web and the  *)
(* enricher's Topic are not among them, nor are the semantic stores.       *)

\* Any spelling that parses as the client's UUID is accepted.
WipeBegin ==
  /\ wipe \notin Wiping
  /\ Spend("wipes")
  /\ wipe' = "objects"
  /\ canonical' \in BOOLEAN
  /\ doomed' = (objects \cup rows \cup indexed) \ {storing}
  /\ UNCHANGED <<ukg, objects, sem, storing>>

\* objects/<the client as it was spelled>: another spelling names no directory.
InReach == IF canonical THEN objects ELSE {}

\* (mutant: the text index is forgotten)
WipeNoIndex ==
  /\ \/ wipe = "objects" /\ objects' = objects \ InReach /\ wipe' = "relations"
        /\ UNCHANGED <<rows, related, indexed>>
     \/ wipe = "relations" /\ related' = {} /\ wipe' = "rows"
        /\ UNCHANGED <<rows, indexed, objects>>
     \/ wipe = "rows" /\ rows' = {} /\ related' = {} /\ wipe' = "done"
        /\ UNCHANGED <<indexed, objects>>
  /\ UNCHANGED <<scenario, named, rowid, seq, ts, sem, storing, canonical, doomed>>

WipeStep ==
  /\ \/ wipe = "objects" /\ objects' = objects \ InReach /\ wipe' = "relations"
        /\ UNCHANGED <<rows, related, indexed>>
     \/ wipe = "relations" /\ related' = {} /\ wipe' = "index"
        /\ UNCHANGED <<rows, indexed, objects>>
     \/ wipe = "index" /\ indexed' = {} /\ wipe' = "rows"
        /\ UNCHANGED <<rows, related, objects>>
     \/ wipe = "rows" /\ rows' = {} /\ related' = {} /\ wipe' = "done"  \* ON DELETE CASCADE
        /\ UNCHANGED <<indexed, objects>>
  /\ UNCHANGED <<scenario, named, rowid, seq, ts, sem, storing, canonical, doomed>>

\* remove_dir_all may stop half way; a failed statement ends the request.
WipeFails ==
  /\ wipe \in Wiping
  /\ Spend("faults")
  /\ wipe' = "failed"
  /\ IF wipe = "objects" THEN \E gone \in SUBSET InReach : objects' = objects \ gone
                         ELSE UNCHANGED objects
  /\ UNCHANGED <<ukg, sem, storing, canonical, doomed>>

Wipe == WipeBegin \/ WipeStep \/ WipeFails

StoresNext == Broker \/ Enricher \/ Wipe

-----------------------------------------------------------------------------
(* Properties *)

\* Which captures, ids and vectors there may be.
StoresTypeOK ==
  /\ scenario \in [stored : SUBSET Captures, space : Labels, reader : Readers,
                   inserts : Nat, moves : Nat, wipes : Nat, faults : Nat]
  /\ rows \subseteq Captures /\ related \subseteq rows
  /\ indexed \subseteq Captures /\ named \subseteq Captures /\ objects \subseteq Captures
  /\ rowid \in [Captures -> 0 .. seq] /\ seq \in 0 .. NumCaptures
  /\ ts \in [Captures -> Nat]
  /\ {textLabel, imageLabel} \subseteq Labels
  /\ {textVecs, imageVecs} \subseteq [Ids -> {<<>>} \cup {<<sp>> : sp \in Spaces}]
  /\ source \in [{"text", "image"} -> [Ids -> Captures \cup {0}]]
  /\ storing \in Captures \cup {0}
  /\ wipe \in Wiping \cup {"none", "done", "failed"}
  /\ canonical \in BOOLEAN /\ doomed \subseteq Captures

\* A vector a reader can join with a row was computed from the capture of
\* that row.  The wipe leaves the semantic stores alone, and a pass may store
\* a vector after its capture is gone, so this rests on AUTOINCREMENT: an id
\* is never given again (schema.rs), although vectors are keyed by id alone
\* (item_id_for_capture).
VectorsAreTheirs ==
  \A id \in Ids : \A c \in Holders(id) :
    /\ textVecs[id] # <<>> => source["text"][id] = c
    /\ imageVecs[id] # <<>> => source["image"][id] = c

\* When a wipe has answered 204, what was completely stored when it began has
\* no row, no relation and no text in the index left, and, if the request
\* spelled the client as its directory is spelled, no screenshot either.  (The
\* wipe takes five steps and the broker goes on storing meanwhile: what it had
\* in hand or stored later is not promised.  What else is left, although it is
\* said to go, is the next property.)
WipeErases ==
  wipe = "done" => /\ doomed \cap (rows \cup related \cup indexed) = {}
                   /\ canonical => doomed \cap objects = {}

\* Vectors of text and of the screenshot that were computed from capture c.
EmbeddedFrom(c) ==
  /\ \E id \in Ids : textVecs[id] # <<>> /\ source["text"][id] = c
  /\ \E id \in Ids : imageVecs[id] # <<>> /\ source["image"][id] = c

\* Three sentences say that a wipe leaves nothing: "delete all stored data for
\* a client" (routes.rs:671), so no screenshot, however the client was spelled;
\* "Delete every trace of a client" (ukg.rs:713), so none of the applications,
\* documents and addresses it named in App, File and Web; and "instant wipe of
\* all server-side data" (architecture.md:512), so no vector.  This says less
\* than each of them: of no capture that was there when the wipe began is all
\* of that left.  A counterexample refutes the three.
WipeReachesBeyondTables ==
  wipe = "done" => \A c \in doomed : ~(c \in objects /\ c \in named /\ EmbeddedFrom(c))
=============================================================================
