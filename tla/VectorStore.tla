---------------------------- MODULE VectorStore ----------------------------
(***************************************************************************)
(* What one `si_*` database promises its readers, whoever writes it: at    *)
(* any moment every vector in it belongs to the space the store is         *)
(* labelled with (so a query of that space may be ranked against all of    *)
(* them), and no capture has two.  A writer may empty the store, may move  *)
(* the label of an empty store, and may add the vector of a capture that   *)
(* has none, in the labelled space, once the store has a known one.        *)
(* Nothing else.                                                           *)
(*                                                                         *)
(* This is the abstract specification; Enrich implements it twice, once    *)
(* for SemanticTextStore.db and once for SemanticImageStore.db, and Views  *)
(* reads two stores that are written the way it allows.                    *)
(***************************************************************************)
EXTENDS Sequences

CONSTANTS Items,   \* the captures a vector may belong to
          Labels,  \* every value the space label may have
          Unknown  \* SPACE_UNKNOWN, the label nobody may add a vector under

VARIABLES label,   \* si_diskann_info.vector_space_id
          vecs     \* vecs[i]: the spaces of i's vectors, in insertion order

vars == <<label, vecs>>

NoVectors == [i \in Items |-> <<>>]

Init == label \in Labels /\ vecs = NoVectors

Clear == vecs' = NoVectors /\ UNCHANGED label

Relabel == vecs = NoVectors /\ label' \in Labels /\ UNCHANGED vecs

Add(i) ==
  /\ label # Unknown
  /\ vecs[i] = <<>>
  /\ vecs' = [vecs EXCEPT ![i] = <<label>>]
  /\ UNCHANGED label

Next == Clear \/ Relabel \/ \E i \in Items : Add(i)

Spec == Init /\ [][Next]_vars

=============================================================================
