------------------------------- MODULE Search -------------------------------
(***************************************************************************)
(* POST /search (routes.rs): up to four legs, each of which ranks the      *)
(* captures its own way, fused by rank.  The request is refused, or works  *)
(* through its legs; a semantic leg awaits an embedding and then, one      *)
(* statement after the other, reads the label of the store, the captures   *)
(* that pass the filter, the vectors, and the rows of what it found.  The  *)
(* stores may change between any two of these.                             *)
(*                                                                         *)
(* How well a text matches is not modelled: a leg may rank any of the      *)
(* captures it can see, in any order.                                      *)
(***************************************************************************)
EXTENDS ClientStores, SequencesExt, FiniteSetsExt

CONSTANTS
  Requests,     \* the searches that may be asked for
  PoolFactor,   \* FUSION_POOL_FACTOR
  MaxPool       \* the cap on a leg's window (500)

\* SearchBody; `from` and `to` are 0 when the time range leaves them open, and
\* the limit is clamped to less than a leg's window can be.
SearchBody ==
  [mode : {"hybrid", "fts", "semantic", "image", "other"}, query : BOOLEAN,
   image : {"none", "good", "undecodable"}, from : Nat, to : Nat,
   apps : Seq(STRING), limit : 1 .. MaxPool]

ASSUME RequestsAssumption ==
  Requests \subseteq SearchBody /\ PoolFactor \in Nat \ {0} /\ MaxPool \in Nat \ {0}

RRF_K == 60

VARIABLES
  req,       \* the request
  step,      \* what the handler does next, or how it ended
  todo,      \* the legs it has not run
  answer,    \* the embedding in hand: its space, and whether it has the right length
  allowed,   \* the ids that pass the filter, as the leg read them
  order,     \* order[leg]: everything the leg can rank, best first
  found,     \* the leg's window on that
  ranks,     \* leg_ranks, by leg
  hits,      \* the ids whose row some leg has read
  results,   \* the answer
  \* history
  began,     \* the ids that had a row when the request came, and seq
  seen,      \* the label the verdict was given on
  foreign,   \* legs that ranked a vector of another space than the query's
  moved      \* legs whose store had another label when it was scanned

search == <<req, step, todo, answer, allowed, order, found, ranks, hits, results,
            began, seen, foreign, moved>>

NoRequest == [mode |-> "fts", query |-> FALSE, image |-> "none", from |-> 0, to |-> 0,
              apps |-> <<>>, limit |-> 1]
NoAnswer  == [space |-> Unknown, fits |-> FALSE]

Working == {"leg", "verdict", "filter", "scan", "rows"}

SearchInit ==
  /\ req = NoRequest /\ step = "none" /\ todo = <<>> /\ answer = NoAnswer
  /\ allowed = {} /\ order = <<>> /\ found = <<>> /\ ranks = <<>>
  /\ hits = {} /\ results = <<>>
  /\ began = [rows |-> {}, seq |-> 0] /\ seen = Unknown /\ foreign = {} /\ moved = {}

-----------------------------------------------------------------------------
(* What a request asks for *)

Refused(q) ==
  \/ ~q.query /\ q.image = "none"
  \/ q.mode = "other"
  \/ q.mode = "image" /\ q.image = "none"
  \/ q.mode = "fts" /\ q.image # "none"

Wants(q, leg) ==
  CASE leg = "fts"            -> q.query /\ q.mode \in {"hybrid", "fts"}
    [] leg = "image-semantic" -> q.image # "none"
    [] OTHER                  -> q.query /\ q.mode \in {"hybrid", "semantic"}

LegsOf(q) ==
  LET wanted(leg) == IF Wants(q, leg) THEN <<leg>> ELSE <<>>
  IN  wanted("fts") \o wanted("text-semantic") \o wanted("image-semantic") \o wanted("image-text")

\* (mutant: each leg offers no more than the final count)
NoPool(limit) == limit

\* How many candidates each leg offers to the fusion.
FusionPool(limit) == Min({Max({limit * PoolFactor, limit}), MaxPool})

Filtered(q) == q.from # 0 \/ q.to # 0 \/ q.apps # <<>>

InRange(q, c) == (q.from # 0 => ts[c] >= q.from) /\ (q.to # 0 => ts[c] <= q.to)

\* The semantic legs' filter: the path or the name is one of those asked for.
OfApps(q, c) ==
  q.apps = <<>> \/ (c \in related /\ {Path[c], Name[c]} \cap ToSet(q.apps) # {})

\* The lexical leg's: `Path IN (?,..) OR Name IN (?,..)` with each name bound
\* twice in a row, so the paths are compared with the first half of
\* <<a1, a1, a2, a2, ..>> and the names with the second half.
FtsOfApps(q, c) ==
  LET n == Len(q.apps)
      bound(i) == q.apps[(i + 1) \div 2]
  IN  n = 0 \/ /\ c \in related
               /\ \/ Path[c] \in {bound(i) : i \in 1 .. n}
                  \/ Name[c] \in {bound(i) : i \in n + 1 .. 2 * n}

-----------------------------------------------------------------------------
(* The handler *)

BeginSearch(q) ==
  /\ step = "none" /\ scenario.reader = "search"
  /\ req' = q
  /\ IF Refused(q) THEN step' = "refused" /\ todo' = <<>>
                   ELSE step' = "leg" /\ todo' = LegsOf(q)
  /\ began' = [rows |-> {rowid[c] : c \in rows}, seq |-> seq]
  /\ UNCHANGED <<answer, allowed, order, found, ranks, hits, results, seen, foreign, moved>>

\* What is left of a ranking when only the ids of S may be in it, as a set of
\* that one sequence.
Kept(o, S) ==
  {p \in SetToSeqs(ToSet(o) \cap S) :
     \A i, j \in DOMAIN p :
       i < j => \E k, l \in DOMAIN o : k < l /\ o[k] = p[i] /\ o[l] = p[j]}

\* LIMIT
FirstOf(o, n) == SubSeq(o, 1, Min({Len(o), n}))

\* One statement joins the index with the rows, filters, ranks and truncates.
FtsLeg ==
  /\ step = "leg" /\ todo # <<>> /\ Head(todo) = "fts"
  /\ LET matching == {c \in rows \cap indexed : InRange(req, c) /\ FtsOfApps(req, c)} IN
     \E o \in SetToAllKPermutations({rowid[c] : c \in rows \cap indexed}) :
     \E eligible \in Kept(o, {rowid[c] : c \in matching}) :
       LET window == FirstOf(eligible, FusionPool(req.limit))
       IN  /\ order' = [l \in DOMAIN order \cup {"fts"} |-> IF l = "fts" THEN o ELSE order[l]]
           /\ ranks' = [l \in DOMAIN ranks \cup {"fts"} |-> IF l = "fts" THEN window ELSE ranks[l]]
           /\ hits' = hits \cup ToSet(window)
  /\ todo' = Tail(todo)
  /\ UNCHANGED <<req, step, answer, allowed, found, results, began, seen, foreign, moved>>

StoreOf(leg) == IF leg = "text-semantic" THEN "text" ELSE "image"
LabelOf(leg) == IF leg = "text-semantic" THEN textLabel ELSE imageLabel
VecsOf(leg)  == IF leg = "text-semantic" THEN textVecs ELSE imageVecs

\* (mutant: the handler does not leave the leg it skips)
LegDoneOn ==
  /\ step' = "verdict" /\ todo' = Tail(todo)
  /\ answer' = NoAnswer /\ allowed' = {} /\ found' = <<>> /\ seen' = Unknown

\* On to the next leg; this one's locals are gone.
LegDone ==
  /\ step' = "leg" /\ todo' = Tail(todo)
  /\ answer' = NoAnswer /\ allowed' = {} /\ found' = <<>> /\ seen' = Unknown

\* Disabled, Rejected or Retry: a text query does without the leg, an image
\* query cannot be answered.
NoEmbedding ==
  /\ step = "leg" /\ todo # <<>> /\ Head(todo) # "fts"
  /\ IF Head(todo) = "image-semantic"
     THEN /\ step' \in {"refused", "unavailable"}
          /\ UNCHANGED <<todo, answer, allowed, found, seen>>
     ELSE LegDone   \* with a note
  /\ UNCHANGED <<req, order, ranks, hits, results, began, foreign, moved>>

Embedded ==
  /\ step = "leg" /\ todo # <<>> /\ Head(todo) # "fts"
  /\ Head(todo) = "image-semantic" => req.image = "good"
  /\ \E sp \in Spaces, fits \in BOOLEAN : answer' = [space |-> sp, fits |-> fits]
  /\ step' = "verdict"
  /\ UNCHANGED <<req, todo, allowed, order, found, ranks, hits, results,
                 began, seen, foreign, moved>>

\* (mutant: any store of the right dimension is ranked)
NeverMismatch(label, sp) == FALSE

\* index_space_verdict: the store was built in another space than the query's.
Mismatch(label, sp) == label # sp /\ label # Unknown

Verdict ==
  /\ step = "verdict"
  /\ LET leg  == Head(todo)
         skip == \/ Mismatch(LabelOf(leg), answer.space)
                 \/ ~answer.fits /\ leg # "image-semantic"
     IN  \/ skip /\ LegDone   \* with a note
         \/ /\ ~skip
            /\ step' = IF answer.fits THEN "filter" ELSE "unavailable"
            /\ seen' = LabelOf(leg)
            /\ UNCHANGED <<todo, answer, allowed, found>>
  /\ UNCHANGED <<req, order, ranks, hits, results, began, foreign, moved>>

\* capture_ids_matching_filters; every id passes when there is no filter.
Filter ==
  /\ step = "filter"
  /\ allowed' = IF Filtered(req)
                THEN {rowid[c] : c \in {d \in rows : InRange(req, d) /\ OfApps(req, d)}}
                ELSE Ids
  /\ step' = "scan"
  /\ UNCHANGED <<req, todo, answer, order, found, ranks, hits, results,
                 began, seen, foreign, moved>>

\* (mutant: the filter is applied to the truncated window)
FilterAfter(o, pool) == Kept(FirstOf(o, pool), allowed)

\* (mutant: the scan takes no allow-list)
FilterNothing(o, pool) == {FirstOf(o, pool)}

\* The `pool` nearest of the allowed vectors.
Nearest(o, pool) == {FirstOf(eligible, pool) : eligible \in Kept(o, allowed)}

\* Any of the stored vectors may be similar to the query, in any order.
Scan ==
  /\ step = "scan"
  /\ LET leg == Head(todo) IN
       /\ \E o \in SetToAllKPermutations({id \in Ids : VecsOf(leg)[id] # <<>>}) :
            /\ order' = [l \in DOMAIN order \cup {leg} |-> IF l = leg THEN o ELSE order[l]]
            /\ found' \in Nearest(o, FusionPool(req.limit))
            /\ foreign' = IF \E id \in ToSet(found') : VecsOf(leg)[id] # <<answer.space>>
                          THEN foreign \cup {leg} ELSE foreign
       /\ moved' = IF LabelOf(leg) # seen THEN moved \cup {leg} ELSE moved
  /\ step' = "rows"
  /\ UNCHANGED <<req, todo, answer, allowed, ranks, hits, results, began, seen>>

\* (mutant: what was found is returned whether it has a row or not)
AbsorbAll(ids) == ids

\* captures_by_ids: only what still has a row enters the result set.
WithRows(ids) == {id \in ids : HasRow(id)}

\* absorb_semantic_leg
Absorb ==
  /\ step = "rows"
  /\ hits' = hits \cup WithRows(ToSet(found))
  /\ ranks' = [l \in DOMAIN ranks \cup {Head(todo)} |->
                 IF l = Head(todo) THEN found ELSE ranks[l]]
  /\ LegDone
  /\ UNCHANGED <<req, order, results, began, foreign, moved>>

-----------------------------------------------------------------------------
(* Reciprocal rank fusion *)

\* The denominators a window may produce, multiplied out so that 1/(60 + r)
\* is an integer.  (The sums of the code are f64.)
Product[n \in 0 .. NumCaptures] == IF n = 0 THEN 1 ELSE Product[n - 1] * (RRF_K + n)

Scale == Product[NumCaptures]

Rank(leg, id) == CHOOSE r \in DOMAIN ranks[leg] : ranks[leg][r] = id

Finders(id) == {leg \in DOMAIN ranks : id \in ToSet(ranks[leg])}

\* What a leg gives a capture: 1/(60 + r), if it found it.
Share(leg, id) == IF leg \in Finders(id) THEN Scale \div (RRF_K + Rank(leg, id)) ELSE 0

Score(id) == Share("fts", id) + Share("text-semantic", id)
             + Share("image-semantic", id) + Share("image-text", id)

Lexical(id) == "fts" \in Finders(id)

\* (mutant: recency first)
NewestFirst(a, b) ==
  \/ ts[Owner(a)] > ts[Owner(b)]
  \/ ts[Owner(a)] = ts[Owner(b)] /\ Score(a) > Score(b)

\* (mutant: recency breaks a tie before the lexical match does)
RecencyTie(a, b) ==
  \/ Score(a) > Score(b)
  \/ Score(a) = Score(b) /\ ts[Owner(a)] > ts[Owner(b)]

\* Relevance, then lexical, then recency.
Before(a, b) ==
  \/ Score(a) > Score(b)
  \/ Score(a) = Score(b) /\ Lexical(a) /\ ~Lexical(b)
  \/ Score(a) = Score(b) /\ Lexical(a) = Lexical(b) /\ ts[Owner(a)] > ts[Owner(b)]

Answer ==
  /\ step = "leg" /\ todo = <<>>
  /\ \E p \in SetToSeqs(hits) :
       /\ \A i, j \in DOMAIN p : i < j => ~Before(p[j], p[i])
       /\ results' = FirstOf(p, req.limit)
  /\ step' = "answered"
  /\ UNCHANGED <<req, todo, answer, allowed, order, found, ranks, hits,
                 began, seen, foreign, moved>>

\* Any statement may fail: 500, and nothing is returned.
SearchError ==
  /\ step \in Working /\ step' = "error"
  /\ Spend("faults")
  /\ UNCHANGED <<ukg, objects, sem, storing, erase>>
  /\ UNCHANGED <<req, todo, answer, allowed, order, found, ranks, hits, results,
                 began, seen, foreign, moved>>

SearchNext ==
  \/ \E q \in Requests : BeginSearch(q)
  \/ FtsLeg \/ NoEmbedding \/ Embedded \/ Verdict \/ Filter \/ Scan \/ Absorb
  \/ Answer

-----------------------------------------------------------------------------
(* Properties *)

\* A request in progress has a leg to run and nothing is answered before the end.
SearchTypeOK ==
  /\ req \in Requests \cup {NoRequest}
  /\ step \in Working \cup {"none", "refused", "unavailable", "answered", "error"}
  /\ step \in Working \ {"leg"} => todo # <<>>
  /\ answer \in [space : Labels, fits : BOOLEAN]
  /\ allowed \subseteq Ids /\ hits \subseteq Ids
  /\ DOMAIN ranks \subseteq DOMAIN order /\ DOMAIN order \subseteq Legs
  /\ step # "answered" => results = <<>>
  /\ ToSet(results) \subseteq hits

\* Vectors of different models are never ranked against each other (the check
\* of routes.rs:158-170, made on the label before the vectors are read) unless
\* the store was relabelled between the check and the scan.
RankedInSpace == foreign \subseteq moved

\* The filter holds for every answer, whatever leg found it: a candidate that
\* a leg's filter excluded does not come back through another (routes.rs:214).
FilterRespected ==
  \A id \in ToSet(results) :
    /\ InRange(req, Owner(id))
    /\ req.apps = <<>> \/ {Path[Owner(id)], Name[Owner(id)]} \cap ToSet(req.apps) # {}

\* Nothing is returned that was erased before the request came: a vector
\* outlives its capture's row, and a semantic leg finds it.
NoErasedResult ==
  \A id \in ToSet(results) : id \in began.rows \/ id > began.seq

\* What the request asked for, and present throughout.
Eligible(id) ==
  /\ id \in began.rows /\ HasRow(id)
  /\ InRange(req, Owner(id)) /\ OfApps(req, Owner(id))

\* A short answer, whose windows hold nothing but captures that still exist: a
\* wiped capture's vector may take a place in a window (the wipe keeps the
\* semantic stores).
ShortAnswer ==
  /\ step = "answered" /\ Len(results) < req.limit
  /\ \A leg \in DOMAIN ranks : \A id \in ToSet(ranks[leg]) : HasRow(id)

\* The lexical leg filters by what was asked for when at most one application
\* was: with more, its parameters are bound in the wrong order (FtsOfApps).
FiltersAsAsked(leg) == leg = "fts" => Len(req.apps) <= 1

\* An answer shorter than its limit leaves out nothing that was asked for and
\* that one of its legs could rank: no leg truncates before it filters
\* (ukg.rs:437-440, semantic.rs:172-174), and no leg's find is lost on the way.
\* The exception is the lexical leg of a request for several applications,
\* which loses what was asked for (EligibleFound).
ShortAnswerComplete ==
  ShortAnswer => \A leg \in DOMAIN ranks : \A id \in ToSet(order[leg]) :
    FiltersAsAsked(leg) /\ Eligible(id) => id \in ToSet(results)

\* "`time_range` and `app_filter` apply to every leg [..] an eligible capture
\* that ranks below the cut is still found" (the repository's README.md:94):
\* the same of every leg, with any number of applications.
EligibleFound ==
  ShortAnswer => \A leg \in DOMAIN ranks : \A id \in ToSet(order[leg]) :
    Eligible(id) => id \in ToSet(results)

\* What was asked for and gets past the filter of a leg: the lexical leg of a
\* request for several applications does not know the captures it loses.
Admitted(leg, id) == Eligible(id) /\ (leg = "fts" => FtsOfApps(req, Owner(id)))

\* Where a leg puts an admitted capture among the admitted ones.
Place(leg, id) ==
  Cardinality({i \in DOMAIN order[leg] :
                 /\ \E j \in DOMAIN order[leg] : order[leg][j] = id /\ i <= j
                 /\ Admitted(leg, order[leg][i])})

RankedBy(id) == {leg \in DOMAIN ranks : id \in ToSet(order[leg]) /\ Admitted(leg, id)}

\* Down to this rank the agreement of one leg more outweighs everything else:
\* 4/(60 + 21) > 3/(60 + 1), and so for fewer of the four legs.
AgreementRank == 21

\* a is better than b for every leg that knows b; or more legs know a, and
\* each of them offers it and ranks it high enough; or each is known by one leg,
\* a's rank is no worse, and a is the lexical match.
Outranks(a, b) ==
  \/ /\ RankedBy(b) \subseteq RankedBy(a)
     /\ \A leg \in RankedBy(b) : Place(leg, a) < Place(leg, b)
  \/ /\ Cardinality(RankedBy(a)) > Cardinality(RankedBy(b))
     /\ \A leg \in RankedBy(a) :
          Place(leg, a) <= Min({req.limit * PoolFactor, MaxPool, AgreementRank})
  \/ /\ Cardinality(RankedBy(a)) = 1 /\ Cardinality(RankedBy(b)) = 1
     /\ RankedBy(a) = {"fts"} /\ RankedBy(b) # {"fts"}
     /\ \A m \in RankedBy(b) : Place("fts", a) <= Place(m, b)

\* Nobody is returned ahead of, or instead of, a capture that outranks it on
\* the legs' full rankings: agreement of two legs wins over one (the test
\* rrf_rewards_agreement_between_legs) also when both ranks are beyond the
\* final count (routes.rs:172-178), an exact match wins a tie, and recency
\* never buries either (routes.rs:461-463).  A leg's ranking is of what its
\* filter admits: see Admitted for the captures the lexical leg loses.
BestFirst ==
  (/\ step = "answered" /\ wipe = "none"
   /\ \A leg \in DOMAIN ranks : ToSet(ranks[leg]) \subseteq began.rows)
  => \A i \in DOMAIN results :
       \A id \in UNION {ToSet(order[leg]) : leg \in DOMAIN ranks} :
         (\E leg \in DOMAIN ranks : Admitted(leg, id)) /\ Outranks(id, results[i])
         => \E j \in 1 .. i : results[j] = id
=============================================================================
