---------------------------- MODULE FusionProofs ----------------------------
(***************************************************************************)
(* What a search returns is what its legs rank best (BestFirst), for any   *)
(* number of captures, any request and any rankings: the sums of           *)
(* reciprocal ranks, the windows they are taken from, and the order of the *)
(* answer.                                                                 *)
(***************************************************************************)
EXTENDS ViewsProofs, SequenceFacts

-----------------------------------------------------------------------------
(* Shares: 1/(60 + r) in units of Scale                                    *)

Denominator(r) == RRF_K + r

LEMMA ProductDefined ==
  /\ Product[0] = 1
  /\ \A n \in 1 .. NumCaptures : Product[n] = Product[n - 1] * Denominator(n)
  /\ \A n \in 0 .. NumCaptures : Product[n] \in Nat \ {0}
<1> USE StoresAssumption
<1> DEFINE N == 0 .. NumCaptures
           times == [i \in 1 .. NumCaptures |-> [x \in Nat \ {0} |-> x * Denominator(i)]]
           Is(f) == f = [n \in N |-> IF n = 0 THEN 1 ELSE f[n - 1] * (RRF_K + n)]
<1>1. \A x \in Nat \ {0}, i \in 1 .. NumCaptures : x * Denominator(i) \in Nat \ {0}
  BY DEF Denominator, RRF_K
<1>2. times \in Steps(NumCaptures, Nat \ {0})
  BY <1>1 DEF Steps
<1>3. PICK F : Computes(F, NumCaptures, Nat \ {0}, 1, times)
  <2>1. 1 \in Nat \ {0}
    OBVIOUS
  <2> HIDE DEF times
  <2> QED
    BY <1>2, <2>1, BoundedRecursion
<1>4. /\ F \in [0 .. NumCaptures -> Nat \ {0}] /\ F[0] = 1
      /\ \A i \in 1 .. NumCaptures : F[i] = F[i - 1] * Denominator(i)
  <2>1. ASSUME NEW i \in 1 .. NumCaptures PROVE F[i] = F[i - 1] * Denominator(i)
    <3>1. F[i - 1] \in Nat \ {0} /\ F[i] = times[i][F[i - 1]]
      BY <1>3 DEF Computes
    <3> QED
      BY <3>1
  <2> HIDE DEF times
  <2> QED
    BY <1>3, <2>1 DEF Computes
<1>5. Is(F)
  BY <1>4 DEF Denominator
<1>6. Is(Product)
  <2>1. Product = CHOOSE f : Is(f)
    BY DEF Product
  <2> HIDE DEF Is
  <2> QED
    BY <1>5, <2>1
<1>7. \A n \in N : Product[n] = IF n = 0 THEN 1 ELSE Product[n - 1] * (RRF_K + n)
  <2> HIDE DEF N
  <2> QED
    BY <1>6, Zenon
<1>8. Product[0] = 1 /\ \A n \in 1 .. NumCaptures : Product[n] = Product[n - 1] * Denominator(n)
  BY <1>7 DEF Denominator
<1> DEFINE T == {n \in N : Product[n] \in Nat \ {0}}
<1>9. 0 \in T
  BY <1>8
<1>10. \A i \in 0 .. NumCaptures - 1 : i \in T => i + 1 \in T
  <2> SUFFICES ASSUME NEW i \in 0 .. NumCaptures - 1, Product[i] \in Nat \ {0}
               PROVE  Product[i + 1] \in Nat \ {0}
    OBVIOUS
  <2>1. i + 1 \in 1 .. NumCaptures /\ i + 1 - 1 = i
    OBVIOUS
  <2>2. Product[i + 1] = Product[i] * Denominator(i + 1)
    BY <1>8, <2>1
  <2> QED
    BY <1>1, <2>1, <2>2
<1> HIDE DEF T
<1>11. \A i \in 0 .. NumCaptures : i \in T
  BY <1>9, <1>10, BoundedInduction
<1> QED
  BY <1>8, <1>11 DEF T

\* Scale is divided by each denominator without remainder.
LEMMA Divides ==
  ASSUME NEW r \in 1 .. NumCaptures
  PROVE  \A n \in r .. NumCaptures : \E q \in Nat : Product[n] = Denominator(r) * q
<1> USE StoresAssumption
<1> DEFINE P(n) == \E q \in Nat : Product[n] = Denominator(r) * q
           T == {i \in 0 .. NumCaptures - r : P(r + i)}
<1>0. \A i \in 1 .. NumCaptures : Denominator(i) \in Nat
  BY DEF Denominator, RRF_K
<1>1. P(r)
  <2>1. Product[r] = Product[r - 1] * Denominator(r) /\ Product[r - 1] \in Nat
    BY ProductDefined
  <2>2. Product[r] = Denominator(r) * Product[r - 1]
    BY <1>0, <2>1
  <2> QED
    BY <2>1, <2>2
<1>2. ASSUME NEW n \in r .. NumCaptures - 1, P(n) PROVE P(n + 1)
  <2>1. PICK q \in Nat : Product[n] = Denominator(r) * q
    BY <1>2
  <2>2. n + 1 \in 1 .. NumCaptures /\ n + 1 - 1 = n
    OBVIOUS
  <2>3. Product[n + 1] = (Denominator(r) * q) * Denominator(n + 1)
    BY <2>1, <2>2, ProductDefined
  <2>4. \A a, b, c \in Nat : (a * b) * c = a * (b * c) /\ b * c \in Nat
    OBVIOUS
  <2>5. Product[n + 1] = Denominator(r) * (q * Denominator(n + 1)) /\ q * Denominator(n + 1) \in Nat
    BY <1>0, <2>2, <2>3, <2>4
  <2> QED
    BY <2>5
<1> HIDE DEF P
<1>3. 0 \in T
  <2>1. r + 0 = r /\ 0 \in 0 .. NumCaptures - r
    OBVIOUS
  <2> QED
    BY <1>1, <2>1
<1>4. \A i \in 0 .. NumCaptures - r - 1 : i \in T => i + 1 \in T
  <2> SUFFICES ASSUME NEW i \in 0 .. NumCaptures - r - 1, P(r + i)
               PROVE  i + 1 \in 0 .. NumCaptures - r /\ P(r + (i + 1))
    OBVIOUS
  <2>1. r + i \in r .. NumCaptures - 1 /\ r + (i + 1) = (r + i) + 1 /\ i + 1 \in 0 .. NumCaptures - r
    OBVIOUS
  <2> QED
    BY <1>2, <2>1
<1>5. \A i \in 0 .. NumCaptures - r : i \in T
  <2> HIDE DEF T
  <2>1. NumCaptures - r \in Nat
    OBVIOUS
  <2> QED
    BY <1>3, <1>4, <2>1, BoundedInduction
<1>6. ASSUME NEW n \in r .. NumCaptures PROVE P(n)
  <2>1. n - r \in 0 .. NumCaptures - r /\ r + (n - r) = n
    OBVIOUS
  <2> QED
    BY <1>5, <2>1
<1> QED
  BY <1>6 DEF P

\* What rank r is worth.
Worth(r) == Scale \div (RRF_K + r)

LEMMA Exact ==
  ASSUME NEW r \in 1 .. NumCaptures
  PROVE  /\ Scale \in Nat /\ Scale > 0
         /\ Worth(r) \in Nat /\ Worth(r) > 0 /\ Denominator(r) * Worth(r) = Scale
<1> USE StoresAssumption
<1>1. Scale \in Nat /\ Scale > 0
  BY ProductDefined DEF Scale
<1>2. PICK q \in Nat : Scale = Denominator(r) * q
  <2>1. NumCaptures \in r .. NumCaptures
    OBVIOUS
  <2> QED
    BY <2>1, Divides DEF Scale
<1>3. Denominator(r) \in Nat /\ Denominator(r) > 0 /\ RRF_K + r = Denominator(r)
  BY DEF Denominator, RRF_K
<1>4. \A d, x \in Nat : d > 0 => (d * x) \div d = x
  OBVIOUS
<1>5. Worth(r) = q
  BY <1>2, <1>3, <1>4 DEF Worth
<1>6. q > 0
  BY <1>1, <1>2, <1>3
<1> QED
  BY <1>1, <1>2, <1>5, <1>6

\* A better rank is worth more; down to AgreementRank how much, at most 61 * 81.
LEMMA BetterWorth ==
  ASSUME NEW r \in 1 .. NumCaptures, NEW t \in 1 .. NumCaptures, r < t
  PROVE  Worth(r) > Worth(t)
<1>1. /\ Worth(r) \in Nat /\ Worth(t) \in Nat /\ Worth(t) > 0
      /\ Denominator(r) * Worth(r) = Denominator(t) * Worth(t)
  BY Exact
<1>2. Denominator(r) \in Nat /\ Denominator(t) \in Nat /\ Denominator(r) < Denominator(t)
  BY StoresAssumption DEF Denominator, RRF_K
<1>3. \A a, b, x, y \in Nat : a < b /\ y > 0 /\ x <= y => a * x < b * y
  <2> SUFFICES ASSUME NEW a \in Nat, NEW b \in Nat, NEW x \in Nat, NEW y \in Nat,
                      a < b, y > 0, x <= y
               PROVE  a * x < b * y
    OBVIOUS
  <2>1. a * x <= a * y
    OBVIOUS
  <2>2. a * y < b * y
    OBVIOUS
  <2> QED
    BY <2>1, <2>2
<1> QED
  BY <1>1, <1>2, <1>3

LEMMA WorthBounds ==
  ASSUME NEW r \in 1 .. NumCaptures
  PROVE  /\ 61 * Worth(r) <= Scale
         /\ r <= AgreementRank => 81 * Worth(r) >= Scale
<1>1. Scale \in Nat /\ Worth(r) \in Nat /\ Denominator(r) * Worth(r) = Scale
  BY Exact
<1>2. Denominator(r) \in Nat /\ 61 <= Denominator(r) /\ (r <= AgreementRank => Denominator(r) <= 81)
  BY StoresAssumption DEF Denominator, RRF_K, AgreementRank
<1>3. \A a, b, x \in Nat : a <= b => a * x <= b * x
  OBVIOUS
<1> QED
  BY <1>1, <1>2, <1>3

-----------------------------------------------------------------------------
(* Windows and places.  Ahead: x comes before y in o.  Top: w is the first *)
(* n, or all, of what a ranking o has in some set that includes D.         *)

Ahead(o, x, y) == \E k, l \in DOMAIN o : k < l /\ o[k] = x /\ o[l] = y

Behind(o, w, x) == \A y \in ToSet(w) : Ahead(o, y, x)

Top(o, w, n, D) ==
  /\ o \in Seq(Ids) /\ Once(o)
  /\ w \in Seq(Ids) /\ Len(w) <= n /\ ToSet(w) \subseteq ToSet(o)
  /\ \A i, j \in DOMAIN w : i < j => Ahead(o, w[i], w[j])
  /\ \A x \in ToSet(o) \cap D : x \in ToSet(w) \/ (Len(w) = n /\ Behind(o, w, x))

LEMMA TopSmaller ==
  ASSUME NEW o, NEW w, NEW n, NEW D, NEW E, Top(o, w, n, D), E \subseteq D
  PROVE  Top(o, w, n, E)
BY DEF Top

\* What comes before is not behind, nor the same.
LEMMA AheadOrder ==
  ASSUME NEW o \in Seq(Ids), Once(o), NEW i \in DOMAIN o, NEW j \in DOMAIN o
  PROVE  Ahead(o, o[i], o[j]) <=> i < j
<1>1. ASSUME Ahead(o, o[i], o[j]) PROVE i < j
  <2>1. PICK k \in DOMAIN o, l \in DOMAIN o : k < l /\ o[k] = o[i] /\ o[l] = o[j]
    BY <1>1 DEF Ahead
  <2>2. k = i /\ l = j
    BY <2>1 DEF Once
  <2> QED
    BY <2>1, <2>2
<1>2. i < j => Ahead(o, o[i], o[j])
  BY DEF Ahead
<1> QED
  BY <1>1, <1>2

\* What is cut off comes behind what is kept.
LEMMA PastTheEnd ==
  ASSUME NEW m \in Nat, NEW k \in Nat, NEW n \in Nat, k = (IF m < n THEN m ELSE n),
         NEW j \in 1 .. m, j \notin 1 .. k
  PROVE  k = n /\ \A i \in 1 .. k : i < j
OBVIOUS

LEMMA KeptTop ==
  ASSUME NEW X, X \subseteq Ids, NEW S, NEW o \in SetToAllKPermutations(X),
         NEW e \in Kept(o, S), NEW n \in Nat, NEW D, ToSet(o) \cap D \subseteq S
  PROVE  Top(o, FirstOf(e, n), n, D)
<1> DEFINE T == ToSet(o) \cap S
<1>0. PICK w : w = FirstOf(e, n)
  OBVIOUS
<1>1. o \in Seq(Ids) /\ Once(o) /\ ToSet(o) \subseteq Ids
  <2>1. PICK Y \in SUBSET X : o \in SetToSeqs(Y)
    BY DEF SetToAllKPermutations
  <2>2. IsFiniteSet(Y)
    BY IdsFinite DEF Ids, Captures
  <2>3. o \in Seq(Y) /\ Once(o)
    BY <2>1, <2>2, Listed DEF Once
  <2>4. o \in Seq(Ids)
    BY <2>3, Places
  <2> QED
    BY <2>3, <2>4, Places DEF ToSet
<1>2. IsFiniteSet(T)
  BY <1>1, IdsFinite DEF Ids, Captures
<1>3. /\ e \in SetToSeqs(T)
      /\ \A i, j \in DOMAIN e : i < j => Ahead(o, e[i], e[j])
  <2>1. /\ e \in SetToSeqs(T)
        /\ \A i, j \in DOMAIN e :
             i < j => \E k, l \in DOMAIN o : k < l /\ o[k] = e[i] /\ o[l] = e[j]
    BY DEF Kept
  <2> QED
    BY <2>1, Zenon DEF Ahead
<1> HIDE DEF T
<1>4. /\ e \in Seq(T) /\ Len(e) \in Nat /\ DOMAIN e = 1 .. Len(e)
      /\ \A x \in T : \E i \in DOMAIN e : e[i] = x
  BY <1>2, <1>3, Listed
<1>5. /\ w \in Seq(T) /\ Len(w) \in Nat /\ Len(w) = (IF Len(e) < n THEN Len(e) ELSE n)
      /\ DOMAIN w = 1 .. Len(w)
      /\ \A i \in DOMAIN w : w[i] = e[i] /\ i \in DOMAIN e
  BY <1>0, <1>4, FirstOfPart
<1>6. ToSet(w) \subseteq T
  BY <1>5, Places DEF ToSet
<1>7. w \in Seq(Ids) /\ ToSet(w) \subseteq ToSet(o) /\ Len(w) <= n
  <2>1. T \subseteq Ids /\ T \subseteq ToSet(o)
    BY <1>1 DEF T
  <2>2. w \in Seq(Ids)
    BY <1>5, <2>1, Places
  <2>3. Len(w) <= n
    BY <1>4, <1>5
  <2> QED
    BY <1>6, <2>1, <2>2, <2>3
<1>8. \A i, j \in DOMAIN w : i < j => Ahead(o, w[i], w[j])
  BY <1>3, <1>5
<1>11. DOMAIN w = 1 .. Len(w)
  BY <1>7, Places, Zenon
<1>9. ASSUME NEW x \in ToSet(o) \cap D, x \notin ToSet(w) PROVE Len(w) = n /\ Behind(o, w, x)
  <2>1. x \in T
    BY DEF T
  <2>2. PICK j \in DOMAIN e : e[j] = x
    BY <1>4, <2>1
  <2>3. j \notin DOMAIN w
    <3>1. j \in DOMAIN w => w[j] \in ToSet(w)
      BY Zenon DEF ToSet
    <3>2. j \in DOMAIN w => w[j] = x
      BY <1>5, <2>2, Zenon
    <3> QED
      BY <1>9, <3>1, <3>2, Zenon
  <2>4. Len(w) = n /\ \A i \in DOMAIN w : i < j
    <3>1. j \in 1 .. Len(e) /\ j \notin 1 .. Len(w)
      <4>1. DOMAIN e = 1 .. Len(e)
        BY <1>4, Zenon
      <4>2. j \in 1 .. Len(e)
        BY <2>2, <4>1, Zenon
      <4>3. j \notin 1 .. Len(w)
        BY <1>11, <2>3, SMT
      <4> QED
        BY <4>2, <4>3, Zenon
    <3>2. Len(w) = n /\ \A i \in 1 .. Len(w) : i < j
      <4>1. \A m, k, N \in Nat : k = (IF m < N THEN m ELSE N)
              => \A l \in 1 .. m : l \notin 1 .. k => k = N /\ \A i \in 1 .. k : i < l
        BY PastTheEnd, Zenon
      <4>2. Len(e) \in Nat /\ Len(w) \in Nat /\ Len(w) = IF Len(e) < n THEN Len(e) ELSE n
        BY <1>4, <1>5, Zenon
      <4> QED
        BY <3>1, <4>1, <4>2, Zenon
    <3> QED
      BY <1>5, <3>2, Zenon
  <2>5. \A i \in DOMAIN w : Ahead(o, w[i], x)
    BY <1>3, <1>5, <2>2, <2>4
  <2> QED
    BY <2>4, <2>5 DEF Behind, ToSet
<1>10. Top(o, w, n, D)
  BY <1>1, <1>7, <1>8, <1>9 DEF Top
<1> QED
  BY <1>0, <1>10

\* The places in o up to that of x whose ids are in D.
UpTo(o, D, x) == {i \in DOMAIN o : /\ \E j \in DOMAIN o : o[j] = x /\ i <= j
                                  /\ o[i] \in D}

\* Where an id of a ranking is.
At(o, x) == CHOOSE i \in DOMAIN o : o[i] = x

LEMMA Located ==
  ASSUME NEW o \in Seq(Ids), Once(o), NEW x \in ToSet(o)
  PROVE  /\ At(o, x) \in DOMAIN o /\ o[At(o, x)] = x
         /\ \A i \in DOMAIN o : o[i] = x => i = At(o, x)
         /\ \A D : UpTo(o, D, x) = {i \in DOMAIN o : i <= At(o, x) /\ o[i] \in D}
<1>1. \E i \in DOMAIN o : o[i] = x
  BY DEF ToSet
<1>2. At(o, x) \in DOMAIN o /\ o[At(o, x)] = x
  BY <1>1 DEF At
<1>3. \A i \in DOMAIN o : o[i] = x => i = At(o, x)
  BY <1>2 DEF Once
<1>4. ASSUME NEW D PROVE UpTo(o, D, x) = {i \in DOMAIN o : i <= At(o, x) /\ o[i] \in D}
  BY <1>2, <1>3 DEF UpTo
<1> QED
  BY <1>2, <1>3, <1>4

LEMMA Numbered == \A k \in Nat : IsFiniteSet(1 .. k) /\ Cardinality(1 .. k) = k
<1> TAKE k \in Nat
<1>1. IsFiniteSet(1 .. k) /\ Cardinality(1 .. k) = (IF 1 > k THEN 0 ELSE k - 1 + 1)
  BY FS_Interval
<1> QED
  BY <1>1

\* A window of ids that are all in D is the beginning of what is in D: an id's
\* rank in the window is its place among them, and what is left out comes later.
LEMMA PlaceInWindow ==
  ASSUME NEW o, NEW w, NEW n \in Nat, NEW D, Top(o, w, n, D), ToSet(w) \subseteq D
  PROVE  /\ \A r \in DOMAIN w : Cardinality(UpTo(o, D, w[r])) = r
         /\ \A x \in ToSet(o) \cap D : x \notin ToSet(w) => Cardinality(UpTo(o, D, x)) > n
         /\ Len(w) <= NumCaptures
<1>1. /\ o \in Seq(Ids) /\ Once(o) /\ w \in Seq(Ids) /\ ToSet(w) \subseteq ToSet(o)
      /\ \A i, j \in DOMAIN w : i < j => Ahead(o, w[i], w[j])
      /\ \A x \in ToSet(o) \cap D : x \in ToSet(w) \/ (Len(w) = n /\ Behind(o, w, x))
  BY DEF Top
<1>2. /\ Len(o) \in Nat /\ DOMAIN o = 1 .. Len(o) /\ Len(w) \in Nat /\ DOMAIN w = 1 .. Len(w)
  BY <1>1, Places
<1>3. \A i \in DOMAIN w : w[i] \in ToSet(w) /\ w[i] \in ToSet(o) /\ w[i] \in D
  BY <1>1 DEF ToSet
<1> DEFINE at(i) == At(o, w[i])
<1>4. \A i \in DOMAIN w : at(i) \in DOMAIN o /\ o[at(i)] = w[i]
  BY <1>1, <1>3, Located
<1>5. \A i, j \in DOMAIN w : i < j => at(i) < at(j)
  <2> SUFFICES ASSUME NEW i \in DOMAIN w, NEW j \in DOMAIN w, i < j PROVE at(i) < at(j)
    OBVIOUS
  <2>1. Ahead(o, o[at(i)], o[at(j)])
    BY <1>1, <1>4
  <2> QED
    BY <1>1, <1>4, <2>1, AheadOrder
<1> HIDE DEF at
<1>6. \A i, j \in DOMAIN w : at(i) = at(j) => i = j
  BY <1>2, <1>4, <1>5
<1>7. \A D1 : \A i \in DOMAIN w : UpTo(o, D1, w[i]) = {k \in DOMAIN o : k <= at(i) /\ o[k] \in D1}
  BY <1>1, <1>3, Located DEF at
<1>8. IsFiniteSet(DOMAIN o)
  BY <1>2, FS_Interval
<1>9. ASSUME NEW r \in DOMAIN w PROVE Cardinality(UpTo(o, D, w[r])) = r
  <2> DEFINE P == {k \in DOMAIN o : k <= at(r) /\ o[k] \in D}
  <2>1. \A i \in 1 .. r : i \in DOMAIN w /\ at(i) \in P
    <3> TAKE i \in 1 .. r
    <3>1. i \in DOMAIN w /\ (i < r \/ i = r)
      BY <1>2
    <3>2. at(i) \in DOMAIN o /\ o[at(i)] \in D /\ at(r) \in Nat
      BY <1>2, <1>3, <1>4, <3>1
    <3>3. at(i) <= at(r)
      BY <1>2, <1>5, <3>1, <3>2
    <3> QED
      BY <3>1, <3>2, <3>3
  <2>2. ASSUME NEW k \in P PROVE \E i \in 1 .. r : k = at(i)
    <3>1. o[k] \in ToSet(o) \cap D /\ k \in DOMAIN o /\ k <= at(r)
      BY DEF ToSet
    <3>2. o[k] \in ToSet(w)
      <4> SUFFICES ASSUME o[k] \notin ToSet(w) PROVE FALSE
        OBVIOUS
      <4>1. Ahead(o, w[r], o[k])
        BY <1>1, <1>3, <3>1 DEF Behind
      <4>2. at(r) < k
        BY <1>1, <1>4, <3>1, <4>1, AheadOrder
      <4> QED
        BY <1>2, <1>4, <3>1, <4>2
    <3>3. PICK i \in DOMAIN w : o[k] = w[i]
      BY <3>2 DEF ToSet
    <3>4. k = at(i)
      BY <1>1, <1>4, <3>1, <3>3 DEF Once
    <3>5. i <= r
      <4>1. i \in Nat /\ r \in Nat
        BY <1>2
      <4>2. r < i => at(r) < at(i)
        BY <1>5
      <4>3. at(r) \in Nat /\ at(i) \in Nat
        BY <1>2, <1>4
      <4> QED
        BY <3>1, <3>4, <4>1, <4>2, <4>3
    <3> QED
      BY <1>2, <3>3, <3>4, <3>5
  <2> DEFINE f == [i \in 1 .. r |-> at(i)]
  <2>3. f \in [1 .. r -> P] /\ (\A i, j \in 1 .. r : f[i] = f[j] => i = j)
        /\ \A k \in P : \E i \in 1 .. r : f[i] = k
    <3> HIDE DEF P
    <3> QED
      BY <1>6, <2>1, <2>2
  <2> HIDE DEF f, P
  <2>4. f \in Bijection(1 .. r, P)
    BY <2>3 DEF Bijection, Injection, Surjection, IsInjective
  <2>5. ExistsBijection(1 .. r, P)
    BY <2>4 DEF ExistsBijection
  <2>6. IsFiniteSet(1 .. r) /\ Cardinality(1 .. r) = r
    BY <1>2, Numbered
  <2>7. Cardinality(P) = r
    BY <2>5, <2>6, FS_Bijection
  <2> QED
    BY <1>7, <2>7 DEF P
<1>10. ASSUME NEW x \in ToSet(o) \cap D, x \notin ToSet(w) PROVE Cardinality(UpTo(o, D, x)) > n
  <2> DEFINE P == {k \in DOMAIN o : k <= At(o, x) /\ o[k] \in D}
             m == n + 1
  <2>1. Len(w) = n /\ Behind(o, w, x)
    BY <1>1, <1>10
  <2>2. At(o, x) \in DOMAIN o /\ o[At(o, x)] = x /\ UpTo(o, D, x) = P
    BY <1>1, <1>10, Located
  <2>3. \A i \in DOMAIN w : at(i) < At(o, x)
    <3> TAKE i \in DOMAIN w
    <3>1. Ahead(o, o[at(i)], o[At(o, x)])
      BY <1>3, <1>4, <2>1, <2>2 DEF Behind
    <3> QED
      BY <1>1, <1>4, <2>2, <3>1, AheadOrder
  <2>4. \A i \in 1 .. n : i \in DOMAIN w /\ at(i) \in P /\ at(i) # At(o, x)
    BY <1>2, <1>3, <1>4, <2>1, <2>2, <2>3
  <2>5. At(o, x) \in P
    BY <1>2, <1>10, <2>2
  <2> DEFINE f == [i \in 1 .. m |-> IF i = m THEN At(o, x) ELSE at(i)]
  <2>6. f \in [1 .. m -> P] /\ \A i, j \in 1 .. m : f[i] = f[j] => i = j
    <3>1. \A i \in 1 .. m : i # m => i \in 1 .. n
      OBVIOUS
    <3> HIDE DEF P, m
    <3> QED
      BY <1>6, <2>4, <2>5, <3>1
  <2>7. IsFiniteSet(P)
    BY <1>8, FS_Subset
  <2> HIDE DEF f, P
  <2>8. f \in Injection(1 .. m, P)
    BY <2>6 DEF Injection, IsInjective
  <2>9. Cardinality(1 .. m) <= Cardinality(P)
    <3> HIDE DEF m
    <3> QED
      BY <2>7, <2>8, FS_Injection
  <2>10. Cardinality(1 .. m) = m
    BY Numbered
  <2>11. Cardinality(P) \in Nat
    BY <2>7, FS_CardinalityType
  <2> QED
    BY <2>2, <2>9, <2>10, <2>11
<1>11. Len(w) <= NumCaptures
  <2>1. \A i \in 1 .. Len(w) : w[i] \in Ids
    BY <1>1, <1>2, Places, Zenon
  <2>2. \A i, j \in 1 .. Len(w) : w[i] = w[j] => i = j
    BY <1>2, <1>6 DEF at
  <2>3. w \in [1 .. Len(w) -> Ids]
    BY <1>1, LenProperties, Zenon
  <2>4. w \in Injection(1 .. Len(w), Ids)
    BY <2>2, <2>3 DEF Injection, IsInjective
  <2>5. IsFiniteSet(Ids) /\ Cardinality(Ids) = NumCaptures
    BY StoresAssumption, Numbered DEF Ids
  <2>6. Cardinality(1 .. Len(w)) = Len(w)
    BY <1>2, Numbered, Zenon
  <2>7. Cardinality(1 .. Len(w)) <= Cardinality(Ids)
    BY <2>4, <2>5, FS_Injection
  <2>8. Cardinality(Ids) = NumCaptures
    BY <2>5, Zenon
  <2> QED
    BY <2>6, <2>7, <2>8, SMT
<1> QED
  BY <1>9, <1>10, <1>11

-----------------------------------------------------------------------------
(* The inductive invariant *)

\* What the lexical filter asks of a capture that has not lost its relations.
NameBound(id) ==
  LET n == Len(req.apps)
      bound(i) == req.apps[(i + 1) \div 2]
  IN  n = 0 \/ Path[id] \in {bound(i) : i \in 1 .. n} \/ Name[id] \in {bound(i) : i \in n + 1 .. 2 * n}

Asked(leg, id) == Passes(id) /\ (leg = "fts" => NameBound(id))

AllDue(leg) == {id \in Ids : Due(leg, id)}

\* A leg's window is the best of what it ranked and the request asked for.
Ranked(leg, w) ==
  /\ Top(order[leg], w, FusionPool(req.limit), AllDue(leg))
  /\ \A id \in ToSet(w) : Asked(leg, id)

\* What Before says whenever the captures were taken.
Better(a, b) ==
  \/ Score(a) > Score(b)
  \/ Score(a) = Score(b) /\ Lexical(a) /\ ~Lexical(b)

Sorted(p) ==
  /\ p \in SetToSeqs(hits) /\ results = FirstOf(p, req.limit)
  /\ \A i, j \in DOMAIN p : i < j => ~Better(p[j], p[i])

\* As long as nothing is wiped, what was there is there.
NothingWiped ==
  wipe = "none" => related = rows /\ (step # "none" => began.rows \subseteq rows)

Ranking ==
  /\ NothingWiped
  /\ step \in Working \ {"leg"} => Head(todo) # "fts"
  /\ step = "rows" => Ranked(Head(todo), found)
  /\ step # "none" => \A leg \in DOMAIN ranks : Ranked(leg, ranks[leg])
  /\ \A id \in hits : \E leg \in DOMAIN ranks : id \in ToSet(ranks[leg])
  /\ step = "answered" => \E p : Sorted(p)

LEMMA RankingInitial == ViewsInit => Ranking
BY DEF ViewsInit, Init, SearchInit, Ranking, NothingWiped, Working

\* The filter and the fusion look at nothing that a writer changes.
LEMMA AskedSame ==
  ASSUME req' = req, ts' = ts
  PROVE  \A leg, id : Asked(leg, id)' <=> Asked(leg, id)
BY DEF Asked, Passes, InRange, NameBound

LEMMA RankedSmaller ==
  ASSUME req' = req, ts' = ts, NEW leg, \A id : Due(leg, id)' => Due(leg, id),
         order'[leg] = order[leg], NEW w, Ranked(leg, w)
  PROVE  Ranked(leg, w)'
<1>1. AllDue(leg)' \subseteq AllDue(leg)
  BY DEF AllDue
<1> DEFINE n == FusionPool(req.limit)
<1>2. FusionPool(req'.limit) = n
  OBVIOUS
<1>3. Top(order[leg], w, n, AllDue(leg)')
  BY <1>1, TopSmaller DEF Ranked
<1>4. \A id \in ToSet(w) : Asked(leg, id)'
  BY AskedSame DEF Ranked
<1> HIDE DEF n
<1> QED
  BY <1>2, <1>3, <1>4 DEF Ranked, Top

LEMMA RankedSame ==
  ASSUME UNCHANGED <<ukg, req, began>>
  PROVE  \A leg, w : order'[leg] = order[leg] /\ Ranked(leg, w) => Ranked(leg, w)'
<1> TAKE leg, w
<1>1. ts' = ts
  BY DEF ukg
<1>2. \A id : Due(leg, id)' => Due(leg, id)
  BY SameFilter
<1> QED
  BY <1>1, <1>2, RankedSmaller

LEMMA BetterSame ==
  ASSUME ranks' = ranks
  PROVE  \A a, b : Better(a, b)' <=> Better(a, b)
BY DEF Better, Score, Share, Finders, Rank, Lexical

LEMMA SortedSame ==
  ASSUME UNCHANGED <<req, ranks, hits, results>>
  PROVE  \A p : Sorted(p) => Sorted(p)'
BY BetterSame DEF Sorted

\* A writer's step beside the search.
LEMMA RankingBeside ==
  ASSUME StoresInv, SearchInv, Ranking, StoresNext, UNCHANGED search
  PROVE  Ranking'
<1>0. /\ req' = req /\ step' = step /\ todo' = todo /\ order' = order /\ found' = found
      /\ ranks' = ranks /\ hits' = hits /\ results' = results /\ began' = began
  BY DEF search
<1>1. /\ seq \in Nat /\ seq' \in Nat /\ seq <= seq' /\ ts' = ts
      /\ \A c \in rows' : c \in rows \/ c > seq
      /\ \A c \in related' : c \in related \/ c > seq
  BY StoresHistory
<1>2. ASSUME step # "none", NEW leg, NEW id, Due(leg, id)' PROVE Due(leg, id)
  <2>1. \A c \in began.rows : c \in Nat /\ c <= seq /\ (c \in rows' => c \in rows)
                              /\ (c \in related' => c \in related)
    BY <1>1, <1>2 DEF SearchInv, Untouched, Captures
  <2>2. id \in began.rows /\ id \in rows /\ (id \in related' => id \in related)
    BY <1>0, <1>2, <2>1 DEF Due
  <2>3. InRange(req, id) /\ OfApps(req, id) /\ (leg = "fts" => FtsOfApps(req, id))
    BY <1>0, <1>1, <1>2, <2>2 DEF Due, InRange, OfApps, FtsOfApps
  <2> QED
    BY <2>2, <2>3 DEF Due
<1>3. ASSUME step # "none", NEW leg, NEW w, Ranked(leg, w) PROVE Ranked(leg, w)'
  <2>1. \A id : Due(leg, id)' => Due(leg, id)
    BY <1>2, <1>3
  <2> QED
    BY <1>0, <1>1, <1>3, <2>1, RankedSmaller
<1>4. NothingWiped'
  <2>1. CASE wipe' # "none"
    BY <2>1 DEF NothingWiped
  <2>2. CASE wipe' = "none"
    <3>1. wipe = "none" /\ (UNCHANGED ukg \/ InsertRow)
      BY <2>2 DEF StoresNext, Broker, PutObject, InsertRow, Enricher, Wipe, WipeBegin, WipeStep,
                  WipeFails, Wiping, erase
    <3>2. related' = rows' /\ rows \subseteq rows'
      BY <3>1 DEF Ranking, NothingWiped, InsertRow, ukg
    <3> QED
      BY <1>0, <3>1, <3>2 DEF Ranking, NothingWiped
  <2> QED
    BY <2>1, <2>2
<1>5. step = "rows" => Ranked(Head(todo), found)'
  BY <1>0, <1>3 DEF Ranking
<1>6. step # "none" => \A leg \in DOMAIN ranks : Ranked(leg, ranks[leg])'
  BY <1>0, <1>3 DEF Ranking
<1>7. step = "answered" => \E p : Sorted(p)'
  BY <1>0, SortedSame DEF Ranking
<1> QED
  BY <1>0, <1>4, <1>5, <1>6, <1>7 DEF Ranking

\* A step that finds nothing and ranks nothing.
LEMMA RanksAlone ==
  ASSUME Ranking, step # "none", UNCHANGED <<ukg, wipe, req, began, order, ranks, hits>>,
         step' \in Working \ {"leg"} => Head(todo') # "fts",
         step' \notin {"none", "rows", "answered"}
  PROVE  Ranking'
<1>1. NothingWiped'
  BY DEF Ranking, NothingWiped, ukg
<1>2. \A leg \in DOMAIN ranks : Ranked(leg, ranks[leg])'
  BY RankedSame DEF Ranking
<1> QED
  BY <1>1, <1>2 DEF Ranking

\* A step that the search does not see.
LEMMA RankingSame ==
  ASSUME Ranking, UNCHANGED ukg, wipe' = wipe, UNCHANGED search
  PROVE  Ranking'
<1>0. /\ req' = req /\ step' = step /\ todo' = todo /\ order' = order /\ found' = found
      /\ ranks' = ranks /\ hits' = hits /\ results' = results /\ began' = began
  BY DEF search
<1>1. NothingWiped'
  BY <1>0 DEF Ranking, NothingWiped, ukg
<1>2. \A leg, w : Ranked(leg, w) => Ranked(leg, w)'
  BY <1>0, RankedSame
<1>3. step = "rows" => Ranked(Head(todo), found)'
  BY <1>0, <1>2 DEF Ranking
<1>4. step # "none" => \A leg \in DOMAIN ranks : Ranked(leg, ranks[leg])'
  BY <1>0, <1>2 DEF Ranking
<1>5. step = "answered" => \E p : Sorted(p)'
  BY <1>0, SortedSame DEF Ranking
<1> QED
  BY <1>0, <1>1, <1>3, <1>4, <1>5 DEF Ranking

LEMMA BeginRanks ==
  ASSUME StoresInv, SearchInv, Ranking, NEW q \in Requests, BeginSearch(q), UNCHANGED stores
  PROVE  Ranking'
<1>0. /\ step = "none" /\ step' \in {"refused", "leg"} /\ UNCHANGED ukg /\ wipe' = wipe
      /\ began' = [rows |-> {rowid[c] : c \in rows}, seq |-> seq]
      /\ ranks' = ranks /\ hits' = hits
  BY DEF BeginSearch, stores, erase
<1>1. hits = {} /\ DOMAIN ranks = {}
  BY <1>0 DEF SearchInv, Untouched
<1>2. began'.rows = rows
  BY <1>0, OwnIds DEF StoresInv
<1>3. NothingWiped'
  BY <1>0, <1>2 DEF Ranking, NothingWiped, ukg
<1> QED
  BY <1>0, <1>1, <1>3 DEF Ranking, Working

\* The end of a leg: its window joins the others.
LEMMA WindowJoins ==
  ASSUME Ranking, step # "none", step' = "leg", UNCHANGED <<ukg, wipe, req, began>>,
         NEW leg, leg \notin DOMAIN ranks, NEW w,
         ranks' = [l \in DOMAIN ranks \cup {leg} |-> IF l = leg THEN w ELSE ranks[l]],
         \A l \in DOMAIN ranks : order'[l] = order[l],
         \A id \in hits' : id \in hits \/ id \in ToSet(w), Ranked(leg, w)'
  PROVE  Ranking'
<1>1. DOMAIN ranks' = DOMAIN ranks \cup {leg} /\ ranks'[leg] = w
      /\ \A l \in DOMAIN ranks : ranks'[l] = ranks[l]
  OBVIOUS
<1>2. NothingWiped'
  BY DEF Ranking, NothingWiped, ukg
<1>3. \A l \in DOMAIN ranks : Ranked(l, ranks[l])'
  <2> TAKE l \in DOMAIN ranks
  <2>1. Ranked(l, ranks[l]) /\ order'[l] = order[l] /\ ranks'[l] = ranks[l]
    BY <1>1 DEF Ranking
  <2>2. \A v : Ranked(l, v) => Ranked(l, v)'
    BY <2>1, RankedSame
  <2> QED
    BY <2>1, <2>2
<1>4. Ranked(leg, ranks[leg])'
  BY <1>1
<1>5. \A l \in DOMAIN ranks' : Ranked(l, ranks[l])'
  BY <1>1, <1>3, <1>4
<1>6. \A id \in hits' : \E l \in DOMAIN ranks' : id \in ToSet(ranks'[l])
  BY <1>1 DEF Ranking
<1> QED
  BY <1>2, <1>5, <1>6 DEF Ranking, Working

LEMMA FtsRanks ==
  ASSUME StoresInv, SearchInv, Ranking, FtsLeg, UNCHANGED stores
  PROVE  Ranking'
<1> DEFINE X == rows \cap indexed
           M == {c \in rows \cap indexed : InRange(req, c) /\ FtsOfApps(req, c)}
           n == FusionPool(req.limit)
<1>0. /\ step = "leg" /\ todo # <<>> /\ Head(todo) = "fts" /\ UNCHANGED ukg /\ wipe' = wipe
      /\ UNCHANGED <<req, step, began>>
  BY DEF FtsLeg, stores, erase
<1>1. n \in Nat
  BY Limits DEF SearchInv, Shapes
<1>2. {rowid[c] : c \in rows \cap indexed} = X /\ {rowid[c] : c \in M} = M
  BY OwnIds DEF StoresInv
<1>3. \E o \in SetToAllKPermutations(X) : \E e \in Kept(o, M) :
        /\ order' = [l \in DOMAIN order \cup {"fts"} |-> IF l = "fts" THEN o ELSE order[l]]
        /\ ranks' = [l \in DOMAIN ranks \cup {"fts"} |-> IF l = "fts" THEN FirstOf(e, n) ELSE ranks[l]]
        /\ hits' = hits \cup ToSet(FirstOf(e, n))
  BY <1>2 DEF FtsLeg
<1>a. PICK o \in SetToAllKPermutations(X) : \E e \in Kept(o, M) :
        /\ order' = [l \in DOMAIN order \cup {"fts"} |-> IF l = "fts" THEN o ELSE order[l]]
        /\ ranks' = [l \in DOMAIN ranks \cup {"fts"} |-> IF l = "fts" THEN FirstOf(e, n) ELSE ranks[l]]
        /\ hits' = hits \cup ToSet(FirstOf(e, n))
  BY <1>3, Zenon
<1>4. PICK e \in Kept(o, M) :
        /\ order' = [l \in DOMAIN order \cup {"fts"} |-> IF l = "fts" THEN o ELSE order[l]]
        /\ ranks' = [l \in DOMAIN ranks \cup {"fts"} |-> IF l = "fts" THEN FirstOf(e, n) ELSE ranks[l]]
        /\ hits' = hits \cup ToSet(FirstOf(e, n))
  BY <1>a, Zenon
<1>5. PICK w : w = FirstOf(e, n)
  OBVIOUS
<1>6. X \subseteq Ids
  BY DEF StoresInv, TablesInv, Captures, Ids
<1>7. "fts" \notin DOMAIN ranks
  BY <1>0, Rest DEF SearchInv
<1>8. /\ order'["fts"] = o /\ \A l \in DOMAIN ranks : order'[l] = order[l]
      /\ ranks' = [l \in DOMAIN ranks \cup {"fts"} |-> IF l = "fts" THEN w ELSE ranks[l]]
      /\ \A id \in hits' : id \in hits \/ id \in ToSet(w)
  BY <1>4, <1>5, <1>7 DEF SearchInv, Shapes
<1> HIDE DEF n
<1>9. ToSet(w) \subseteq X \cap M /\ ToSet(o) \subseteq X
  <2> HIDE DEF X, M
  <2> QED
    BY <1>1, <1>5, <1>6, Window
<1>10. \A id \in ToSet(w) : Asked("fts", id)
  <2>1. \A id \in M : InRange(req, id) /\ FtsOfApps(req, id)
    OBVIOUS
  <2>2. req \in Requests \cup {NoRequest}
    BY DEF SearchInv, Shapes
  <2> HIDE DEF M
  <2>3. \A id \in M : Passes(id)
    BY <2>1, <2>2, FtsFilter DEF Passes
  <2>4. \A id : FtsOfApps(req, id) => NameBound(id)
    BY DEF FtsOfApps, NameBound
  <2> QED
    BY <1>9, <2>1, <2>3, <2>4 DEF Asked
<1>11. ToSet(o) \cap AllDue("fts") \subseteq M
  BY <1>9 DEF AllDue, Due
<1>12. Top(o, w, n, AllDue("fts"))
  <2> HIDE DEF X, M
  <2> QED
    BY <1>1, <1>5, <1>6, <1>11, KeptTop
<1>13. Ranked("fts", w)'
  <2>1. AllDue("fts")' = AllDue("fts")
    BY <1>0, SameFilter DEF AllDue
  <2>2. ts' = ts /\ req' = req
    BY <1>0 DEF ukg
  <2>3. \A id \in ToSet(w) : Asked("fts", id)'
    BY <1>10, <2>2, AskedSame
  <2> QED
    BY <1>8, <1>12, <2>1, <2>2, <2>3 DEF Ranked, n
<1> HIDE DEF X, M
<1> QED
  BY <1>0, <1>7, <1>8, <1>13, WindowJoins

LEMMA ScanRanks ==
  ASSUME StoresInv, SearchInv, Ranking, Scan, UNCHANGED stores
  PROVE  Ranking'
<1>a. PICK leg : leg = Head(todo)
  OBVIOUS
<1> DEFINE X == {id \in Ids : VecsOf(leg)[id] # <<>>}
           n == FusionPool(req.limit)
<1>0. /\ step = "scan" /\ step' = "rows" /\ todo # <<>> /\ UNCHANGED ukg /\ wipe' = wipe
      /\ UNCHANGED <<req, todo, ranks, hits, began>>
  BY DEF Scan, stores, erase, SearchInv, Shapes, Working
<1>1. leg \notin DOMAIN ranks /\ n \in Nat /\ leg # "fts"
  BY <1>0, <1>a, Rest, Limits DEF SearchInv, Shapes, Ranking, Working
<1>2. PICK o \in SetToAllKPermutations(X) :
        /\ order' = [l \in DOMAIN order \cup {leg} |-> IF l = leg THEN o ELSE order[l]]
        /\ found' \in Nearest(o, n)
  BY <1>a DEF Scan
<1>3. PICK e \in Kept(o, allowed) : found' = FirstOf(e, n)
  BY <1>2 DEF Nearest
<1>4. PICK w : w = found'
  OBVIOUS
<1>5. X \subseteq Ids
  OBVIOUS
<1> HIDE DEF X, n
<1>6. ToSet(w) \subseteq allowed
  BY <1>1, <1>3, <1>4, <1>5, Window
<1>7. \A id \in ToSet(w) : Asked(leg, id)
  BY <1>0, <1>1, <1>6 DEF SearchInv, Found, Asked
<1>8. ToSet(o) \cap AllDue(leg) \subseteq allowed
  BY <1>0 DEF SearchInv, Complete, Due, AllDue
<1>9. Top(o, w, n, AllDue(leg))
  BY <1>1, <1>3, <1>4, <1>5, <1>8, KeptTop
<1>10. order'[leg] = o /\ \A l \in DOMAIN ranks : order'[l] = order[l]
  BY <1>1, <1>2 DEF SearchInv, Shapes
<1>11. Ranked(leg, w)'
  <2>1. AllDue(leg)' = AllDue(leg)
    BY <1>0, SameFilter DEF AllDue
  <2>2. ts' = ts /\ req' = req
    BY <1>0 DEF ukg
  <2>3. \A id \in ToSet(w) : Asked(leg, id)'
    BY <1>7, <2>2, AskedSame
  <2> QED
    BY <1>9, <1>10, <2>1, <2>2, <2>3 DEF Ranked, n
<1>12. Ranked(Head(todo), found)'
  BY <1>0, <1>4, <1>11, <1>a
<1>13. \A l \in DOMAIN ranks : Ranked(l, ranks[l])'
  <2> TAKE l \in DOMAIN ranks
  <2>1. Ranked(l, ranks[l])
    BY <1>0 DEF Ranking
  <2>2. \A v : Ranked(l, v) => Ranked(l, v)'
    BY <1>0, <1>10, RankedSame
  <2> QED
    BY <1>0, <2>1, <2>2
<1>14. NothingWiped'
  BY <1>0 DEF Ranking, NothingWiped, ukg
<1> QED
  BY <1>0, <1>1, <1>a, <1>12, <1>13, <1>14 DEF Ranking

LEMMA AbsorbRanks ==
  ASSUME SearchInv, Ranking, Absorb, UNCHANGED stores
  PROVE  Ranking'
<1>a. PICK leg : leg = Head(todo)
  OBVIOUS
<1>b. PICK w : w = found
  OBVIOUS
<1>0. /\ step = "rows" /\ todo # <<>> /\ UNCHANGED ukg /\ wipe' = wipe /\ step' = "leg"
      /\ hits' = hits \cup WithRows(ToSet(w))
      /\ ranks' = [l \in DOMAIN ranks \cup {leg} |-> IF l = leg THEN w ELSE ranks[l]]
      /\ UNCHANGED <<req, order, began>>
  BY <1>a, <1>b DEF Absorb, LegDone, stores, erase, SearchInv, Shapes, Working
<1>1. leg \notin DOMAIN ranks
  BY <1>0, <1>a, Rest DEF SearchInv
<1>2. Ranked(leg, w)'
  <2>1. Ranked(leg, w)
    BY <1>0, <1>a, <1>b DEF Ranking
  <2>2. \A v : Ranked(leg, v) => Ranked(leg, v)'
    BY <1>0, RankedSame
  <2> QED
    BY <2>1, <2>2
<1>3. \A id \in hits' : id \in hits \/ id \in ToSet(w)
  BY <1>0 DEF WithRows
<1> QED
  BY <1>0, <1>1, <1>2, <1>3, WindowJoins

LEMMA AnswerRanks ==
  ASSUME Ranking, Answer, UNCHANGED stores
  PROVE  Ranking'
<1>0. /\ step = "leg" /\ step' = "answered" /\ UNCHANGED ukg /\ wipe' = wipe
      /\ UNCHANGED <<req, order, ranks, hits, began>>
  BY DEF Answer, stores, erase
<1>1. PICK p \in SetToSeqs(hits) :
        /\ \A i, j \in DOMAIN p : i < j => ~Before(p[j], p[i])
        /\ results' = FirstOf(p, req.limit)
  BY DEF Answer
<1>2. \A i, j \in DOMAIN p : i < j => ~Better(p[j], p[i])
  BY <1>1 DEF Before, Better
<1>3. \A i, j \in DOMAIN p : i < j => ~Better(p[j], p[i])'
  BY <1>0, <1>2, BetterSame
<1>4. Sorted(p)'
  BY <1>0, <1>1, <1>3 DEF Sorted
<1>5. \A leg \in DOMAIN ranks : Ranked(leg, ranks[leg])'
  BY <1>0, RankedSame DEF Ranking
<1>6. NothingWiped'
  BY <1>0 DEF Ranking, NothingWiped, ukg
<1> QED
  BY <1>0, <1>4, <1>5, <1>6 DEF Ranking, Working

LEMMA SearchRanks ==
  ASSUME StoresInv, SearchInv, Ranking, SearchStep
  PROVE  Ranking'
<1>1. CASE SearchError
  <2>1. step # "none" /\ step' = "error" /\ wipe' = wipe
        /\ UNCHANGED <<ukg, req, began, order, ranks, hits>>
    BY <1>1 DEF SearchError, erase, Working
  <2> QED
    BY <2>1, RanksAlone DEF Working
<1>2. CASE SearchNext /\ UNCHANGED stores
  <2>0. UNCHANGED ukg /\ wipe' = wipe
    BY <1>2 DEF stores, erase
  <2>1. CASE NoEmbedding
    <3>1. step = "leg" /\ step' \in {"leg", "refused", "unavailable"}
          /\ UNCHANGED <<req, began, order, ranks, hits>>
      BY <2>1 DEF NoEmbedding, LegDone
    <3> QED
      BY <2>0, <3>1, RanksAlone DEF Working
  <2>2. CASE Embedded
    <3>1. step = "leg" /\ step' = "verdict" /\ Head(todo') # "fts"
          /\ UNCHANGED <<req, began, order, ranks, hits>>
      BY <2>2 DEF Embedded
    <3> QED
      BY <2>0, <3>1, RanksAlone
  <2>3. CASE Verdict
    <3>1. /\ step = "verdict" /\ UNCHANGED <<req, began, order, ranks, hits>>
          /\ step' \in {"leg", "unavailable"} \/ (step' = "filter" /\ todo' = todo)
      BY <2>3 DEF Verdict, LegDone
    <3> QED
      BY <2>0, <3>1, RanksAlone DEF Working, Ranking
  <2>4. CASE Filter
    <3>1. step = "filter" /\ step' = "scan" /\ todo' = todo
          /\ UNCHANGED <<req, began, order, ranks, hits>>
      BY <2>4 DEF Filter
    <3> QED
      BY <2>0, <3>1, RanksAlone DEF Working, Ranking
  <2> QED
    BY <1>2, <2>1, <2>2, <2>3, <2>4, BeginRanks, FtsRanks, ScanRanks, AbsorbRanks, AnswerRanks
       DEF SearchNext
<1> QED
  BY <1>1, <1>2 DEF SearchStep

LEMMA RankingKept == Inductive /\ Ranking /\ [Next]_vars => Ranking'
<1> SUFFICES ASSUME Inductive, Ranking, [Next]_vars PROVE Ranking'
  OBVIOUS
<1> USE DEF Inductive
<1>1. CASE WritersStep
  BY <1>1, RankingBeside DEF WritersStep
<1>2. CASE SearchStep
  BY <1>2, SearchRanks
<1>3. CASE ExportStep
  BY <1>3, RankingSame DEF ExportStep, stores, erase
<1>4. CASE LiveStep
  BY <1>4, RankingSame DEF LiveStep, erase
<1>5. CASE UNCHANGED vars
  BY <1>5, RankingSame DEF vars, stores, erase
<1> QED
  BY <1>1, <1>2, <1>3, <1>4, <1>5 DEF Next

-----------------------------------------------------------------------------
(* A finished search over what is still there *)

Finished ==
  /\ step = "answered" /\ wipe = "none"
  /\ \A leg \in DOMAIN ranks : ToSet(ranks[leg]) \subseteq began.rows

Pool == FusionPool(req.limit)

LEMMA DueIsAdmitted ==
  ASSUME Inductive, Ranking, Finished
  PROVE  \A leg, id : Due(leg, id) <=> Admitted(leg, id)
<1> TAKE leg, id
<1> USE DEF Inductive, SearchInv
<1>1. /\ rows \subseteq Captures /\ \A c \in rows : c <= seq
      /\ \A c \in Captures : HasRow(c) <=> c \in rows
  BY OwnIds DEF StoresInv, TablesInv, HasRow
<1>2. began.rows \subseteq rows
  BY DEF Ranking, NothingWiped, Finished
<1>3. id \in began.rows => HasRow(id) /\ Owner(id) = id
  BY <1>1, <1>2, OwnIds DEF StoresInv
<1> QED
  BY <1>2, <1>3 DEF Admitted, Eligible, Due

\* Whatever a leg offered, the request asked for.
LEMMA OfferedIsDue ==
  ASSUME Inductive, Ranking, Finished, NEW leg \in DOMAIN ranks, NEW id \in ToSet(ranks[leg])
  PROVE  Due(leg, id)
<1>1. id \in began.rows /\ id \in rows /\ id \in related
  BY DEF Ranking, NothingWiped, Finished
<1>2. Asked(leg, id)
  BY DEF Ranking, Finished, Ranked
<1>3. InRange(req, id) /\ OfApps(req, id)
  BY <1>1, <1>2 DEF Asked, Passes, OfApps
<1>4. leg = "fts" => FtsOfApps(req, id)
  BY <1>1, <1>2 DEF Asked, NameBound, FtsOfApps
<1> QED
  BY <1>1, <1>3, <1>4 DEF Due

\* What an id gets of a leg is what its place among the admitted is worth.
LEMMA Earned ==
  ASSUME Inductive, Ranking, Finished, NEW leg \in DOMAIN ranks, NEW id \in ToSet(order[leg]),
         Admitted(leg, id)
  PROVE  /\ Place(leg, id) \in Nat
         /\ leg \in Finders(id) <=> Place(leg, id) <= Pool
         /\ leg \in Finders(id) => /\ Place(leg, id) \in 1 .. NumCaptures
                                   /\ Share(leg, id) = Worth(Place(leg, id))
<1> DEFINE o == order[leg]
           w == ranks[leg]
           D == AllDue(leg)
<1>1. Ranked(leg, w)
  BY DEF Ranking, Finished
<1>2. Top(o, w, Pool, D)
  BY <1>1 DEF Ranked, Pool
<1>3. o \in Seq(Ids) /\ w \in Seq(Ids) /\ Len(w) <= Pool
  BY <1>2 DEF Top
<1>4. Pool \in Nat
  BY Limits DEF Inductive, SearchInv, Shapes, Pool
<1>5. /\ ToSet(w) \subseteq D
      /\ \A i \in DOMAIN o : o[i] \in D <=> Admitted(leg, o[i])
  <2>1. \A i \in DOMAIN o : o[i] \in Ids
    BY <1>3, Places
  <2>2. \A i \in DOMAIN o : o[i] \in D <=> Admitted(leg, o[i])
    BY <2>1, DueIsAdmitted DEF AllDue
  <2>3. \A x \in ToSet(w) : x \in Ids
    BY <1>3, Places DEF ToSet
  <2>4. ToSet(w) \subseteq D
    BY <2>3, OfferedIsDue DEF AllDue
  <2> QED
    BY <2>2, <2>4
<1>6. Place(leg, id) = Cardinality(UpTo(o, D, id))
  <2>1. UpTo(o, D, id) = {i \in DOMAIN o : /\ \E j \in DOMAIN o : o[j] = id /\ i <= j
                                           /\ Admitted(leg, o[i])}
    BY <1>5 DEF UpTo
  <2> QED
    BY <2>1 DEF Place
<1>7. id \in ToSet(o) \cap D
  BY <1>5 DEF ToSet
<1> HIDE DEF o, D
<1>8. /\ \A r \in DOMAIN w : Cardinality(UpTo(o, D, w[r])) = r
      /\ id \notin ToSet(w) => Cardinality(UpTo(o, D, id)) > Pool
      /\ Len(w) <= NumCaptures
  BY <1>2, <1>4, <1>5, <1>7, PlaceInWindow
<1>9. leg \in Finders(id) <=> id \in ToSet(w)
  BY DEF Finders
<1>10. Len(w) \in Nat /\ DOMAIN w = 1 .. Len(w)
  BY <1>3, Places
<1>11. ASSUME id \in ToSet(w)
       PROVE  /\ Place(leg, id) \in 1 .. NumCaptures /\ Place(leg, id) <= Pool
              /\ Share(leg, id) = Worth(Place(leg, id))
  <2> DEFINE r == Rank(leg, id)
  <2>1. \E i \in DOMAIN w : w[i] = id
    BY <1>11 DEF ToSet
  <2>2. r \in DOMAIN w /\ w[r] = id
    BY <2>1 DEF Rank
  <2> HIDE DEF r
  <2>3. Place(leg, id) = r
    BY <1>6, <1>8, <2>2
  <2>4. Share(leg, id) = Worth(r)
    BY <1>9, <1>11 DEF Share, Worth, r
  <2>5. r \in 1 .. NumCaptures /\ r <= Pool
    BY <1>3, <1>4, <1>8, <1>10, <2>2, StoresAssumption
  <2> QED
    BY <2>3, <2>4, <2>5
<1>12. Place(leg, id) \in Nat /\ (id \notin ToSet(w) => ~(Place(leg, id) <= Pool))
  <2>1. IsFiniteSet(UpTo(o, D, id))
    <3>1. IsFiniteSet(DOMAIN o)
      <4>1. DOMAIN o = 1 .. Len(o) /\ Len(o) \in Nat
        BY <1>3, Places
      <4> QED
        BY <4>1, Numbered
    <3>2. UpTo(o, D, id) \subseteq DOMAIN o
      BY DEF UpTo
    <3> QED
      BY <3>1, <3>2, FS_Subset
  <2>2. Cardinality(UpTo(o, D, id)) \in Nat
    BY <2>1, FS_CardinalityType
  <2> QED
    BY <1>4, <1>6, <1>8, <2>2
<1> QED
  BY <1>9, <1>11, <1>12

LEMMA FoundIsRanked ==
  ASSUME Inductive, Ranking, Finished
  PROVE  \A id : Finders(id) \subseteq RankedBy(id) /\ RankedBy(id) \subseteq Legs
<1> TAKE id
<1>1. ASSUME NEW leg \in Finders(id) PROVE leg \in RankedBy(id)
  <2>1. leg \in DOMAIN ranks /\ id \in ToSet(ranks[leg])
    BY DEF Finders
  <2>2. Admitted(leg, id)
    BY <2>1, OfferedIsDue, DueIsAdmitted
  <2>3. id \in ToSet(order[leg])
    BY <2>1 DEF Ranking, Finished, Ranked, Top
  <2> QED
    BY <2>1, <2>2, <2>3 DEF RankedBy
<1>2. RankedBy(id) \subseteq Legs
  BY DEF RankedBy, Inductive, SearchInv, Shapes
<1> QED
  BY <1>1, <1>2

\* A score is made of what a leg's place is worth, for the legs that offer it.
Pays(leg, id) == leg \in RankedBy(id) /\ Place(leg, id) <= Pool

LEMMA Shares ==
  ASSUME Inductive, Ranking, Finished, NEW leg, NEW id
  PROVE  /\ leg \in RankedBy(id) => Place(leg, id) \in Nat
         /\ leg \in Finders(id) <=> Pays(leg, id)
         /\ Pays(leg, id) => /\ Place(leg, id) \in 1 .. NumCaptures
                             /\ Share(leg, id) = Worth(Place(leg, id))
         /\ ~Pays(leg, id) => Share(leg, id) = 0
         /\ Share(leg, id) \in Nat
<1>1. CASE leg \in RankedBy(id)
  <2>1. leg \in DOMAIN ranks /\ id \in ToSet(order[leg]) /\ Admitted(leg, id)
    BY <1>1 DEF RankedBy
  <2>2. /\ Place(leg, id) \in Nat
        /\ leg \in Finders(id) <=> Place(leg, id) <= Pool
        /\ leg \in Finders(id) => /\ Place(leg, id) \in 1 .. NumCaptures
                                  /\ Share(leg, id) = Worth(Place(leg, id))
    BY <2>1, Earned
  <2>3. leg \in Finders(id) => Share(leg, id) \in Nat
    BY <2>2, Exact
  <2>4. leg \notin Finders(id) => Share(leg, id) = 0
    BY DEF Share
  <2> QED
    BY <1>1, <2>2, <2>3, <2>4 DEF Pays
<1>2. CASE leg \notin RankedBy(id)
  <2>1. leg \notin Finders(id)
    BY <1>2, FoundIsRanked
  <2> QED
    BY <1>2, <2>1 DEF Pays, Share
<1> QED
  BY <1>1, <1>2

\* How many legs a set has.
Has(S, leg) == IF leg \in S THEN 1 ELSE 0

LEMMA OneLegMore ==
  ASSUME NEW S, NEW A, IsFiniteSet(A), NEW leg, leg \notin A
  PROVE  Cardinality(S \cap (A \cup {leg})) = Cardinality(S \cap A) + Has(S, leg)
<1>1. IsFiniteSet(S \cap A)
  BY FS_Subset
<1>2. Cardinality(S \cap A) \in Nat
  BY <1>1, FS_CardinalityType
<1>3. CASE leg \in S
  <2>1. S \cap (A \cup {leg}) = (S \cap A) \cup {leg} /\ leg \notin S \cap A
    BY <1>3
  <2> QED
    BY <1>1, <1>3, <2>1, FS_AddElement DEF Has
<1>4. CASE leg \notin S
  <2>1. S \cap (A \cup {leg}) = S \cap A
    BY <1>4
  <2>2. Has(S, leg) = 0
    BY <1>4 DEF Has
  <2>3. Cardinality(S \cap A) + 0 = Cardinality(S \cap A)
    BY <1>2
  <2> QED
    BY <2>1, <2>2, <2>3, Zenon
<1> QED
  BY <1>3, <1>4

LEMMA CountLegs ==
  ASSUME NEW S, S \subseteq Legs
  PROVE  Cardinality(S) = Has(S, "fts") + Has(S, "text-semantic")
                          + Has(S, "image-semantic") + Has(S, "image-text")
<1> DEFINE A == {"fts"}
           B == A \cup {"text-semantic"}
           C == B \cup {"image-semantic"}
           D == C \cup {"image-text"}
<1>1. IsFiniteSet({}) /\ Cardinality(S \cap {}) = 0
  BY FS_EmptySet
<1>2. IsFiniteSet(A) /\ IsFiniteSet(B) /\ IsFiniteSet(C)
  BY FS_Singleton, FS_AddElement
<1>3. Cardinality(S \cap ({} \cup {"fts"})) = Cardinality(S \cap {}) + Has(S, "fts")
  BY <1>1, OneLegMore
<1>4. Cardinality(S \cap A) = Has(S, "fts")
  <2>1. {} \cup {"fts"} = A /\ Has(S, "fts") \in Nat
    BY DEF Has
  <2> QED
    BY <1>1, <1>3, <2>1
<1>5. Cardinality(S \cap B) = Cardinality(S \cap A) + Has(S, "text-semantic")
  BY <1>2, OneLegMore
<1>6. Cardinality(S \cap C) = Cardinality(S \cap B) + Has(S, "image-semantic")
  BY <1>2, OneLegMore
<1>7. Cardinality(S \cap D) = Cardinality(S \cap C) + Has(S, "image-text")
  BY <1>2, OneLegMore
<1>8. S \cap D = S
  BY DEF Legs
<1> HIDE DEF A, B, C, D
<1> QED
  BY <1>4, <1>5, <1>6, <1>7, <1>8

-----------------------------------------------------------------------------
(* Who outranks whom *)

\* h of four legs agree on x, more than the k that know y: each of the h gives
\* at least S/81, each of the k at most S/61, and 61 (k + 1) > 81 k for k <= 3.
LEMMA Agreement ==
  ASSUME NEW S \in Nat, S > 0,
         NEW x1 \in Nat, NEW x2 \in Nat, NEW x3 \in Nat, NEW x4 \in Nat,
         NEW y1 \in Nat, NEW y2 \in Nat, NEW y3 \in Nat, NEW y4 \in Nat,
         NEW h1 \in {0, 1}, NEW h2 \in {0, 1}, NEW h3 \in {0, 1}, NEW h4 \in {0, 1},
         NEW k1 \in {0, 1}, NEW k2 \in {0, 1}, NEW k3 \in {0, 1}, NEW k4 \in {0, 1},
         h1 = 1 => 81 * x1 >= S, h2 = 1 => 81 * x2 >= S,
         h3 = 1 => 81 * x3 >= S, h4 = 1 => 81 * x4 >= S,
         61 * y1 <= (IF k1 = 1 THEN S ELSE 0), 61 * y2 <= (IF k2 = 1 THEN S ELSE 0),
         61 * y3 <= (IF k3 = 1 THEN S ELSE 0), 61 * y4 <= (IF k4 = 1 THEN S ELSE 0),
         h1 + h2 + h3 + h4 > k1 + k2 + k3 + k4
  PROVE  x1 + x2 + x3 + x4 > y1 + y2 + y3 + y4
OBVIOUS

\* What all of the bounds of Outranks allow, the window does.
LEMMA WithinPool ==
  ASSUME req \in Requests \cup {NoRequest}, NEW n \in Nat,
         n <= Min({req.limit * PoolFactor, MaxPool, AgreementRank})
  PROVE  n <= Pool /\ n <= AgreementRank
<1> DEFINE l == req.limit
           m == req.limit * PoolFactor
<1>1. l \in Nat /\ MaxPool \in Nat /\ m \in Nat
  <2>1. PoolFactor \in Nat
    BY RequestsAssumption
  <2>2. l \in Nat
    BY Limits
  <2> QED
    BY <2>1, <2>2, RequestsAssumption
<1> HIDE DEF l, m
<1>2. \A a, b, c \in Nat : LET least == Min({a, b, c})
                           IN  least <= a /\ least <= b /\ least <= c /\ least \in Nat
  <2> SUFFICES ASSUME NEW a \in Nat, NEW b \in Nat, NEW c \in Nat
               PROVE  /\ Min({a, b, c}) <= a /\ Min({a, b, c}) <= b /\ Min({a, b, c}) <= c
                      /\ Min({a, b, c}) \in Nat
    BY Zenon
  <2>1. \E x \in {a, b, c} : \A y \in {a, b, c} : x <= y
    OBVIOUS
  <2>2. Min({a, b, c}) \in {a, b, c} /\ \A y \in {a, b, c} : Min({a, b, c}) <= y
    BY <2>1 DEF Min
  <2> QED
    BY <2>2
<1>3. n <= m /\ n <= MaxPool /\ n <= AgreementRank
  <2>1. AgreementRank \in Nat
    BY DEF AgreementRank
  <2>2. n <= Min({m, MaxPool, AgreementRank})
    BY DEF m
  <2> QED
    BY <1>1, <1>2, <2>1, <2>2
<1>4. Pool = Min({Max({m, l}), MaxPool})
  BY DEF Pool, FusionPool, l, m
<1>5. Max({m, l}) = IF m < l THEN l ELSE m
  BY <1>1, LeastOfTwo
<1>6. Max({m, l}) \in Nat /\ n <= Max({m, l})
  BY <1>1, <1>3, <1>5
<1>7. Pool = IF Max({m, l}) < MaxPool THEN Max({m, l}) ELSE MaxPool
  BY <1>1, <1>4, <1>6, LeastOfTwo
<1> QED
  BY <1>3, <1>6, <1>7

LEMMA ScoreType ==
  ASSUME Inductive, Ranking, Finished
  PROVE  \A id : Score(id) \in Nat
BY Shares DEF Score

\* Ahead for every leg that knows b.
LEMMA AheadEverywhere ==
  ASSUME Inductive, Ranking, Finished, NEW a, NEW b, Finders(b) # {},
         RankedBy(b) \subseteq RankedBy(a), \A leg \in RankedBy(b) : Place(leg, a) < Place(leg, b)
  PROVE  Finders(a) # {} /\ Score(a) > Score(b)
<1>1. ASSUME NEW leg, Pays(leg, b) PROVE Pays(leg, a) /\ Share(leg, a) > Share(leg, b)
  <2>1. leg \in RankedBy(b) /\ leg \in RankedBy(a) /\ Place(leg, b) <= Pool
        /\ Place(leg, a) < Place(leg, b)
    BY <1>1 DEF Pays
  <2>2. Place(leg, a) \in Nat /\ Place(leg, b) \in Nat /\ Pool \in Nat
    BY <2>1, Shares, Limits DEF Inductive, SearchInv, Shapes, Pool
  <2>3. Pays(leg, a)
    BY <2>1, <2>2 DEF Pays
  <2>4. /\ Place(leg, a) \in 1 .. NumCaptures /\ Share(leg, a) = Worth(Place(leg, a))
        /\ Place(leg, b) \in 1 .. NumCaptures /\ Share(leg, b) = Worth(Place(leg, b))
    BY <1>1, <2>3, Shares
  <2> QED
    BY <2>1, <2>3, <2>4, BetterWorth
<1>2. \A leg : /\ Share(leg, a) \in Nat /\ Share(leg, b) \in Nat
               /\ Share(leg, a) >= Share(leg, b)
               /\ leg \in Finders(b) => Share(leg, a) > Share(leg, b) /\ leg \in Finders(a)
  <2> TAKE leg
  <2>1. /\ Share(leg, a) \in Nat /\ Share(leg, b) \in Nat
        /\ ~Pays(leg, b) => Share(leg, b) = 0
        /\ leg \in Finders(b) <=> Pays(leg, b)
        /\ leg \in Finders(a) <=> Pays(leg, a)
    BY Shares
  <2> QED
    BY <1>1, <2>1
<1>3. PICK leg : leg \in Finders(b) /\ leg \in Legs
  BY FoundIsRanked
<1>4. Score(a) > Score(b)
  BY <1>2, <1>3 DEF Legs, Score
<1> QED
  BY <1>2, <1>3, <1>4

\* More legs agree on a, and offer it.
LEMMA AgreedOn ==
  ASSUME Inductive, Ranking, Finished, NEW a, NEW b,
         Cardinality(RankedBy(a)) > Cardinality(RankedBy(b)),
         \A leg \in RankedBy(a) :
           Place(leg, a) <= Min({req.limit * PoolFactor, MaxPool, AgreementRank})
  PROVE  Finders(a) # {} /\ Score(a) > Score(b)
<1> DEFINE A == RankedBy(a)
           B == RankedBy(b)
<1>1. A \subseteq Legs /\ B \subseteq Legs
  BY FoundIsRanked
<1>2. ASSUME NEW leg \in A
      PROVE  leg \in Finders(a) /\ 81 * Share(leg, a) >= Scale
  <2>1. Place(leg, a) \in Nat
    BY Shares
  <2>2. Place(leg, a) <= Pool /\ Place(leg, a) <= AgreementRank
    BY <2>1, WithinPool DEF Inductive, SearchInv, Shapes
  <2>3. Pays(leg, a)
    BY <2>2 DEF Pays
  <2>4. /\ leg \in Finders(a) /\ Place(leg, a) \in 1 .. NumCaptures
        /\ Share(leg, a) = Worth(Place(leg, a))
    BY <2>3, Shares
  <2> QED
    BY <2>2, <2>4, WorthBounds
<1>3. \A leg : 61 * Share(leg, b) <= IF leg \in B THEN Scale ELSE 0
  <2> TAKE leg
  <2>1. CASE Pays(leg, b)
    <3>1. /\ leg \in B /\ Place(leg, b) \in 1 .. NumCaptures
          /\ Share(leg, b) = Worth(Place(leg, b))
      BY <2>1, Shares DEF Pays
    <3> QED
      BY <3>1, WorthBounds
  <2>2. CASE ~Pays(leg, b)
    <3>1. Share(leg, b) = 0 /\ Scale \in Nat
      BY <2>2, Shares, ProductDefined, StoresAssumption DEF Scale
    <3> QED
      BY <3>1
  <2> QED
    BY <2>1, <2>2
<1> HIDE DEF A, B
<1>4. /\ Cardinality(A) = Has(A, "fts") + Has(A, "text-semantic")
                          + Has(A, "image-semantic") + Has(A, "image-text")
      /\ Cardinality(B) = Has(B, "fts") + Has(B, "text-semantic")
                          + Has(B, "image-semantic") + Has(B, "image-text")
      /\ Cardinality(A) > Cardinality(B)
  BY <1>1, CountLegs DEF A, B
<1>5. \A leg : /\ Has(A, leg) \in {0, 1} /\ Has(B, leg) \in {0, 1}
               /\ Has(A, leg) = 1 => leg \in A
               /\ Has(B, leg) = 1 <=> leg \in B
  BY DEF Has
<1>6. Scale \in Nat /\ Scale > 0
  BY ProductDefined, StoresAssumption DEF Scale
<1>7. \A leg : /\ Share(leg, a) \in Nat /\ Share(leg, b) \in Nat
               /\ Has(A, leg) = 1 => 81 * Share(leg, a) >= Scale
               /\ 61 * Share(leg, b) <= IF Has(B, leg) = 1 THEN Scale ELSE 0
  BY <1>2, <1>3, <1>5, Shares
<1>8. Score(a) > Score(b)
  BY <1>4, <1>5, <1>6, <1>7, Agreement DEF Score
<1>9. A # {}
  <2>1. A = {} => Cardinality(A) = 0
    BY FS_EmptySet
  <2>2. Cardinality(B) \in Nat
    BY <1>4, <1>5
  <2> QED
    BY <1>4, <2>1, <2>2
<1> QED
  BY <1>2, <1>8, <1>9

\* One leg knows each, at ranks no better for b, and a is the lexical match.
LEMMA ExactMatch ==
  ASSUME Inductive, Ranking, Finished, NEW a, NEW b, Finders(b) # {},
         Cardinality(RankedBy(b)) = 1, RankedBy(a) = {"fts"}, RankedBy(b) # {"fts"},
         \A m \in RankedBy(b) : Place("fts", a) <= Place(m, b)
  PROVE  Finders(a) # {} /\ Better(a, b)
<1>1. PICK m : RankedBy(b) = {m}
  <2>1. IsFiniteSet(Legs)
    <3> DEFINE A == {"fts"} \cup {"text-semantic"}
               B == A \cup {"image-semantic"}
    <3>1. \A S, x : IsFiniteSet(S) => IsFiniteSet(S \cup {x})
      BY FS_AddElement, Zenon
    <3>2. IsFiniteSet({"fts"})
      BY FS_Singleton, Zenon
    <3>3. IsFiniteSet(A)
      BY <3>1, <3>2, Zenon
    <3>4. Legs = B \cup {"image-text"}
      BY DEF Legs
    <3> HIDE DEF A
    <3>5. IsFiniteSet(B)
      BY <3>1, <3>3, Zenon
    <3> HIDE DEF B
    <3> QED
      BY <3>1, <3>4, <3>5, Zenon
  <2>2. IsFiniteSet(RankedBy(b))
    BY <2>1, FoundIsRanked, FS_Subset
  <2> QED
    BY <2>2, FS_Singleton
<1>2. m \in Finders(b) /\ m # "fts" /\ m \in Legs /\ Finders(b) \subseteq {m}
  BY <1>1, FoundIsRanked
<1>3. Pays(m, b) /\ Place("fts", a) <= Place(m, b)
  BY <1>1, <1>2, Shares
<1>4. Pays("fts", a)
  <2>1. Place("fts", a) \in Nat /\ Place(m, b) \in Nat /\ Pool \in Nat
    BY <1>1, Shares, Limits DEF Inductive, SearchInv, Shapes, Pool
  <2> QED
    BY <1>3, <2>1 DEF Pays
<1>5. /\ Place("fts", a) \in 1 .. NumCaptures /\ Share("fts", a) = Worth(Place("fts", a))
      /\ Place(m, b) \in 1 .. NumCaptures /\ Share(m, b) = Worth(Place(m, b))
      /\ "fts" \in Finders(a)
  BY <1>3, <1>4, Shares
<1>6. Share("fts", a) >= Share(m, b)
  <2>1. CASE Place("fts", a) < Place(m, b)
    <3>1. Worth(Place("fts", a)) > Worth(Place(m, b))
      BY <1>5, <2>1, BetterWorth
    <3> QED
      BY <1>5, <3>1, Shares
  <2>2. CASE Place("fts", a) = Place(m, b)
    BY <1>5, <2>2, Shares
  <2> QED
    BY <1>3, <1>5, <2>1, <2>2, StoresAssumption
<1>7. Score(a) >= Share("fts", a)
  <2>1. \A leg : Share(leg, a) \in Nat
    BY Shares
  <2> QED
    BY <2>1 DEF Score
<1>8. Score(b) = Share(m, b)
  <2>1. \A leg : leg # m => Share(leg, b) = 0
    BY <1>1, Shares DEF Pays
  <2>2. Share(m, b) \in Nat
    BY Shares
  <2> QED
    BY <1>2, <2>1, <2>2 DEF Legs, Score
<1>9. Lexical(a) /\ ~Lexical(b)
  BY <1>2, <1>5 DEF Lexical
<1>10. Score(a) \in Nat /\ Score(b) \in Nat /\ Share("fts", a) \in Nat
  BY ScoreType, Shares
<1> QED
  BY <1>5, <1>6, <1>7, <1>8, <1>9, <1>10 DEF Better

LEMMA OutrankedIsBetter ==
  ASSUME Inductive, Ranking, Finished, NEW a, NEW b, Finders(b) # {}, Outranks(a, b)
  PROVE  Finders(a) # {} /\ Better(a, b)
<1>1. CASE /\ RankedBy(b) \subseteq RankedBy(a)
           /\ \A leg \in RankedBy(b) : Place(leg, a) < Place(leg, b)
  BY <1>1, AheadEverywhere DEF Better
<1>2. CASE /\ Cardinality(RankedBy(a)) > Cardinality(RankedBy(b))
           /\ \A leg \in RankedBy(a) :
                Place(leg, a) <= Min({req.limit * PoolFactor, MaxPool, AgreementRank})
  BY <1>2, AgreedOn DEF Better
<1>3. CASE /\ Cardinality(RankedBy(b)) = 1
           /\ RankedBy(a) = {"fts"} /\ RankedBy(b) # {"fts"}
           /\ \A m \in RankedBy(b) : Place("fts", a) <= Place(m, b)
  BY <1>3, ExactMatch
<1> QED
  BY <1>1, <1>2, <1>3 DEF Outranks

\* Nobody is returned ahead of, or instead of, a capture that outranks it
\* (routes.rs:172-178 and 461-463): the sum of the reciprocal ranks, over
\* windows deeper than the answer, keeps the order of the legs' full rankings.
THEOREM BestComeFirst == Spec => []BestFirst
<1>1. ASSUME Inductive, Ranking PROVE BestFirst
  <2> SUFFICES ASSUME Finished, NEW i \in DOMAIN results, NEW id, Outranks(id, results[i])
               PROVE  \E j \in 1 .. i : results[j] = id
    BY DEF BestFirst, Finished
  <2>1. PICK p : Sorted(p)
    BY <1>1 DEF Ranking, Finished
  <2>2. IsFiniteSet(hits) /\ req.limit \in Nat
    BY <1>1, IdsFinite, Limits DEF Inductive, SearchInv, Shapes, Ids, Captures
  <2>3. /\ p \in Seq(hits) /\ DOMAIN p = 1 .. Len(p)
        /\ \A x \in hits : \E j \in DOMAIN p : p[j] = x
    BY <2>1, <2>2, Listed DEF Sorted
  <2>4. /\ Len(results) \in Nat /\ DOMAIN results = 1 .. Len(results)
        /\ \A j \in DOMAIN results : results[j] = p[j] /\ j \in DOMAIN p
    <3>1. results = FirstOf(p, req.limit)
      BY <2>1 DEF Sorted
    <3>2. p \in Seq(hits) /\ req.limit \in Nat
      BY <2>2, <2>3
    <3>3. /\ Len(results) \in Nat /\ DOMAIN results = 1 .. Len(results)
          /\ \A j \in DOMAIN results : results[j] = p[j] /\ j \in DOMAIN p
      BY <3>1, <3>2, FirstOfPart
    <3> QED
      BY <3>3, Zenon
  <2>5. Finders(results[i]) # {}
    <3>1. results[i] \in hits
      BY <2>3, <2>4, Places
    <3> QED
      BY <1>1, <3>1 DEF Ranking, Finders
  <2>6. Finders(id) # {} /\ Better(id, results[i])
    BY <1>1, <2>5, OutrankedIsBetter
  <2>7. id \in hits
    <3>1. PICK leg \in DOMAIN ranks : id \in ToSet(ranks[leg])
      BY <2>6 DEF Finders
    <3>2. id \in rows
      BY <1>1, <3>1 DEF Ranking, NothingWiped, Finished
    <3> QED
      BY <1>1, <3>1, <3>2 DEF Inductive, SearchInv, Complete, Finished
  <2>8. PICK j \in DOMAIN p : p[j] = id
    BY <2>3, <2>7
  <2>9. ~(i < j)
    BY <2>1, <2>4, <2>6, <2>8 DEF Sorted
  <2>10. j \in 1 .. i /\ j \in DOMAIN results
    BY <2>3, <2>4, <2>8, <2>9
  <2> QED
    BY <2>4, <2>8, <2>10
<1>2. Spec => []Ranking
  <2>1. ViewsInit => Ranking
    BY RankingInitial
  <2> QED
    BY <2>1, Invariant, RankingKept, PTL DEF Spec
<1>3. Inductive /\ Ranking => BestFirst
  BY <1>1
<1> QED
  BY <1>2, <1>3, Invariant, PTL
=============================================================================
