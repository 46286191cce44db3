--------------------------- MODULE SequenceFacts ---------------------------
(***************************************************************************)
(* Induction over the naturals as a fact about sets, which the provers can *)
(* use, and what it gives about flattened sequences: FlattenSeq is the end *)
(* of a running concatenation, so it grows by what is appended.            *)
(***************************************************************************)
EXTENDS Integers, Sequences, SequencesExt, SequenceTheorems, WellFoundedInduction, TLAPS

-----------------------------------------------------------------------------
(* Induction *)

\* A set of naturals that is not empty has a least element.
LEMMA Least ==
  ASSUME NEW T \in SUBSET Nat, T # {}
  PROVE  \E n \in T : \A m \in T : n <= m
<1> DEFINE R == OpToRel(<, Nat)
<1>1. IsWellFoundedOn(R, Nat)
  BY NatLessThanWellFounded
<1>2. \A x, y \in Nat : x < y => <<x, y>> \in R
  BY DEF OpToRel
<1> HIDE DEF R
<1>3. PICK n \in T : \A m \in T : ~ (<<m, n>> \in R)
  BY <1>1, WFMin
<1>4. \A m \in T : ~(m < n)
  BY <1>2, <1>3
<1> QED
  BY <1>4

\* A set that holds 0 and with a number the next holds every number.
LEMMA Induction ==
  ASSUME NEW T \in SUBSET Nat, 0 \in T, \A n \in T : n + 1 \in T
  PROVE  T = Nat
<1> SUFFICES ASSUME Nat \ T # {} PROVE FALSE
  OBVIOUS
<1>1. PICK n \in Nat \ T : \A m \in Nat \ T : n <= m
  BY Least
<1>2. n # 0 /\ n - 1 \in Nat /\ n - 1 \in T
  BY <1>1
<1> QED
  BY <1>1, <1>2

\* The same up to a bound.
LEMMA BoundedInduction ==
  ASSUME NEW n \in Nat, NEW T, 0 \in T, \A i \in 0 .. n - 1 : i \in T => i + 1 \in T
  PROVE  \A i \in 0 .. n : i \in T
<1> DEFINE U == {i \in Nat : i <= n => i \in T}
<1>1. U \in SUBSET Nat /\ 0 \in U
  OBVIOUS
<1>2. \A i \in U : i + 1 \in U
  OBVIOUS
<1>3. U = Nat
  BY <1>1, <1>2, Induction
<1> QED
  BY <1>3

\* A set of numbers below a bound has a greatest element.
LEMMA Greatest ==
  ASSUME NEW n \in Nat, NEW T \in SUBSET (0 .. n), T # {}
  PROVE  \E k \in T : \A m \in T : m <= k
<1> DEFINE U == {n - k : k \in T}
<1>1. U \in SUBSET Nat /\ U # {}
  <2>1. PICK k \in T : TRUE
    OBVIOUS
  <2>2. n - k \in U
    BY <2>1, Zenon
  <2>3. \A k1 \in T : n - k1 \in Nat
    OBVIOUS
  <2> QED
    BY <2>2, <2>3, Zenon
<1>2. PICK u \in U : \A m \in U : u <= m
  <2> HIDE DEF U
  <2> QED
    BY <1>1, Least
<1>3. n - u \in T /\ u \in Nat
  <2>1. PICK k \in T : u = n - k
    BY <1>2, Zenon
  <2>2. n - u = k
    BY <2>1
  <2> QED
    BY <1>1, <1>2, <2>2, Zenon
<1>4. ASSUME NEW m \in T PROVE m <= n - u
  <2>1. n - m \in U
    BY Zenon
  <2>2. u <= n - m
    BY <1>2, <2>1, Zenon
  <2> QED
    BY <1>3, <2>2
<1> QED
  BY <1>3, <1>4

\* What is computed step by step from a first value exists.
Steps(n, X) == [1 .. n -> [X -> X]]

Computes(F, n, X, first, step) ==
  /\ F \in [0 .. n -> X] /\ F[0] = first
  /\ \A i \in 1 .. n : F[i] = step[i][F[i - 1]]

LEMMA BoundedRecursion ==
  ASSUME NEW X, NEW first \in X, NEW n \in Nat, NEW step \in Steps(n, X)
  PROVE  \E F : Computes(F, n, X, first, step)
<1> DEFINE Upto(m, F) == /\ F \in [0 .. m -> X] /\ F[0] = first
                         /\ \A i \in 1 .. m : F[i] = step[i][F[i - 1]]
           T == {m \in Nat : \E F : Upto(m, F)}
<1>1. 0 \in T
  <2>1. Upto(0, [i \in 0 .. 0 |-> first])
    OBVIOUS
  <2> QED
    BY <2>1
<1>2. ASSUME NEW m \in 0 .. n - 1, NEW F, Upto(m, F) PROVE \E G : Upto(m + 1, G)
  <2> DEFINE last == step[m + 1][F[m]]
             G == [i \in 0 .. m + 1 |-> IF i = m + 1 THEN last ELSE F[i]]
  <2>1. last \in X
    <3>1. F[m] \in X /\ m + 1 \in 1 .. n
      BY <1>2
    <3> QED
      BY <3>1 DEF Steps
  <2>2. /\ G \in [0 .. m + 1 -> X] /\ G[m + 1] = last
        /\ \A i \in 0 .. m : G[i] = F[i]
    <3> HIDE DEF last
    <3> QED
      BY <1>2, <2>1
  <2> HIDE DEF G
  <2>3. ASSUME NEW i \in 1 .. m + 1 PROVE G[i] = step[i][G[i - 1]]
    <3>1. i - 1 \in 0 .. m /\ G[i - 1] = F[i - 1]
      BY <2>2
    <3> HIDE DEF Upto
    <3>2. CASE i = m + 1
      <4>1. i - 1 = m
        BY <3>2
      <4> QED
        BY <2>2, <3>1, <3>2, <4>1, Zenon
    <3>3. CASE i # m + 1
      <4>1. i \in 1 .. m /\ i \in 0 .. m
        BY <3>3
      <4>2. F[i] = step[i][F[i - 1]]
        BY <1>2, <4>1, Zenon DEF Upto
      <4> QED
        BY <2>2, <3>1, <4>1, <4>2, Zenon
    <3> QED
      BY <3>2, <3>3
  <2>4. G[0] = first
    BY <1>2, <2>2
  <2> QED
    BY <2>2, <2>3, <2>4
<1>3. \A m \in 0 .. n - 1 : m \in T => m + 1 \in T
  <2> HIDE DEF Upto
  <2> QED
    BY <1>2
<1>4. n \in T
  <2> HIDE DEF T
  <2>1. \A i \in 0 .. n : i \in T
    BY <1>1, <1>3, BoundedInduction
  <2> QED
    BY <2>1
<1> QED
  BY <1>4, Zenon DEF Computes

\* What is computed from a place further on exists, up to where there is none.
Leaps(f, n, last, item, next) ==
  /\ f = [i \in 0 .. n |-> f[i]]
  /\ f[n] = <<>>
  /\ \A i \in 0 .. n - 1 : f[i] = IF i \in last THEN item[i] ELSE item[i] \o f[next[i]]

LEMMA LeapRecursion ==
  ASSUME NEW n \in Nat, NEW last, NEW item, NEW next,
         \A i \in 0 .. n - 1 : i \in last \/ next[i] \in i + 1 .. n
  PROVE  \E f : Leaps(f, n, last, item, next)
<1> DEFINE Upto(m, f) ==
             /\ f = [i \in n - m .. n |-> f[i]] /\ f[n] = <<>>
             /\ \A i \in n - m .. n - 1 :
                  f[i] = IF i \in last THEN item[i] ELSE item[i] \o f[next[i]]
           T == {m \in Nat : \E f : Upto(m, f)}
<1>1. 0 \in T
  <2>1. Upto(0, [i \in n .. n |-> <<>>])
    OBVIOUS
  <2>2. \E f : Upto(0, f)
    <3> HIDE DEF Upto
    <3> QED
      BY <2>1
  <2> QED
    BY <2>2
<1>2. ASSUME NEW m \in 0 .. n - 1, NEW f, Upto(m, f) PROVE \E g : Upto(m + 1, g)
  <2> DEFINE k == n - (m + 1)
             value == IF k \in last THEN item[k] ELSE item[k] \o f[next[k]]
             g == [i \in k .. n |-> IF i = k THEN value ELSE f[i]]
  <2>1. k \in 0 .. n - 1 /\ k + 1 = n - m /\ n \in k + 1 .. n
    OBVIOUS
  <2>2. value = IF k \in last THEN item[k] ELSE item[k] \o f[next[k]]
    BY Zenon
  <2> HIDE DEF value, k
  <2>0. g = [i \in k .. n |-> g[i]]
    OBVIOUS
  <2>3. g[k] = value /\ \A i \in k + 1 .. n : g[i] = f[i]
    BY <2>1
  <2> HIDE DEF g
  <2>4. \A i \in k .. n - 1 : i \in 0 .. n - 1 /\ (i = k \/ i \in k + 1 .. n - 1)
                              /\ \A j \in i + 1 .. n : j \in k + 1 .. n
    BY <2>1
  <2>5. ASSUME NEW i \in k .. n - 1
        PROVE  g[i] = IF i \in last THEN item[i] ELSE item[i] \o g[next[i]]
    <3>1. i \in last \/ g[next[i]] = f[next[i]]
      BY <2>3, <2>4, Zenon
    <3>2. CASE i = k
      BY <2>2, <2>3, <3>1, <3>2, Zenon
    <3>3. CASE i \in k + 1 .. n - 1
      <4>1. g[i] = f[i]
        BY <2>1, <2>3, <3>3
      <4>2. f[i] = IF i \in last THEN item[i] ELSE item[i] \o f[next[i]]
        BY <1>2, <2>1, <3>3, Zenon
      <4> QED
        BY <3>1, <4>1, <4>2, Zenon
    <3> QED
      BY <2>4, <3>2, <3>3, Zenon
  <2>6. g[n] = <<>>
    <3>1. g[n] = f[n]
      BY <2>1, <2>3, Zenon
    <3> QED
      BY <1>2, <3>1, Zenon
  <2> QED
    BY <2>0, <2>5, <2>6, Zenon DEF k
<1>3. \A m \in 0 .. n - 1 : m \in T => m + 1 \in T
  <2> HIDE DEF Upto
  <2> QED
    BY <1>2
<1>4. n \in T
  <2> HIDE DEF T
  <2>1. \A m \in 0 .. n : m \in T
    BY <1>1, <1>3, BoundedInduction
  <2> QED
    BY <2>1
<1>5. PICK f : Upto(n, f)
  BY <1>4, Zenon
<1>6. n - n = 0
  OBVIOUS
<1> QED
  BY <1>5, <1>6, Zenon DEF Leaps

-----------------------------------------------------------------------------
(* Flattened sequences *)

\* F[i] is what the first i parts are, one after the other.
Running(parts, F) ==
  /\ DOMAIN F = 0 .. Len(parts)
  /\ F[0] = <<>>
  /\ \A i \in 1 .. Len(parts) : F[i] = F[i - 1] \o parts[i]

\* R[i] is what the parts behind the first i are.
Remaining(parts, R) ==
  /\ DOMAIN R = 0 .. Len(parts)
  /\ R[Len(parts)] = <<>>
  /\ \A i \in 1 .. Len(parts) : R[i - 1] = parts[i] \o R[i]

LEMMA RunningExists ==
  ASSUME NEW S, NEW parts \in Seq(Seq(S))
  PROVE  \E F \in [0 .. Len(parts) -> Seq(S)] : Running(parts, F)
<1> DEFINE n == Len(parts)
           step == [i \in 1 .. n |-> [x \in Seq(S) |-> x \o parts[i]]]
<1>1. n \in Nat /\ \A i \in 1 .. n : parts[i] \in Seq(S)
  BY LenProperties, ElementOfSeq
<1>2. \A i \in 1 .. n, x \in Seq(S) : x \o parts[i] \in Seq(S)
  BY <1>1, ConcatProperties
<1>3. step \in [1 .. n -> [Seq(S) -> Seq(S)]]
  BY <1>2
<1>4. \A i \in 1 .. n, x \in Seq(S) : step[i][x] = x \o parts[i]
  OBVIOUS
<1> HIDE DEF step
<1>5. PICK F \in [0 .. n -> Seq(S)] :
         F[0] = <<>> /\ \A i \in 1 .. n : F[i] = step[i][F[i - 1]]
  <2> DEFINE X == Seq(S)
  <2>1. <<>> \in X /\ n \in Nat /\ step \in Steps(n, X)
    BY <1>1, <1>3, EmptySeq DEF Steps
  <2> HIDE DEF n, X
  <2>2. \E F : Computes(F, n, X, <<>>, step)
    BY <2>1, BoundedRecursion
  <2> QED
    BY <2>2, Zenon DEF X, Computes
<1>6. ASSUME NEW i \in 1 .. n PROVE F[i] = F[i - 1] \o parts[i]
  <2>1. F[i - 1] \in Seq(S)
    <3>1. i - 1 \in 0 .. n
      BY <1>1
    <3> QED
      BY <3>1, Zenon
  <2> QED
    BY <1>4, <1>5, <2>1, Zenon
<1> QED
  BY <1>5, <1>6 DEF Running

LEMMA RemainingExists ==
  ASSUME NEW S, NEW parts \in Seq(Seq(S))
  PROVE  \E R \in [0 .. Len(parts) -> Seq(S)] : Remaining(parts, R)
<1> DEFINE n == Len(parts)
           step == [i \in 1 .. n |-> [x \in Seq(S) |-> parts[n + 1 - i] \o x]]
<1>1. n \in Nat /\ \A i \in 1 .. n : parts[i] \in Seq(S)
  BY LenProperties, ElementOfSeq
<1>2. \A i \in 1 .. n, x \in Seq(S) : parts[n + 1 - i] \o x \in Seq(S)
  <2>1. \A i \in 1 .. n : n + 1 - i \in 1 .. n
    BY <1>1
  <2>2. \A i \in 1 .. n : parts[n + 1 - i] \in Seq(S)
    BY <1>1, <2>1, Zenon
  <2> QED
    BY <2>2, ConcatProperties
<1>3. step \in [1 .. n -> [Seq(S) -> Seq(S)]]
  BY <1>2
<1>4. \A i \in 1 .. n, x \in Seq(S) : step[i][x] = parts[n + 1 - i] \o x
  OBVIOUS
<1> HIDE DEF step
<1>5. PICK F \in [0 .. n -> Seq(S)] :
         F[0] = <<>> /\ \A i \in 1 .. n : F[i] = step[i][F[i - 1]]
  <2> DEFINE X == Seq(S)
  <2>1. <<>> \in X /\ n \in Nat /\ step \in Steps(n, X)
    BY <1>1, <1>3, EmptySeq DEF Steps
  <2> HIDE DEF n, X
  <2>2. \E F : Computes(F, n, X, <<>>, step)
    BY <2>1, BoundedRecursion
  <2> QED
    BY <2>2, Zenon DEF X, Computes
<1> DEFINE R == [i \in 0 .. n |-> F[n - i]]
<1>6. /\ R \in [0 .. n -> Seq(S)] /\ R[n] = <<>>
      /\ \A i \in 0 .. n : R[i] = F[n - i]
  <2>1. \A i \in 0 .. n : n - i \in 0 .. n
    BY <1>1
  <2>2. n \in 0 .. n /\ n - n = 0
    BY <1>1
  <2> HIDE DEF n
  <2> QED
    BY <1>5, <2>1, <2>2
<1>7. DOMAIN R = 0 .. n
  OBVIOUS
<1> HIDE DEF R
<1>8. ASSUME NEW i \in 1 .. n PROVE R[i - 1] = parts[i] \o R[i]
  <2> DEFINE j == n + 1 - i
  <2>1. /\ i \in 0 .. n /\ i - 1 \in 0 .. n /\ j \in 1 .. n /\ j - 1 \in 0 .. n
        /\ n - (i - 1) = j /\ n - i = j - 1 /\ n + 1 - j = i
    BY <1>1
  <2> HIDE DEF j
  <2>2. R[i - 1] = F[j] /\ R[i] = F[j - 1] /\ R[i] \in Seq(S)
    BY <1>6, <2>1
  <2>3. F[j] = step[j][F[j - 1]]
    BY <1>5, <2>1, Zenon
  <2>4. step[j][R[i]] = parts[i] \o R[i]
    BY <1>4, <2>1, <2>2, Zenon
  <2> QED
    BY <2>2, <2>3, <2>4, Zenon
<1> QED
  BY <1>6, <1>7, <1>8 DEF Remaining

\* What FlattenSeq computes is the last of any running concatenation.
LEMMA FlattenRuns ==
  ASSUME NEW S, NEW parts \in Seq(Seq(S)), NEW F \in [0 .. Len(parts) -> Seq(S)],
         Running(parts, F)
  PROVE  FlattenSeq(parts) = F[Len(parts)]
<1> DEFINE n == Len(parts)
           Law(f) == f = [i \in 1 .. n |-> IF i = 1 THEN parts[i] ELSE f[i - 1] \o parts[i]]
           g == CHOOSE f : Law(f)
           h == [i \in 1 .. n |-> F[i]]
<1>0. n \in Nat /\ \A i \in 1 .. n : parts[i] \in Seq(S)
  BY LenProperties, ElementOfSeq
<1>1. CASE n = 0
  BY <1>1, EmptySeq DEF FlattenSeq, Running
<1>2. CASE n # 0
  <2>1. FlattenSeq(parts) = g[n]
    BY <1>2 DEF FlattenSeq
  <2>2. F[1] = parts[1]
    <3>1. 1 \in 1 .. n /\ 1 - 1 = 0
      BY <1>0, <1>2
    <3>2. F[1] = F[1 - 1] \o parts[1] /\ F[0] = <<>>
      BY <3>1, Zenon DEF Running
    <3>3. parts[1] \in Seq(S) /\ F[1] = <<>> \o parts[1]
      BY <1>0, <3>1, <3>2
    <3> QED
      BY <3>3, ConcatEmptySeq, Zenon
  <2>3. Law(h)
    <3>1. \A i \in 1 .. n : F[i] = IF i = 1 THEN parts[i] ELSE F[i - 1] \o parts[i]
      BY <1>0, <2>2 DEF Running
    <3>2. \A i \in 1 .. n : i # 1 => i - 1 \in 1 .. n
      BY <1>0
    <3> QED
      BY <3>1, <3>2
  <2>4. Law(g)
    <3> HIDE DEF h, Law
    <3> QED
      BY <2>3
  <2> HIDE DEF g
  <2> DEFINE T == {i \in Nat : i + 1 <= n => g[i + 1] = F[i + 1]}
  <2>5. 0 \in T
    <3>1. 1 \in 1 .. n
      BY <1>0, <1>2
    <3> QED
      BY <2>2, <2>4, <3>1
  <2>6. \A i \in 0 .. n - 1 : i \in T => i + 1 \in T
    <3> SUFFICES ASSUME NEW i \in 0 .. n - 1, i + 1 <= n => g[i + 1] = F[i + 1], i + 2 <= n
                 PROVE  g[i + 2] = F[i + 2]
      BY <1>0
    <3>1. i + 2 \in 1 .. n /\ i + 2 # 1 /\ (i + 2) - 1 = i + 1
      BY <1>0
    <3>2. g[i + 2] = g[i + 1] \o parts[i + 2]
      BY <2>4, <3>1
    <3>3. F[i + 2] = F[(i + 2) - 1] \o parts[i + 2]
      BY <3>1, Zenon DEF Running
    <3>4. g[i + 1] = F[i + 1]
      BY <1>0
    <3> QED
      BY <3>1, <3>2, <3>3, <3>4, Zenon
  <2>7. \A i \in 0 .. n : i \in T
    <3> HIDE DEF T, n
    <3> QED
      BY <1>0, <2>5, <2>6, BoundedInduction
  <2>8. n - 1 \in T
    <3> HIDE DEF T, n
    <3> QED
      BY <1>0, <1>2, <2>7
  <2>9. (n - 1) + 1 = n
    BY <1>0
  <2> QED
    BY <1>0, <1>2, <2>1, <2>8, <2>9
<1> QED
  BY <1>1, <1>2

LEMMA FlattenType ==
  ASSUME NEW S, NEW parts \in Seq(Seq(S))
  PROVE  FlattenSeq(parts) \in Seq(S)
<1>1. PICK F \in [0 .. Len(parts) -> Seq(S)] : Running(parts, F)
  BY RunningExists
<1>2. Len(parts) \in 0 .. Len(parts)
  BY LenProperties
<1> QED
  BY <1>1, <1>2, FlattenRuns

LEMMA FlattenEmpty == FlattenSeq(<<>>) = <<>>
  BY DEF FlattenSeq

\* One more part adds what it holds.
LEMMA FlattenAppend ==
  ASSUME NEW S, NEW parts \in Seq(Seq(S)), NEW x \in Seq(S)
  PROVE  FlattenSeq(Append(parts, x)) = FlattenSeq(parts) \o x
<1> DEFINE n == Len(parts)
           more == Append(parts, x)
<1>0. /\ n \in Nat /\ more \in Seq(Seq(S)) /\ Len(more) = n + 1
      /\ more[n + 1] = x /\ \A i \in 1 .. n : more[i] = parts[i]
  BY LenProperties, AppendProperties
<1> HIDE DEF more
<1>1. PICK F \in [0 .. n + 1 -> Seq(S)] : Running(more, F)
  BY <1>0, RunningExists
<1>2. FlattenSeq(more) = F[n + 1]
  BY <1>0, <1>1, FlattenRuns
<1> DEFINE G == [i \in 0 .. n |-> F[i]]
<1>3. G \in [0 .. n -> Seq(S)] /\ DOMAIN G = 0 .. n /\ \A i \in 0 .. n : G[i] = F[i]
  BY <1>0
<1> HIDE DEF G
<1>4. F[0] = <<>> /\ \A i \in 1 .. n + 1 : F[i] = F[i - 1] \o more[i]
  BY <1>0, <1>1, Zenon DEF Running
<1>5. G[0] = <<>>
  BY <1>0, <1>3, <1>4
<1>6. ASSUME NEW i \in 1 .. n PROVE G[i] = G[i - 1] \o parts[i]
  <2>1. i \in 1 .. n + 1 /\ i \in 0 .. n /\ i - 1 \in 0 .. n
    BY <1>0
  <2>2. F[i] = F[i - 1] \o more[i] /\ more[i] = parts[i]
    BY <1>0, <1>4, <2>1, Zenon
  <2>3. G[i] = F[i] /\ G[i - 1] = F[i - 1]
    BY <1>3, <2>1, Zenon
  <2> QED
    BY <2>2, <2>3, Zenon
<1>7. FlattenSeq(parts) = G[n]
  BY <1>3, <1>5, <1>6, FlattenRuns DEF Running
<1>8. F[n + 1] = F[n] \o x
  <2>1. n + 1 \in 1 .. n + 1 /\ (n + 1) - 1 = n
    BY <1>0
  <2>2. F[n + 1] = F[(n + 1) - 1] \o more[n + 1]
    BY <1>4, <2>1, Zenon
  <2> QED
    BY <1>0, <2>1, <2>2
<1>9. G[n] = F[n]
  BY <1>0, <1>3
<1> QED
  BY <1>2, <1>7, <1>8, <1>9 DEF more

\* As predicates, which the provers find their way about with more easily.
Regroups(a, b, c) == (a \o b) \o c = a \o (b \o c)

LEMMA Regroup ==
  ASSUME NEW S, NEW a \in Seq(S), NEW b \in Seq(S), NEW c \in Seq(S)
  PROVE  Regroups(a, b, c)
<1>1. (a \o b) \o c = a \o (b \o c)
  BY ConcatAssociative
<1> QED
  BY <1>1, Zenon DEF Regroups

\* At any part, what came before it and what is left make the whole.
LEMMA Split ==
  ASSUME NEW S, NEW parts \in Seq(Seq(S)),
         NEW F \in [0 .. Len(parts) -> Seq(S)], Running(parts, F),
         NEW R \in [0 .. Len(parts) -> Seq(S)], Remaining(parts, R)
  PROVE  \A i \in 0 .. Len(parts) : F[i] \o R[i] = FlattenSeq(parts)
<1> DEFINE n == Len(parts)
           T == {i \in 0 .. n : F[i] \o R[i] = R[0]}
<1>0. n \in Nat /\ \A i \in 1 .. n : parts[i] \in Seq(S)
  BY LenProperties, ElementOfSeq
<1>1. 0 \in T
  <2>1. 0 \in 0 .. n /\ R[0] \in Seq(S) /\ F[0] = <<>>
    BY <1>0 DEF Running
  <2>2. <<>> \o R[0] = R[0]
    BY <2>1, ConcatEmptySeq
  <2> QED
    BY <2>1, <2>2
<1>2. ASSUME NEW i \in 0 .. n - 1, i \in T PROVE i + 1 \in T
  <2> DEFINE e == i + 1
  <2>1. e \in 1 .. n /\ e \in 0 .. n /\ e - 1 = i /\ i \in 0 .. n
    BY <1>0
  <2> HIDE DEF e
  <2>2. F[i] \in Seq(S) /\ R[e] \in Seq(S) /\ parts[e] \in Seq(S)
    BY <1>0, <2>1
  <2>3. F[e] = F[i] \o parts[e]
    BY <2>1, Zenon DEF Running
  <2>4. R[i] = parts[e] \o R[e]
    BY <2>1, Zenon DEF Remaining
  <2>5. Regroups(F[i], parts[e], R[e])
    BY <2>2, Regroup
  <2>6. F[i] \o R[i] = R[0]
    BY <1>2
  <2> HIDE DEF n
  <2>7. F[e] \o R[e] = R[0]
    BY <2>3, <2>4, <2>5, <2>6, Zenon DEF Regroups
  <2> QED
    BY <2>1, <2>7 DEF e
<1>3. \A i \in 0 .. n : i \in T
  <2> HIDE DEF T, n
  <2> QED
    BY <1>0, <1>1, <1>2, BoundedInduction
<1>4. R[0] = FlattenSeq(parts)
  <2>1. n \in 0 .. n /\ F[n] \in Seq(S)
    BY <1>0
  <2>2. F[n] \o R[n] = R[0] /\ R[n] = <<>>
    BY <1>3, <2>1 DEF Remaining
  <2>3. F[n] \o <<>> = F[n]
    BY <2>1, ConcatEmptySeq
  <2>4. FlattenSeq(parts) = F[n]
    BY FlattenRuns
  <2> QED
    BY <2>2, <2>3, <2>4
<1> QED
  BY <1>3, <1>4

\* What FlattenSeq computes is also the first of any remaining concatenation.
LEMMA FlattenRemains ==
  ASSUME NEW S, NEW parts \in Seq(Seq(S)), NEW R \in [0 .. Len(parts) -> Seq(S)],
         Remaining(parts, R)
  PROVE  FlattenSeq(parts) = R[0]
<1>1. PICK F \in [0 .. Len(parts) -> Seq(S)] : Running(parts, F)
  BY RunningExists
<1>2. Len(parts) \in Nat /\ 0 \in 0 .. Len(parts)
  BY LenProperties
<1>3. F[0] \o R[0] = FlattenSeq(parts)
  BY <1>1, <1>2, Split
<1>4. F[0] = <<>> /\ R[0] \in Seq(S)
  BY <1>1, <1>2 DEF Running
<1>5. <<>> \o R[0] = R[0]
  BY <1>4, ConcatEmptySeq
<1> QED
  BY <1>3, <1>4, <1>5

\* The parts from the k-th on begin with the k-th.
LEMMA FlattenDrop ==
  ASSUME NEW S, NEW parts \in Seq(Seq(S)), NEW k \in 1 .. Len(parts)
  PROVE  FlattenSeq(SubSeq(parts, k, Len(parts)))
           = parts[k] \o FlattenSeq(SubSeq(parts, k + 1, Len(parts)))
<1> DEFINE n == Len(parts)
           After(i) == SubSeq(parts, i, n)
<1>0. n \in Nat /\ \A i \in 1 .. n : parts[i] \in Seq(S)
  BY LenProperties, ElementOfSeq
<1>1. PICK R \in [0 .. n -> Seq(S)] : Remaining(parts, R)
  BY RemainingExists
<1>2. ASSUME NEW m \in 1 .. n + 1 PROVE FlattenSeq(After(m)) = R[m - 1]
  <2> DEFINE z == After(m)
             Q == [i \in 0 .. n + 1 - m |-> R[m - 1 + i]]
  <2>1. /\ z \in Seq(Seq(S)) /\ Len(z) = n + 1 - m
        /\ \A i \in 1 .. n + 1 - m : z[i] = parts[m + i - 1]
    <3> HIDE DEF n
    <3>1. \A i \in m .. n : parts[i] \in Seq(S)
      BY <1>0
    <3>2. m \in Int /\ n \in Int /\ n - m + 1 = n + 1 - m /\ (m <= n \/ n + 1 - m = 0)
      BY <1>0
    <3>3. /\ z \in Seq(Seq(S)) /\ Len(z) = IF m <= n THEN n - m + 1 ELSE 0
          /\ \A i \in 1 .. n - m + 1 : z[i] = parts[m + i - 1]
      BY <3>1, <3>2, SubSeqProperties
    <3> HIDE DEF z
    <3> QED
      BY <1>0, <3>2, <3>3
  <2> HIDE DEF z
  <2>2. \A i \in 0 .. n + 1 - m : m - 1 + i \in 0 .. n /\ m - 1 + 0 = m - 1
    BY <1>0
  <2>3. /\ Q \in [0 .. Len(z) -> Seq(S)] /\ DOMAIN Q = 0 .. Len(z)
        /\ \A i \in 0 .. n + 1 - m : Q[i] = R[m - 1 + i]
    <3> HIDE DEF n
    <3> QED
      BY <2>1, <2>2
  <2> HIDE DEF Q
  <2>4. Q[0] = R[m - 1] /\ Q[Len(z)] = <<>>
    <3>1. n + 1 - m \in 0 .. n + 1 - m /\ m - 1 + (n + 1 - m) = n /\ 0 \in 0 .. n + 1 - m
      BY <1>0
    <3>2. R[n] = <<>>
      BY <1>1 DEF Remaining
    <3> QED
      BY <2>1, <2>2, <2>3, <3>1, <3>2
  <2>5. ASSUME NEW i \in 1 .. Len(z) PROVE Q[i - 1] = z[i] \o Q[i]
    <3> DEFINE j == m - 1 + i
    <3>1. /\ i \in 1 .. n + 1 - m /\ i \in 0 .. n + 1 - m /\ i - 1 \in 0 .. n + 1 - m
          /\ j \in 1 .. n /\ m - 1 + (i - 1) = j - 1 /\ m + i - 1 = j
      BY <1>0, <2>1
    <3>2. R[j - 1] = parts[j] \o R[j]
      BY <1>1, <3>1, Zenon DEF Remaining
    <3>3. Q[i - 1] = R[j - 1] /\ Q[i] = R[j] /\ z[i] = parts[j]
      BY <2>1, <2>3, <3>1, Zenon
    <3> QED
      BY <3>2, <3>3, Zenon
  <2>6. Remaining(z, Q)
    BY <2>3, <2>4, <2>5, Zenon DEF Remaining
  <2>7. FlattenSeq(z) = Q[0]
    BY <2>1, <2>3, <2>6, FlattenRemains
  <2> QED
    BY <2>4, <2>7 DEF z
<1>3. k \in 1 .. n + 1 /\ k + 1 \in 1 .. n + 1 /\ (k + 1) - 1 = k
  BY <1>0
<1>4. R[k - 1] = parts[k] \o R[k]
  BY <1>1, <1>3, Zenon DEF Remaining
<1>5. FlattenSeq(After(k)) = R[k - 1] /\ FlattenSeq(After(k + 1)) = R[k]
  <2> HIDE DEF After, n
  <2>1. FlattenSeq(After(k + 1)) = R[(k + 1) - 1]
    BY <1>2, <1>3, Zenon
  <2> QED
    BY <1>2, <1>3, <2>1, Zenon
<1> QED
  BY <1>4, <1>5, Zenon

\* The parts up to the k-th end with the k-th.
LEMMA FlattenTake ==
  ASSUME NEW S, NEW parts \in Seq(Seq(S)), NEW k \in 1 .. Len(parts)
  PROVE  FlattenSeq(SubSeq(parts, 1, k)) = FlattenSeq(SubSeq(parts, 1, k - 1)) \o parts[k]
<1> DEFINE before == SubSeq(parts, 1, k - 1)
<1>1. k \in Nat /\ \A i \in 1 .. Len(parts) : parts[i] \in Seq(S)
  BY LenProperties, ElementOfSeq
<1>2. before \in Seq(Seq(S))
  <2>1. 1 \in Int /\ k - 1 \in Int /\ \A i \in 1 .. k - 1 : parts[i] \in Seq(S)
    BY <1>1
  <2> QED
    BY <2>1, SubSeqProperties
<1>3. SubSeq(parts, 1, k) = before \o <<parts[k]>>
  <2>1. 1 \in 1 .. Len(parts) /\ k \in 1 .. Len(parts)
    BY <1>1
  <2> QED
    BY <2>1, SubSeqRecursiveSecond
<1> HIDE DEF before
<1>4. Append(before, parts[k]) = before \o <<parts[k]>>
  BY <1>1, <1>2, AppendIsConcat
<1>5. FlattenSeq(Append(before, parts[k])) = FlattenSeq(before) \o parts[k]
  BY <1>1, <1>2, FlattenAppend
<1> QED
  BY <1>3, <1>4, <1>5, Zenon DEF before

\* The elements behind the first k, up to the m-th.
LEMMA Middle ==
  ASSUME NEW S, NEW b \in Seq(S), NEW m \in 0 .. Len(b), NEW k \in 0 .. m
  PROVE  /\ SubSeq(b, k + 1, m) \in Seq(S)
         /\ Len(SubSeq(b, k + 1, m)) = m - k
         /\ \A i \in 1 .. m - k : SubSeq(b, k + 1, m)[i] = b[k + i]
<1> DEFINE z == SubSeq(b, k + 1, m)
<1>0. Len(b) \in Nat /\ \A i \in 1 .. Len(b) : b[i] \in S
  BY LenProperties, ElementOfSeq
<1>1. k \in Int /\ m \in Int /\ k + 1 \in Int /\ \A i \in k + 1 .. m : b[i] \in S
  BY <1>0
<1>2. /\ z \in Seq(S)
      /\ Len(z) = IF k + 1 <= m THEN m - (k + 1) + 1 ELSE 0
      /\ \A i \in 1 .. m - (k + 1) + 1 : z[i] = b[(k + 1) + i - 1]
  BY <1>1, SubSeqProperties
<1> HIDE DEF z
<1>3. m - (k + 1) + 1 = m - k /\ (k + 1 <= m \/ m - k = 0)
  BY <1>1
<1>4. Len(z) = m - k
  BY <1>2, <1>3, Zenon
<1>5. ASSUME NEW i \in 1 .. m - k PROVE z[i] = b[k + i]
  <2>1. (k + 1) + i - 1 = k + i
    BY <1>1
  <2> QED
    BY <1>2, <1>3, <2>1, Zenon
<1> QED
  BY <1>2, <1>4, <1>5, Zenon DEF z

\* w is cut in two.
Cut(w, b, y) == w = b \o y

LEMMA CutElements ==
  ASSUME NEW S, NEW b \in Seq(S), NEW y \in Seq(S), NEW w, Cut(w, b, y)
  PROVE  /\ w \in Seq(S)
         /\ Len(w) = Len(b) + Len(y)
         /\ \A i \in 1 .. Len(b) : w[i] = b[i]
         /\ \A i \in 1 .. Len(y) : w[Len(b) + i] = y[i]
<1> DEFINE v == b \o y
<1>1. Len(b) \in Nat /\ Len(y) \in Nat
  BY LenProperties
<1>2. /\ v \in Seq(S) /\ Len(v) = Len(b) + Len(y)
      /\ \A i \in 1 .. Len(b) + Len(y) : v[i] = IF i <= Len(b) THEN b[i] ELSE y[i - Len(b)]
  BY ConcatProperties
<1>3. w = v
  BY Zenon DEF Cut
<1> HIDE DEF v
<1>4. ASSUME NEW i \in 1 .. Len(b) PROVE v[i] = b[i]
  <2>1. i \in 1 .. Len(b) + Len(y) /\ i <= Len(b)
    BY <1>1
  <2> QED
    BY <1>2, <2>1, Zenon
<1>5. ASSUME NEW i \in 1 .. Len(y) PROVE v[Len(b) + i] = y[i]
  <2>1. Len(b) + i \in 1 .. Len(b) + Len(y) /\ ~(Len(b) + i <= Len(b)) /\ (Len(b) + i) - Len(b) = i
    BY <1>1
  <2> QED
    BY <1>2, <2>1, Zenon
<1> QED
  BY <1>2, <1>3, <1>4, <1>5, Zenon

-----------------------------------------------------------------------------
(* Pieces of a sequence *)

\* y lies in b behind the first k elements.
Piece(b, k, y) == k + Len(y) <= Len(b) /\ \A i \in 1 .. Len(y) : b[k + i] = y[i]

LEMMA PieceIsSubSeq ==
  ASSUME NEW S, NEW b \in Seq(S), NEW y \in Seq(S), NEW k \in Nat, Piece(b, k, y)
  PROVE  SubSeq(b, k + 1, k + Len(y)) = y
<1>0. Len(y) \in Nat /\ Len(b) \in Nat /\ \A i \in 1 .. Len(b) : b[i] \in S
  BY LenProperties, ElementOfSeq
<1> DEFINE z == SubSeq(b, k + 1, k + Len(y))
<1>1. \A i \in k + 1 .. k + Len(y) : b[i] \in S
  BY <1>0 DEF Piece
<1>2. /\ z \in Seq(S) /\ Len(z) = Len(y)
      /\ \A i \in 1 .. Len(y) : z[i] = b[(k + 1) + i - 1]
  <2>1. /\ z \in Seq(S)
        /\ Len(z) = IF k + 1 <= k + Len(y) THEN (k + Len(y)) - (k + 1) + 1 ELSE 0
        /\ \A i \in 1 .. (k + Len(y)) - (k + 1) + 1 : z[i] = b[(k + 1) + i - 1]
    BY <1>0, <1>1, SubSeqProperties
  <2>2. (k + Len(y)) - (k + 1) + 1 = Len(y)
    BY <1>0
  <2> HIDE DEF z
  <2> QED
    BY <1>0, <2>1, <2>2
<1> HIDE DEF z
<1>3. ASSUME NEW i \in 1 .. Len(y) PROVE z[i] = y[i]
  <2>1. (k + 1) + i - 1 = k + i
    BY <1>0
  <2> QED
    BY <1>2, <2>1 DEF Piece
<1>4. z = y
  BY <1>2, <1>3, SeqEqual
<1> QED
  BY <1>4 DEF z

\* A piece of the beginning is a piece of the whole, and so is the end.
LEMMA PieceKept ==
  ASSUME NEW S, NEW a \in Seq(S), NEW c \in Seq(S), NEW w, Cut(w, a, c)
  PROVE  /\ w \in Seq(S) /\ Len(w) = Len(a) + Len(c)
         /\ \A k \in Nat, y \in Seq(S) : Piece(a, k, y) => Piece(w, k, y)
         /\ Piece(w, Len(a), c)
<1>0. Len(a) \in Nat /\ Len(c) \in Nat /\ \A y \in Seq(S) : Len(y) \in Nat
  BY LenProperties
<1>1. /\ w \in Seq(S) /\ Len(w) = Len(a) + Len(c)
      /\ \A i \in 1 .. Len(a) : w[i] = a[i]
      /\ \A i \in 1 .. Len(c) : w[Len(a) + i] = c[i]
  BY CutElements
<1>2. ASSUME NEW k \in Nat, NEW y \in Seq(S), Piece(a, k, y) PROVE Piece(w, k, y)
  <2>1. /\ Len(y) \in Nat /\ k + Len(y) <= Len(a) /\ k + Len(y) <= Len(w)
        /\ \A i \in 1 .. Len(y) : a[k + i] = y[i]
    BY <1>0, <1>1, <1>2 DEF Piece
  <2>2. ASSUME NEW i \in 1 .. Len(y) PROVE w[k + i] = y[i]
    <3>1. k + i \in 1 .. Len(a)
      BY <1>0, <2>1
    <3> QED
      BY <1>1, <2>1, <3>1, Zenon
  <2> QED
    BY <2>1, <2>2, Zenon DEF Piece
<1>3. Piece(w, Len(a), c)
  BY <1>0, <1>1 DEF Piece
<1> QED
  BY <1>1, <1>2, <1>3, Zenon

\* The whole is the piece at 0.
LEMMA PieceWhole ==
  ASSUME NEW S, NEW a \in Seq(S)
  PROVE  Piece(a, 0, a)
<1>1. Len(a) \in Nat
  BY LenProperties
<1> QED
  BY <1>1 DEF Piece

\* One sequence, cut in two ways: what is a piece of one beginning is a piece of
\* the other as far as that reaches, and the longer beginning holds the shorter
\* one and the rest of it.
LEMMA CutTwice ==
  ASSUME NEW S, NEW b \in Seq(S), NEW y \in Seq(S), NEW e \in Seq(S), NEW r \in Seq(S),
         NEW w, Cut(w, b, y), Cut(w, e, r)
  PROVE  /\ \A k \in Nat, x \in Seq(S) :
               Piece(e, k, x) /\ k + Len(x) <= Len(b) => Piece(b, k, x)
         /\ Len(e) <= Len(b) =>
              /\ SubSeq(b, Len(e) + 1, Len(b)) \in Seq(S)
              /\ Cut(r, SubSeq(b, Len(e) + 1, Len(b)), y)
<1>0. Len(b) \in Nat /\ Len(y) \in Nat /\ Len(e) \in Nat /\ Len(r) \in Nat
  BY LenProperties
<1>1. /\ Len(w) = Len(b) + Len(y)
      /\ \A i \in 1 .. Len(b) : w[i] = b[i]
      /\ \A i \in 1 .. Len(y) : w[Len(b) + i] = y[i]
  BY CutElements
<1>2. /\ Len(w) = Len(e) + Len(r)
      /\ \A i \in 1 .. Len(e) : w[i] = e[i]
      /\ \A i \in 1 .. Len(r) : w[Len(e) + i] = r[i]
  BY CutElements
<1>3. ASSUME NEW i \in 1 .. Len(b), i <= Len(e) PROVE b[i] = e[i]
  <2>1. i \in 1 .. Len(e)
    BY <1>0, <1>3
  <2> QED
    BY <1>1, <1>2, <2>1, Zenon
<1>5. ASSUME NEW k \in Nat, NEW x \in Seq(S), Piece(e, k, x), k + Len(x) <= Len(b)
      PROVE  Piece(b, k, x)
  <2>1. ASSUME NEW i \in 1 .. Len(x) PROVE b[k + i] = x[i]
    <3>1. k + i \in 1 .. Len(b) /\ k + i <= Len(e)
      <4>1. Len(x) \in Nat /\ k + Len(x) <= Len(e)
        BY <1>5, LenProperties, Zenon DEF Piece
      <4> QED
        BY <1>0, <1>5, <4>1
    <3>2. e[k + i] = x[i]
      BY <1>5, Zenon DEF Piece
    <3> QED
      BY <1>3, <3>1, <3>2, Zenon
  <2> QED
    BY <1>5, <2>1, Zenon DEF Piece
<1>4. ASSUME Len(e) <= Len(b)
      PROVE  /\ SubSeq(b, Len(e) + 1, Len(b)) \in Seq(S)
             /\ Cut(r, SubSeq(b, Len(e) + 1, Len(b)), y)
  <2> DEFINE z == SubSeq(b, Len(e) + 1, Len(b))
             v == z \o y
  <2> HIDE DEF z, v
  <2>1. /\ z \in Seq(S) /\ Len(z) = Len(b) - Len(e)
        /\ \A i \in 1 .. Len(b) - Len(e) : z[i] = b[Len(e) + i]
    <3>1. Len(b) \in 0 .. Len(b) /\ Len(e) \in 0 .. Len(b)
      BY <1>0, <1>4
    <3> QED
      BY <3>1, Middle DEF z
  <2>2. Cut(v, z, y)
    BY Zenon DEF v, Cut
  <2>3. /\ v \in Seq(S) /\ Len(v) = Len(z) + Len(y)
        /\ \A i \in 1 .. Len(z) : v[i] = z[i]
        /\ \A i \in 1 .. Len(y) : v[Len(z) + i] = y[i]
    <3>1. z \in Seq(S)
      BY <2>1
    <3> HIDE <1>4
    <3> QED
      BY <2>2, <3>1, CutElements
  <2>4. Len(v) = Len(r)
    BY <1>0, <1>1, <1>2, <2>1, <2>3
  <2>5. ASSUME NEW i \in 1 .. Len(v) PROVE v[i] = r[i]
    <3>1. w[Len(e) + i] = r[i]
      BY <1>2, <2>4, <2>5, Zenon
    <3>2. CASE i <= Len(z)
      <4>1. i \in 1 .. Len(b) - Len(e) /\ i \in 1 .. Len(z) /\ Len(e) + i \in 1 .. Len(b)
        BY <1>0, <1>4, <2>1, <3>2
      <4> QED
        BY <1>1, <2>1, <2>3, <3>1, <4>1, Zenon
    <3>3. CASE ~(i <= Len(z))
      <4>1. /\ i - Len(z) \in 1 .. Len(y) /\ Len(z) + (i - Len(z)) = i
            /\ Len(b) + (i - Len(z)) = Len(e) + i
        BY <1>0, <1>4, <2>1, <2>3, <3>3
      <4>2. v[Len(z) + (i - Len(z))] = y[i - Len(z)] /\ w[Len(b) + (i - Len(z))] = y[i - Len(z)]
        BY <1>1, <2>3, <4>1, Zenon
      <4> QED
        BY <3>1, <4>1, <4>2, Zenon
    <3> QED
      BY <3>2, <3>3
  <2>6. v = r
    BY <2>3, <2>4, <2>5, SeqEqual
  <2> QED
    BY <2>1, <2>2, <2>6, Zenon DEF z
<1> QED
  BY <1>4, <1>5, Zenon

=============================================================================
