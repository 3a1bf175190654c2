--------------------------- MODULE BookStage_proofs --------------------------
(***************************************************************************)
(* What one event does to the order table and the five-level book, for     *)
(* every capacity, number of levels and range of orders. The facts are     *)
(* about operators and tables, not about a specification, so that every    *)
(* bench that drives apply_to_book can cite them.                          *)
(*                                                                         *)
(* The shares at a price are a sum over slots, which the library defines   *)
(* by removing one chosen element after the other. First it is shown that  *)
(* the order does not matter (by induction over the subsets of a finite    *)
(* set, from the least cardinality of a counterexample); then that insert, *)
(* reduce, add and execute change the sum at one price of one side and no  *)
(* other; and last that apply_to_book keeps both structures well formed    *)
(* (WellFormed) and, unless it fails, the book backed by the orders        *)
(* (Backed).                                                               *)
(***************************************************************************)
EXTENDS BookStage, FiniteSetTheorems, TLAPS

\* A set of naturals that is not empty has a least element, which Min returns.
LEMMA MinOfNats ==
  ASSUME NEW S, S \subseteq Nat, S # {}
  PROVE  Min(S) \in S /\ \A y \in S : Min(S) <= y
  <1> DEFINE R == {ss \in Nat \X Nat : ss[1] < ss[2]}
  <1>1. IsWellFoundedOn(R, Nat)
    BY NatLessThanWellFounded DEF OpToRel
  <1>2. PICK x \in S : \A y \in S : ~(<<y, x>> \in R)
    <2> HIDE DEF R
    <2> QED
      BY <1>1, WFMin
  <1>3. \A y \in S : x <= y
    <2> SUFFICES ASSUME NEW y \in S, ~(x <= y) PROVE FALSE
      OBVIOUS
    <2>1. x \in Nat /\ y \in Nat
      OBVIOUS
    <2>2. y < x
      BY <2>1
    <2>3. PICK z : z = <<y, x>>
      OBVIOUS
    <2>4. z \in Nat \X Nat /\ z[1] = y /\ z[2] = x
      BY <2>1, <2>3
    <2>5. z \in R
      BY <2>2, <2>4
    <2>6. QED
      BY <1>2, <2>3, <2>5
  <1>4. QED
    BY <1>3 DEF Min

\* A finite set of naturals that is not empty has a greatest element, which
\* Max returns.
LEMMA MaxOfNats ==
  ASSUME NEW n \in Nat, NEW S, S \subseteq 0 .. n, S # {}
  PROVE  Max(S) \in S /\ \A y \in S : y <= Max(S)
  <1> DEFINE D == {n - y : y \in S}
  <1>1. D \subseteq Nat /\ D # {}
    <2>1. \A y \in 0 .. n : n - y \in Nat
      OBVIOUS
    <2>2. D \subseteq Nat
      BY <2>1
    <2>3. PICK y : y \in S
      OBVIOUS
    <2>4. n - y \in D
      BY <2>3
    <2>5. QED
      BY <2>2, <2>4
  <1>2. Min(D) \in D /\ \A d \in D : Min(D) <= d
    BY <1>1, MinOfNats
  <1>3. PICK x \in S : n - x = Min(D)
    BY <1>2
  <1>4. ASSUME NEW y \in S PROVE x >= y
    <2>1. n - x <= n - y
      BY <1>2, <1>3
    <2>2. x \in 0 .. n /\ y \in 0 .. n
      OBVIOUS
    <2>3. QED
      BY <2>1, <2>2
  <1>5. Max(S) \in S /\ \A y \in S : Max(S) >= y
    BY <1>4 DEF Max
  <1>6. ASSUME NEW y \in S PROVE y <= Max(S)
    <2>1. Max(S) \in 0 .. n /\ y \in 0 .. n /\ Max(S) >= y
      BY <1>5
    <2>2. QED
      BY <2>1
  <1>7. QED
    BY <1>5, <1>6

\* What holds of the empty set, and of a set with one element more when it
\* holds of the set, holds of every subset of a finite set.
LEMMA SubsetInduction ==
  ASSUME NEW D, IsFiniteSet(D), NEW G, {} \in G,
         \A s \in SUBSET D : \A x \in D \ s : s \in G => s \cup {x} \in G
  PROVE  \A s \in SUBSET D : s \in G
  <1> SUFFICES ASSUME NEW z \in SUBSET D, z \notin G PROVE FALSE
    OBVIOUS
  <1> DEFINE N == {Cardinality(s) : s \in {s \in SUBSET D : s \notin G}}
  <1>1. \A s \in SUBSET D : IsFiniteSet(s) /\ Cardinality(s) \in Nat
    BY FS_Subset, FS_CardinalityType
  <1>2. N # {} /\ N \subseteq Nat
    BY <1>1
  <1>3. Min(N) \in N /\ \A n \in N : Min(N) <= n
    BY <1>2, MinOfNats
  <1>4. PICK s \in SUBSET D : s \notin G /\ Cardinality(s) = Min(N)
    BY <1>3
  <1>5. PICK x : x \in s
    BY <1>4
  <1>6. Cardinality(s \ {x}) = Cardinality(s) - 1
    BY <1>1, <1>5, FS_RemoveElement
  <1>7. s \ {x} \in SUBSET D /\ x \in D \ (s \ {x}) /\ s = (s \ {x}) \cup {x}
    BY <1>5
  <1>8. s \ {x} \notin G
    BY <1>4, <1>7
  <1>9. Cardinality(s \ {x}) \in N
    BY <1>7, <1>8
  <1>10. PICK c \in Nat : c = Cardinality(s)
    BY <1>1
  <1>11. c <= c - 1
    BY <1>3, <1>4, <1>6, <1>9, <1>10
  <1>12. QED
    BY <1>11

(***************************************************************************)
(* Sums over a finite set.  The sum is that of the library, which removes  *)
(* one element at a time, chosen from what is left; here it is shown not   *)
(* to depend on the order.                                                 *)
(***************************************************************************)
\* sum gives every subset of D the sum of its weights.
Sums(sum, w, D) ==
  /\ sum \in [SUBSET D -> Nat]
  /\ sum[{}] = 0
  /\ \A s \in SUBSET D : \A x \in s : sum[s] = w[x] + sum[s \ {x}]

\* h is the recursive function of the library's fold.
FoldOf(h, w, D) ==
  h = [s \in SUBSET D |->
         IF s = {} THEN 0
           ELSE w[CHOOSE x \in s : TRUE] + h[s \ {CHOOSE x \in s : TRUE}]]

\* Weights on a finite set have a sum that can be taken in any order.
LEMMA SumsExist ==
  ASSUME NEW D, IsFiniteSet(D), NEW w \in [D -> Nat]
  PROVE  \E sum : Sums(sum, w, D)
  <1> DEFINE G == {E \in SUBSET D : \E sum : Sums(sum, w, E)}
  <1>1. {} \in G
    <2> DEFINE z == [s \in SUBSET {} |-> 0]
    <2>1. Sums(z, w, {})
      BY DEF Sums
    <2>2. QED
      BY <2>1
  <1>2. ASSUME NEW E \in SUBSET D, NEW y \in D \ E, E \in G PROVE E \cup {y} \in G
    <2>1. PICK old : Sums(old, w, E)
      BY <1>2
    <2> DEFINE new == [s \in SUBSET (E \cup {y}) |->
                         IF y \in s THEN w[y] + old[s \ {y}] ELSE old[s]]
    <2>2. \A s \in SUBSET (E \cup {y}) :
            s \ {y} \in SUBSET E /\ (y \notin s => s \in SUBSET E)
      OBVIOUS
    <2>3. w[y] \in Nat /\ \A x \in E : w[x] \in Nat
      OBVIOUS
    <2>4. \A s \in SUBSET E : old[s] \in Nat
      BY <2>1 DEF Sums
    <2>5. new \in [SUBSET (E \cup {y}) -> Nat]
      BY <2>2, <2>3, <2>4
    <2>6. new[{}] = 0
      BY <2>1 DEF Sums
    <2>7. ASSUME NEW s \in SUBSET (E \cup {y}), NEW x \in s
          PROVE  new[s] = w[x] + new[s \ {x}]
      <3>1. s \ {x} \in SUBSET (E \cup {y})
        OBVIOUS
      <3>2. CASE x = y
        <4>1. y \in s /\ y \notin s \ {x} /\ s \ {x} = s \ {y}
          BY <3>2, <2>7
        <4>2. new[s] = w[y] + old[s \ {y}] /\ new[s \ {x}] = old[s \ {x}]
          BY <3>1, <4>1
        <4>3. QED
          BY <3>2, <4>1, <4>2
      <3>3. CASE x # y /\ y \in s
        <4> DEFINE r == s \ {y}
        <4>1. x \in r /\ r \in SUBSET E /\ (s \ {x}) \ {y} = r \ {x} /\ y \in s \ {x}
          BY <3>3
        <4>2. old[r] = w[x] + old[r \ {x}]
          BY <2>1, <4>1 DEF Sums
        <4>3. new[s] = w[y] + old[r] /\ new[s \ {x}] = w[y] + old[r \ {x}]
          BY <3>1, <3>3, <4>1
        <4>4. old[r] \in Nat /\ old[r \ {x}] \in Nat /\ w[x] \in Nat
          BY <2>3, <2>4, <4>1
        <4> HIDE DEF r, new
        <4>5. QED
          BY <2>3, <4>2, <4>3, <4>4
      <3>4. CASE y \notin s
        <4>1. s \in SUBSET E /\ y \notin s \ {x}
          BY <3>4
        <4>2. old[s] = w[x] + old[s \ {x}]
          BY <2>1, <4>1 DEF Sums
        <4>3. new[s] = old[s] /\ new[s \ {x}] = old[s \ {x}]
          BY <3>1, <3>4, <4>1
        <4>4. QED
          BY <4>2, <4>3
      <3>5. QED
        BY <3>2, <3>3, <3>4
    <2>8. Sums(new, w, E \cup {y})
      <3> HIDE DEF new
      <3> QED
        BY <2>5, <2>6, <2>7 DEF Sums
    <2>9. QED
      BY <2>8
  <1>3. \A s \in SUBSET D : s \in G
    <2> HIDE DEF G
    <2> QED
      BY <1>1, <1>2, SubsetInduction
  <1>4. QED
    BY <1>3

\* The fold over a set is its sum, whatever element is chosen first.
LEMMA FoldIsSum ==
  ASSUME NEW D, IsFiniteSet(D), NEW w \in [D -> Nat], NEW sum, Sums(sum, w, D),
         NEW S \in SUBSET D, NEW h, FoldOf(h, w, S)
  PROVE  h[S] = sum[S]
  <1>1. IsFiniteSet(S)
    BY FS_Subset
  <1>2. \A s \in SUBSET S : s # {} =>
          LET x == CHOOSE x \in s : TRUE IN
          x \in s /\ h[s] = w[x] + h[s \ {x}] /\ sum[s] = w[x] + sum[s \ {x}]
    <2> SUFFICES ASSUME NEW s \in SUBSET S, s # {}, NEW x, x = CHOOSE y \in s : TRUE
                 PROVE  x \in s /\ h[s] = w[x] + h[s \ {x}] /\ sum[s] = w[x] + sum[s \ {x}]
      BY Zenon
    <2>1. x \in s
      OBVIOUS
    <2>2. sum[s] = w[x] + sum[s \ {x}]
      BY <2>1 DEF Sums
    <2>3. h[s] = w[x] + h[s \ {x}]
      BY DEF FoldOf
    <2>4. QED
      BY <2>1, <2>2, <2>3
  <1>3. h[{}] = 0 /\ sum[{}] = 0
    BY DEF FoldOf, Sums
  <1> SUFFICES \A n \in Nat : \A s \in SUBSET S : Cardinality(s) = n => h[s] = sum[s]
    BY <1>1, FS_CardinalityType
  <1> DEFINE B == {n \in Nat : \E s \in SUBSET S : Cardinality(s) = n /\ h[s] # sum[s]}
  <1>4. B = {}
    <2> SUFFICES ASSUME B # {} PROVE FALSE
      OBVIOUS
    <2>1. Min(B) \in B /\ \A n \in B : Min(B) <= n
      BY MinOfNats
    <2>2. PICK s \in SUBSET S : Cardinality(s) = Min(B) /\ h[s] # sum[s]
      BY <2>1
    <2>3. s # {}
      BY <1>3, <2>2
    <2>4. PICK x : x \in s /\ h[s] = w[x] + h[s \ {x}] /\ sum[s] = w[x] + sum[s \ {x}]
      BY <1>2, <2>3
    <2>5. h[s \ {x}] # sum[s \ {x}]
      BY <2>2, <2>4
    <2>6. /\ Cardinality(s \ {x}) = Cardinality(s) - 1 /\ Cardinality(s) \in Nat
          /\ Cardinality(s \ {x}) \in Nat
      BY <1>1, <2>4, FS_Subset, FS_RemoveElement, FS_CardinalityType
    <2>7. Cardinality(s \ {x}) \in B
      BY <2>5, <2>6
    <2>8. PICK c \in Nat : c = Cardinality(s)
      BY <2>6
    <2>9. c <= c - 1
      BY <2>1, <2>2, <2>6, <2>7, <2>8
    <2>10. QED
      BY <2>9
  <1>5. QED
    BY <1>4

\* Sums of the same weights are the same.
LEMMA SumsUnique ==
  ASSUME NEW D, IsFiniteSet(D), NEW v, NEW w, NEW a, NEW b, Sums(a, v, D), Sums(b, w, D),
         NEW S \in SUBSET D, \A x \in S : v[x] = w[x]
  PROVE  a[S] = b[S]
  <1> DEFINE G == {s \in SUBSET S : a[s] = b[s]}
  <1>1. IsFiniteSet(S)
    BY FS_Subset
  <1>2. {} \in G
    BY DEF Sums
  <1>3. ASSUME NEW s \in SUBSET S, NEW x \in S \ s, s \in G PROVE s \cup {x} \in G
    <2>1. s \cup {x} \in SUBSET D /\ x \in s \cup {x} /\ (s \cup {x}) \ {x} = s
      OBVIOUS
    <2>2. a[s \cup {x}] = v[x] + a[s] /\ b[s \cup {x}] = w[x] + b[s]
      BY <2>1 DEF Sums
    <2>3. QED
      BY <1>3, <2>2
  <1>4. S \in G
    <2> HIDE DEF G
    <2> QED
      BY <1>1, <1>2, <1>3, SubsetInduction
  <1>5. QED
    BY <1>4

\* A sum of weights of at most m is at most m times their number.
LEMMA SumsBound ==
  ASSUME NEW D, IsFiniteSet(D), NEW m \in Nat, NEW w \in [D -> 0 .. m],
         NEW sum, Sums(sum, w, D), NEW S \in SUBSET D
  PROVE  sum[S] <= Cardinality(D) * m
  <1> DEFINE G == {s \in SUBSET D : sum[s] <= Cardinality(s) * m}
  <1>1. {} \in G
    BY FS_EmptySet DEF Sums
  <1>2. ASSUME NEW s \in SUBSET D, NEW x \in D \ s, s \in G PROVE s \cup {x} \in G
    <2>1. s \cup {x} \in SUBSET D /\ x \in s \cup {x} /\ (s \cup {x}) \ {x} = s
      OBVIOUS
    <2>2. sum[s \cup {x}] = w[x] + sum[s]
      BY <2>1 DEF Sums
    <2>3. PICK c \in Nat : c = Cardinality(s) /\ Cardinality(s \cup {x}) = c + 1
      BY FS_Subset, FS_AddElement, FS_CardinalityType
    <2>4. PICK v \in 0 .. m : v = w[x]
      OBVIOUS
    <2>5. PICK u \in Nat : u = sum[s]
      BY DEF Sums
    <2>6. u <= c * m
      BY <1>2, <2>3, <2>5
    <2>7. v + u <= (c + 1) * m
      BY <2>6
    <2>8. QED
      BY <2>1, <2>2, <2>3, <2>4, <2>5, <2>7
  <1>3. S \in G
    <2> HIDE DEF G
    <2> QED
      BY <1>1, <1>2, SubsetInduction
  <1>4. PICK c \in Nat, d \in Nat : c = Cardinality(S) /\ d = Cardinality(D) /\ c <= d
    BY FS_Subset, FS_CardinalityType
  <1>5. c * m <= d * m
    BY <1>4
  <1>6. PICK u \in Nat : u = sum[S]
    BY DEF Sums
  <1>7. QED
    BY <1>3, <1>4, <1>5, <1>6

(***************************************************************************)
(* Sums along a sequence, which the library folds from its last element.   *)
(***************************************************************************)
\* p gives the sum of the first k weights for every k up to n.
PrefixSums(p, w, n) ==
  /\ p \in [0 .. n -> Nat]
  /\ p[0] = 0
  /\ \A k \in 1 .. n : p[k] = p[k - 1] + w[k]

\* h is the recursive function of the library's fold over a sequence.
LeftFoldOf(h, w, m) ==
  /\ h \in [SUBSET (1 .. m) -> Nat]
  /\ h[{}] = 0
  /\ \A s \in SUBSET (1 .. m) : s # {} => h[s] = h[s \ {Max(s)}] + w[Max(s)]

\* h is a function with that recursion, of which no type is known.
UnfoldsTo(h, w, m) ==
  /\ h[{}] = 0
  /\ \A k \in 1 .. m : h[1 .. (k - 1)] \in Nat => h[1 .. k] = h[1 .. (k - 1)] + w[k]

\* The last index of a prefix is its largest.
LEMMA MaxOfPrefix ==
  ASSUME NEW k \in Nat \ {0}
  PROVE  Max(1 .. k) = k /\ (1 .. k) \ {Max(1 .. k)} = 1 .. (k - 1) /\ 1 .. k # {}
  <1>1. PICK K : K = 1 .. k
    OBVIOUS
  <1>2. K \subseteq 0 .. k /\ K # {} /\ k \in K
    BY <1>1
  <1>3. PICK x \in K : x = Max(K) /\ \A y \in K : y <= x
    BY <1>2, MaxOfNats
  <1>4. x = k
    BY <1>1, <1>2, <1>3
  <1>5. (1 .. k) \ {k} = 1 .. (k - 1)
    OBVIOUS
  <1>6. QED
    BY <1>1, <1>2, <1>3, <1>4, <1>5

\* The largest element of a part of an interval.
LEMMA MaxInInterval ==
  ASSUME NEW m \in Nat, NEW s \in SUBSET (1 .. m), s # {}
  PROVE  Max(s) \in s /\ \A y \in s : y <= Max(s)
  <1>1. s \subseteq 0 .. m
    OBVIOUS
  <1>2. QED
    BY <1>1, MaxOfNats

\* Weights along a sequence have prefix sums, and the fold exists.
LEMMA PrefixSumsExist ==
  ASSUME NEW n \in Nat, NEW w \in [1 .. n -> Nat]
  PROVE  (\E p : PrefixSums(p, w, n)) /\ \A m \in 0 .. n : \E h : LeftFoldOf(h, w, m)
  <1>1. IsFiniteSet(1 .. n)
    BY FS_Interval
  <1>2. PICK sum : Sums(sum, w, 1 .. n)
    BY <1>1, SumsExist
  <1> DEFINE p == [k \in 0 .. n |-> sum[1 .. k]]
  <1>3. \A k \in 0 .. n : 1 .. k \in SUBSET (1 .. n)
    OBVIOUS
  <1>4. p \in [0 .. n -> Nat]
    BY <1>2, <1>3 DEF Sums
  <1>5. p[0] = 0
    <2>1. 1 .. 0 = {} /\ 0 \in 0 .. n
      OBVIOUS
    <2>2. QED
      BY <1>2, <2>1 DEF Sums
  <1>6. ASSUME NEW k \in 1 .. n PROVE p[k] = p[k - 1] + w[k]
    <2>1. k \in 1 .. k /\ (1 .. k) \ {k} = 1 .. (k - 1) /\ k \in 0 .. n /\ k - 1 \in 0 .. n
      OBVIOUS
    <2>2. sum[1 .. k] = w[k] + sum[1 .. (k - 1)]
      <3>1. PICK K : K = 1 .. k
        OBVIOUS
      <3>2. K \in SUBSET (1 .. n) /\ k \in K /\ K \ {k} = 1 .. (k - 1)
        BY <1>3, <2>1, <3>1
      <3>3. sum[K] = w[k] + sum[K \ {k}]
        BY <1>2, <3>2 DEF Sums
      <3>4. QED
        BY <3>1, <3>2, <3>3
    <2>3. sum[1 .. (k - 1)] \in Nat /\ w[k] \in Nat
      BY <1>2, <1>3, <2>1 DEF Sums
    <2>4. QED
      BY <2>1, <2>2, <2>3
  <1>7. PrefixSums(p, w, n)
    <2> HIDE DEF p
    <2> QED
      BY <1>4, <1>5, <1>6 DEF PrefixSums
  <1>8. ASSUME NEW m \in 0 .. n PROVE \E h : LeftFoldOf(h, w, m)
    <2> DEFINE e == [s \in SUBSET (1 .. m) |-> sum[s]]
    <2>1. ASSUME NEW s \in SUBSET (1 .. m), s # {}
          PROVE  e[s] = e[s \ {Max(s)}] + w[Max(s)]
      <3>1. m \in Nat
        OBVIOUS
      <3>2. PICK x : x = Max(s) /\ x \in s
        BY <2>1, <3>1, MaxInInterval
      <3>3. s \in SUBSET (1 .. n) /\ s \ {x} \in SUBSET (1 .. m) /\ s \ {x} \in SUBSET (1 .. n)
            /\ x \in 1 .. n
        <4>1. 1 .. m \subseteq 1 .. n
          OBVIOUS
        <4>2. QED
          BY <3>2, <4>1, Zenon
      <3>4. sum[s] = w[x] + sum[s \ {x}]
        BY <1>2, <3>2, <3>3 DEF Sums
      <3>5. PICK a \in Nat, b \in Nat : a = w[x] /\ b = sum[s \ {x}]
        BY <1>2, <3>3 DEF Sums
      <3>6. e[s] = sum[s] /\ e[s \ {x}] = sum[s \ {x}]
        BY <3>3
      <3>7. e[s] = e[s \ {x}] + w[x]
        <4> HIDE DEF e
        <4> QED
          BY <3>4, <3>5, <3>6
      <3>8. QED
        <4> HIDE DEF e
        <4> QED
          BY <3>2, <3>7
    <2>2. e[{}] = 0
      BY <1>2 DEF Sums
    <2>3. e \in [SUBSET (1 .. m) -> Nat]
      <3>1. \A s \in SUBSET (1 .. m) : s \in SUBSET (1 .. n)
        OBVIOUS
      <3>2. \A s \in SUBSET (1 .. m) : sum[s] \in Nat
        BY <1>2, <3>1 DEF Sums
      <3>3. QED
        BY <3>2
    <2> HIDE DEF e
    <2>4. LeftFoldOf(e, w, m)
      BY <2>1, <2>2, <2>3 DEF LeftFoldOf
    <2>5. QED
      BY <2>4
  <1>9. QED
    <2> HIDE DEF p
    <2> QED
      BY <1>7, <1>8

\* The fold over a prefix is its prefix sum.
LEMMA LeftFoldIsPrefixSum ==
  ASSUME NEW n \in Nat, NEW w \in [1 .. n -> Nat], NEW p, PrefixSums(p, w, n),
         NEW m \in 0 .. n, NEW h, UnfoldsTo(h, w, m)
  PROVE  h[1 .. m] = p[m]
  <1> DEFINE B == {k \in 0 .. m : h[1 .. k] # p[k]}
  <1> SUFFICES ASSUME B # {} PROVE FALSE
    OBVIOUS
  <1>0. B \subseteq Nat
    OBVIOUS
  <1>1. Min(B) \in B /\ \A k \in B : Min(B) <= k
    <2> HIDE DEF B
    <2> QED
      BY <1>0, MinOfNats
  <1>2. PICK k \in B : k = Min(B)
    BY <1>1
  <1>3. k \in 0 .. m /\ h[1 .. k] # p[k]
    BY <1>2
  <1>4. CASE k = 0
    <2>1. 1 .. k = {}
      BY <1>4
    <2>2. h[1 .. k] = 0
      BY <2>1 DEF UnfoldsTo
    <2>3. QED
      BY <1>3, <1>4, <2>2 DEF PrefixSums
  <1>5. CASE k # 0
    <2>1. k \in 1 .. m /\ k - 1 \in 0 .. m /\ k \in 1 .. n /\ k - 1 \in 0 .. n /\ k - 1 < k
      BY <1>3, <1>5
    <2>2. k - 1 \notin B
      <3> HIDE DEF B
      <3> QED
        BY <1>1, <1>2, <2>1
    <2>3. h[1 .. (k - 1)] = p[k - 1] /\ p[k - 1] \in Nat
      BY <2>1, <2>2 DEF PrefixSums
    <2>4. h[1 .. k] = h[1 .. (k - 1)] + w[k]
      BY <2>1, <2>3 DEF UnfoldsTo
    <2>5. p[k] = p[k - 1] + w[k]
      BY <2>1 DEF PrefixSums
    <2>6. QED
      BY <1>3, <2>3, <2>4, <2>5
  <1>6. QED
    BY <1>4, <1>5

\* Prefix sums grow.
LEMMA PrefixSumsGrow ==
  ASSUME NEW n \in Nat, NEW w \in [1 .. n -> Nat], NEW p, PrefixSums(p, w, n),
         NEW j \in 0 .. n, NEW m \in 0 .. n, j < m
  PROVE  p[j] + w[m] <= p[m]
  <1> DEFINE B == {k \in (j + 1) .. n : ~(p[j] + w[k] <= p[k])}
  <1> SUFFICES ASSUME B # {} PROVE FALSE
    OBVIOUS
  <1>1. B \subseteq Nat
    OBVIOUS
  <1>2. Min(B) \in B /\ \A k \in B : Min(B) <= k
    BY <1>1, MinOfNats
  <1>3. PICK k \in B : k = Min(B)
    BY <1>2
  <1>4. k \in (j + 1) .. n /\ ~(p[j] + w[k] <= p[k]) /\ k \in 1 .. n /\ k - 1 \in 0 .. n
    BY <1>3
  <1>5. p[k] = p[k - 1] + w[k]
    BY <1>4 DEF PrefixSums
  <1>6. PICK a \in Nat, b \in Nat, c \in Nat : a = p[j] /\ b = p[k - 1] /\ c = w[k]
    BY <1>4 DEF PrefixSums
  <1>7. a <= b
    <2>1. CASE k - 1 = j
      BY <1>6, <2>1
    <2>2. CASE k - 1 # j
      <3>0. k - 1 \in (j + 1) .. n /\ k - 1 < k
        BY <1>4, <2>2
      <3>1. k - 1 \in (j + 1) .. n /\ k - 1 \notin B
        <4> HIDE DEF B
        <4> QED
          BY <1>2, <1>3, <1>4, <3>0
      <3>2. p[j] + w[k - 1] <= p[k - 1]
        BY <3>1
      <3>3. w[k - 1] \in Nat
        BY <3>1
      <3>4. QED
        BY <1>6, <3>2, <3>3
    <2>3. QED
      BY <2>1, <2>2
  <1>8. QED
    BY <1>4, <1>5, <1>6, <1>7

(***************************************************************************)
(* The shares the orders in some slots of a table hold.                    *)
(***************************************************************************)
SharesIn(t, S) == MapThenSumSet(LAMBDA i : t[i].remaining, S)

\* The shares of the slots, as weights.
Remaining(t) == [i \in Slots |-> t[i].remaining]
Counts(t) == \A i \in Slots : t[i].remaining \in Nat

\* The slots of the table are as many as its capacity.
LEMMA SlotsFinite == IsFiniteSet(Slots) /\ Cardinality(Slots) = Capacity
  BY FS_Interval, CapacityAssumption DEF Slots

\* The sum over slots is the fold the definition says.
LEMMA HeldIsSum ==
  ASSUME NEW t, Counts(t), NEW sum, Sums(sum, Remaining(t), Slots), NEW S \in SUBSET Slots
  PROVE  SharesIn(t, S) = sum[S]
  <1> DEFINE Q(h) == h = [s \in SUBSET S |->
                            IF s = {} THEN 0
                              ELSE t[CHOOSE x \in s : TRUE].remaining
                                     + h[s \ {CHOOSE x \in s : TRUE}]]
             e == [s \in SUBSET S |-> sum[s]]
  <1>1. SharesIn(t, S) = (CHOOSE h : Q(h))[S]
    BY Zenon DEF SharesIn, MapThenSumSet, MapThenFoldSet
  <1>2. \A s \in SUBSET S : s # {} =>
          /\ (CHOOSE x \in s : TRUE) \in s
          /\ t[CHOOSE x \in s : TRUE].remaining = Remaining(t)[CHOOSE x \in s : TRUE]
    BY DEF Remaining
  <1>3. Q(e)
    <2>1. ASSUME NEW s \in SUBSET S, s # {}, NEW x, x = CHOOSE y \in s : TRUE
          PROVE  e[s] = t[x].remaining + e[s \ {x}]
      <3>1. x \in s /\ t[x].remaining = Remaining(t)[x]
        BY <1>2, <2>1
      <3>2. sum[s] = Remaining(t)[x] + sum[s \ {x}]
        BY <3>1 DEF Sums
      <3>3. QED
        BY <3>1, <3>2
    <2>2. \A s \in SUBSET S : s # {} =>
            e[s] = t[CHOOSE x \in s : TRUE].remaining + e[s \ {CHOOSE x \in s : TRUE}]
      <3> HIDE DEF e
      <3> QED
        BY <2>1
    <2>3. e[{}] = 0
      BY DEF Sums
    <2>4. e = [s \in SUBSET S |-> e[s]]
      OBVIOUS
    <2> HIDE DEF e
    <2>5. QED
      BY <2>2, <2>3, <2>4
  <1>4. PICK h : Q(h) /\ h = CHOOSE g : Q(g)
    <2> HIDE DEF Q
    <2> QED
      BY <1>3
  <1>5. FoldOf(h, Remaining(t), S)
    BY <1>2, <1>4 DEF FoldOf
  <1>6. Remaining(t) \in [Slots -> Nat]
    BY DEF Remaining, Counts
  <1>7. h[S] = sum[S]
    BY <1>5, <1>6, SlotsFinite, FoldIsSum
  <1>8. QED
    <2> HIDE DEF Q
    <2> QED
      BY <1>1, <1>4, <1>7

\* What the sum over slots is used for: nothing holds nothing, and a slot
\* more adds its shares.
LEMMA HeldFacts ==
  ASSUME NEW t, Counts(t)
  PROVE  /\ SharesIn(t, {}) = 0
         /\ \A S \in SUBSET Slots : SharesIn(t, S) \in Nat
         /\ \A S \in SUBSET Slots : \A x \in S :
              SharesIn(t, S) = t[x].remaining + SharesIn(t, S \ {x})
  <1>1. Remaining(t) \in [Slots -> Nat]
    BY DEF Remaining, Counts
  <1>2. PICK sum : Sums(sum, Remaining(t), Slots)
    BY <1>1, SlotsFinite, SumsExist
  <1>3. \A S \in SUBSET Slots : SharesIn(t, S) = sum[S]
    BY <1>2, HeldIsSum
  <1>4. SharesIn(t, {}) = 0
    BY <1>2, <1>3 DEF Sums
  <1>5. \A S \in SUBSET Slots : SharesIn(t, S) \in Nat
    BY <1>2, <1>3 DEF Sums
  <1>6. ASSUME NEW S \in SUBSET Slots, NEW x \in S
        PROVE  SharesIn(t, S) = t[x].remaining + SharesIn(t, S \ {x})
    <2>1. sum[S] = Remaining(t)[x] + sum[S \ {x}]
      BY <1>2 DEF Sums
    <2>2. Remaining(t)[x] = t[x].remaining
      BY DEF Remaining
    <2>3. QED
      BY <1>3, <2>1, <2>2
  <1>7. QED
    BY <1>4, <1>5, <1>6

\* Slots that two tables have in common hold the same in both.
LEMMA HeldSame ==
  ASSUME NEW t, Counts(t), NEW u, Counts(u), NEW S \in SUBSET Slots,
         \A i \in S : t[i].remaining = u[i].remaining
  PROVE  SharesIn(t, S) = SharesIn(u, S)
  <1>1. Remaining(t) \in [Slots -> Nat] /\ Remaining(u) \in [Slots -> Nat]
    BY DEF Remaining, Counts
  <1>2. PICK a : Sums(a, Remaining(t), Slots)
    BY <1>1, SlotsFinite, SumsExist
  <1>3. PICK b : Sums(b, Remaining(u), Slots)
    BY <1>1, SlotsFinite, SumsExist
  <1>4. SharesIn(t, S) = a[S] /\ SharesIn(u, S) = b[S]
    BY <1>2, <1>3, HeldIsSum
  <1>5. \A i \in S : Remaining(t)[i] = Remaining(u)[i]
    BY DEF Remaining
  <1>6. a[S] = b[S]
    BY <1>2, <1>3, <1>5, SlotsFinite, SumsUnique
  <1>7. QED
    BY <1>4, <1>6

\* A table of orders of at most m shares never holds more than m per slot.
LEMMA HeldBound ==
  ASSUME NEW t, NEW m \in Nat, \A i \in Slots : t[i].remaining \in 0 .. m,
         NEW S \in SUBSET Slots
  PROVE  SharesIn(t, S) <= Capacity * m
  <1>1. Counts(t)
    BY DEF Counts
  <1>2. Remaining(t) \in [Slots -> Nat] /\ Remaining(t) \in [Slots -> 0 .. m]
    BY <1>1 DEF Remaining, Counts
  <1>3. PICK sum : Sums(sum, Remaining(t), Slots)
    BY <1>2, SlotsFinite, SumsExist
  <1>4. SharesIn(t, S) = sum[S]
    BY <1>1, <1>3, HeldIsSum
  <1>5. sum[S] <= Cardinality(Slots) * m
    BY <1>2, <1>3, SlotsFinite, SumsBound
  <1>6. QED
    BY <1>4, <1>5, SlotsFinite

(***************************************************************************)
(* The order table: orders with references in R, prices in P and between 1 *)
(* and m shares, each reference live once.                                 *)
(***************************************************************************)
Orders(R, P, m) ==
  [reference : R, price : P, remaining : 1 .. m, bid : BOOLEAN, live : {TRUE}]
Tables(R, P, m) == [Slots -> {NoEntry} \cup Orders(R, P, m)]
LiveOnce(t) ==
  \A i, j \in Slots : t[i].live /\ t[j].live /\ t[i].reference = t[j].reference => i = j

\* The slots of the orders resting on one side at one price, and their shares.
RestingIn(t, bid, p) == {i \in Slots : t[i].live /\ t[i].bid = bid /\ t[i].price = p}
SharesAt(t, bid, p) == SharesIn(t, RestingIn(t, bid, p))

\* A slot of a table is live exactly if it holds an order.
LEMMA SlotCases ==
  ASSUME NEW R, NEW P, NEW m \in Nat, NEW t \in Tables(R, P, m), NEW i \in Slots
  PROVE  /\ t[i].live \in BOOLEAN /\ t[i].remaining \in 0 .. m
         /\ t[i].live => /\ t[i] \in Orders(R, P, m)
                         /\ t[i].reference \in R /\ t[i].price \in P
                         /\ t[i].remaining \in 1 .. m /\ t[i].bid \in BOOLEAN
         /\ ~t[i].live => t[i] = NoEntry
  <1>1. t[i] = NoEntry \/ t[i] \in Orders(R, P, m)
    BY DEF Tables
  <1>2. CASE t[i] = NoEntry
    BY <1>2 DEF NoEntry
  <1>3. CASE t[i] \in Orders(R, P, m)
    <2>1. /\ t[i].live = TRUE /\ t[i].reference \in R /\ t[i].price \in P
          /\ t[i].remaining \in 1 .. m /\ t[i].bid \in BOOLEAN
      BY <1>3 DEF Orders
    <2>2. t[i].remaining \in 0 .. m
      BY <2>1
    <2>3. QED
      BY <1>3, <2>1, <2>2
  <1>4. QED
    BY <1>1, <1>2, <1>3

\* The slots of a table have natural numbers of shares.
LEMMA TableCounts ==
  ASSUME NEW R, NEW P, NEW m \in Nat, NEW t \in Tables(R, P, m)
  PROVE  Counts(t)
  BY SlotCases DEF Counts

\* With a reference live once, the search finds the one slot that holds it.
LEMMA FoundSlot ==
  ASSUME NEW t, LiveOnce(t), NEW r, Known(t, r)
  PROVE  /\ Min(Holding(t, r)) \in Slots
         /\ t[Min(Holding(t, r))].live
         /\ t[Min(Holding(t, r))].reference = r
  <1>1. Holding(t, r) # {} /\ Holding(t, r) \subseteq Nat
    BY CapacityAssumption DEF Known, Holding, Slots
  <1>2. Min(Holding(t, r)) \in Holding(t, r)
    BY <1>1, MinOfNats
  <1>3. QED
    BY <1>2 DEF Holding

\* The free slot insert takes.
LEMMA FreeSlot ==
  ASSUME NEW t, NEW r, InsertOk(t, r)
  PROVE  /\ Min(Vacant(t)) \in Slots /\ ~t[Min(Vacant(t))].live
         /\ \A i \in Slots : t[i].live => t[i].reference # r
  <1>1. Vacant(t) # {} /\ Vacant(t) \subseteq Nat
    BY CapacityAssumption DEF InsertOk, Vacant, Slots
  <1>2. Min(Vacant(t)) \in Vacant(t)
    BY <1>1, MinOfNats
  <1>3. QED
    BY <1>2 DEF InsertOk, Vacant, Known, Holding

\* An order that takes a free slot adds its shares at its side and price.
LEMMA InsertShares ==
  ASSUME NEW R, NEW P, NEW m \in Nat, NEW t \in Tables(R, P, m), LiveOnce(t),
         NEW r \in R, NEW b \in BOOLEAN, NEW p \in P, NEW n \in 1 .. m,
         InsertOk(t, r), NEW u, u = Insert(t, r, b, p, n)
  PROVE  /\ u \in Tables(R, P, m) /\ LiveOnce(u)
         /\ \A c \in BOOLEAN, q \in P :
              SharesAt(u, c, q) = SharesAt(t, c, q) + (IF c = b /\ q = p THEN n ELSE 0)
  <1> DEFINE x == Min(Vacant(t))
             e == [reference |-> r, price |-> p, remaining |-> n, bid |-> b, live |-> TRUE]
  <1>1. x \in Slots /\ ~t[x].live /\ \A i \in Slots : t[i].live => t[i].reference # r
    BY FreeSlot
  <1>2. u = [t EXCEPT ![x] = e]
    BY DEF Insert
  <1>3. /\ e \in Orders(R, P, m) /\ e.reference = r /\ e.live = TRUE
        /\ e.bid = b /\ e.price = p /\ e.remaining = n
    BY DEF Orders
  <1> HIDE DEF x, e
  <1>4. u \in Tables(R, P, m) /\ \A i \in Slots : u[i] = IF i = x THEN e ELSE t[i]
    BY <1>1, <1>2, <1>3 DEF Tables
  <1>5. LiveOnce(u)
    BY <1>1, <1>3, <1>4 DEF LiveOnce
  <1>6. Counts(t) /\ Counts(u)
    BY <1>4, TableCounts
  <1>7. ASSUME NEW c \in BOOLEAN, NEW q \in P
        PROVE  SharesAt(u, c, q) = SharesAt(t, c, q) + (IF c = b /\ q = p THEN n ELSE 0)
    <2> DEFINE S == RestingIn(t, c, q)
    <2>1. S \in SUBSET Slots /\ x \notin S
      BY <1>1 DEF RestingIn
    <2>2. RestingIn(u, c, q) = IF c = b /\ q = p THEN S \cup {x} ELSE S
      BY <1>1, <1>3, <1>4 DEF RestingIn
    <2>3. SharesIn(u, S) = SharesIn(t, S) /\ SharesIn(t, S) \in Nat
      BY <1>4, <1>6, <2>1, HeldSame, HeldFacts
    <2>4. SharesIn(u, S \cup {x}) = n + SharesIn(u, S)
      <3>1. S \cup {x} \in SUBSET Slots /\ x \in S \cup {x} /\ (S \cup {x}) \ {x} = S
        BY <1>1, <2>1
      <3>2. u[x].remaining = n
        BY <1>1, <1>3, <1>4
      <3>3. QED
        BY <1>6, <3>1, <3>2, HeldFacts
    <2>5. QED
      <3> HIDE DEF S
      <3>1. SharesAt(t, c, q) = SharesIn(t, S)
        BY DEF SharesAt, S
      <3>2. SharesAt(u, c, q) = IF c = b /\ q = p THEN SharesIn(u, S \cup {x}) ELSE SharesIn(u, S)
        BY <2>2 DEF SharesAt
      <3>3. PICK k \in Nat : k = SharesIn(t, S)
        BY <2>3
      <3>4. QED
        BY <2>3, <2>4, <3>1, <3>2, <3>3
  <1>8. QED
    BY <1>4, <1>5, <1>7

\* A reduction takes what it says off the shares at the order's side and
\* price, and there are that many.
LEMMA ReduceShares ==
  ASSUME NEW R, NEW P, NEW m \in Nat, NEW t \in Tables(R, P, m), LiveOnce(t),
         NEW r, Known(t, r), NEW n \in Nat, NEW u, u = Reduce(t, r, n),
         NEW o, o = Entry(t, r), NEW a, a = Applied(t, r, n)
  PROVE  /\ u \in Tables(R, P, m) /\ LiveOnce(u)
         /\ o.bid \in BOOLEAN /\ o.price \in P /\ a \in Nat
         /\ a <= SharesAt(t, o.bid, o.price)
         /\ \A c \in BOOLEAN, q \in P :
              SharesAt(u, c, q) = SharesAt(t, c, q)
                                    - (IF c = o.bid /\ q = o.price THEN a ELSE 0)
  <1> DEFINE x == Min(Holding(t, r))
             e == IF o.remaining - a <= 0
                    THEN NoEntry ELSE [o EXCEPT !.remaining = o.remaining - a]
  <1>1. x \in Slots /\ t[x].live /\ t[x].reference = r /\ o = t[x]
    BY FoundSlot DEF Entry
  <1>2. /\ o \in Orders(R, P, m) /\ o.remaining \in 1 .. m
        /\ o.bid \in BOOLEAN /\ o.price \in P /\ o.reference \in R
    BY <1>1, SlotCases
  <1>3. a = IF n < o.remaining THEN n ELSE o.remaining
    BY DEF Applied
  <1>4. a \in Nat /\ a <= o.remaining
    BY <1>2, <1>3
  <1>5. u = [t EXCEPT ![x] = e]
    BY <1>1 DEF Reduce, Tables
  <1> HIDE DEF x
  <1>6. CASE o.remaining = a
    <2>1. e = NoEntry /\ ~e.live /\ e.remaining = 0
      BY <1>2, <1>4, <1>6 DEF NoEntry
    <2> HIDE DEF e
    <2>2. u \in Tables(R, P, m) /\ \A i \in Slots : u[i] = IF i = x THEN e ELSE t[i]
      BY <1>1, <1>5, <2>1 DEF Tables
    <2>3. LiveOnce(u)
      BY <2>1, <2>2 DEF LiveOnce
    <2>4. Counts(t) /\ Counts(u)
      BY <2>2, TableCounts
    <2>5. ASSUME NEW c \in BOOLEAN, NEW q \in P
          PROVE  /\ SharesAt(u, c, q) = SharesAt(t, c, q)
                                          - (IF c = o.bid /\ q = o.price THEN a ELSE 0)
                 /\ c = o.bid /\ q = o.price => a <= SharesAt(t, c, q)
      <3> DEFINE S == RestingIn(t, c, q)
      <3>1. S \in SUBSET Slots /\ (x \in S <=> c = o.bid /\ q = o.price)
        BY <1>1 DEF RestingIn
      <3>2. RestingIn(u, c, q) = S \ {x}
        BY <2>1, <2>2 DEF RestingIn
      <3>3. SharesIn(u, S \ {x}) = SharesIn(t, S \ {x})
        BY <2>2, <2>4, <3>1, HeldSame
      <3>4. x \in S => SharesIn(t, S) = a + SharesIn(t, S \ {x})
        BY <1>1, <1>6, <2>4, <3>1, HeldFacts
      <3>5. x \notin S => S \ {x} = S
        OBVIOUS
      <3>6. SharesAt(t, c, q) = SharesIn(t, S) /\ SharesAt(u, c, q) = SharesIn(t, S \ {x})
        BY <3>2, <3>3 DEF SharesAt
      <3> HIDE DEF S
      <3>7. PICK k \in Nat, l \in Nat : k = SharesIn(t, S) /\ l = SharesIn(t, S \ {x})
        BY <2>4, <3>1, HeldFacts
      <3>8. CASE c = o.bid /\ q = o.price
        <4>1. k = a + l /\ SharesAt(t, c, q) = k /\ SharesAt(u, c, q) = l
          BY <3>1, <3>4, <3>6, <3>7, <3>8
        <4>2. l = k - a /\ a <= k
          BY <1>4, <4>1
        <4>3. QED
          BY <3>8, <4>1, <4>2
      <3>9. CASE ~(c = o.bid /\ q = o.price)
        <4>1. SharesAt(t, c, q) = k /\ SharesAt(u, c, q) = k
          BY <3>1, <3>5, <3>6, <3>7, <3>9
        <4>2. k = k - 0
          OBVIOUS
        <4>3. QED
          BY <3>9, <4>1, <4>2
      <3>10. QED
        BY <3>8, <3>9
    <2>6. QED
      BY <1>2, <1>4, <2>2, <2>3, <2>5
  <1>7. CASE o.remaining # a
    <2>1. PICK d \in 1 .. m : d = o.remaining - a
      BY <1>2, <1>4, <1>7
    <2>2. e = [o EXCEPT !.remaining = d]
      BY <2>1
    <2>3. /\ e \in Orders(R, P, m) /\ e.live = TRUE /\ e.reference = o.reference
          /\ e.bid = o.bid /\ e.price = o.price /\ e.remaining = d
      BY <1>2, <2>2 DEF Orders
    <2> HIDE DEF e
    <2>4. u \in Tables(R, P, m) /\ \A i \in Slots : u[i] = IF i = x THEN e ELSE t[i]
      BY <1>1, <1>5, <2>3 DEF Tables
    <2>5. LiveOnce(u)
      BY <1>1, <2>3, <2>4 DEF LiveOnce
    <2>6. Counts(t) /\ Counts(u)
      BY <2>4, TableCounts
    <2>7. ASSUME NEW c \in BOOLEAN, NEW q \in P
          PROVE  /\ SharesAt(u, c, q) = SharesAt(t, c, q)
                                          - (IF c = o.bid /\ q = o.price THEN a ELSE 0)
                 /\ c = o.bid /\ q = o.price => a <= SharesAt(t, c, q)
      <3> DEFINE S == RestingIn(t, c, q)
      <3>1. S \in SUBSET Slots /\ (x \in S <=> c = o.bid /\ q = o.price)
        BY <1>1 DEF RestingIn
      <3>2. RestingIn(u, c, q) = S
        BY <1>1, <2>3, <2>4 DEF RestingIn
      <3>3. SharesIn(u, S \ {x}) = SharesIn(t, S \ {x})
        BY <2>4, <2>6, <3>1, HeldSame
      <3>4. x \in S => /\ SharesIn(t, S) = o.remaining + SharesIn(t, S \ {x})
                       /\ SharesIn(u, S) = d + SharesIn(u, S \ {x})
        BY <1>1, <2>3, <2>4, <2>6, <3>1, HeldFacts
      <3>5. x \notin S => S \ {x} = S
        OBVIOUS
      <3>6. SharesAt(t, c, q) = SharesIn(t, S) /\ SharesAt(u, c, q) = SharesIn(u, S)
        BY <3>2 DEF SharesAt
      <3> HIDE DEF S
      <3>7. PICK k \in Nat, l \in Nat : k = SharesIn(t, S) /\ l = SharesIn(t, S \ {x})
        BY <2>6, <3>1, HeldFacts
      <3>8. PICK g \in Nat : g = o.remaining
        BY <1>2
      <3>9. CASE c = o.bid /\ q = o.price
        <4>1. k = g + l /\ SharesAt(t, c, q) = k /\ SharesAt(u, c, q) = d + l /\ d = g - a
          BY <2>1, <3>1, <3>3, <3>4, <3>6, <3>7, <3>8, <3>9
        <4>2. d + l = k - a /\ a <= k
          BY <1>4, <3>8, <4>1
        <4>3. QED
          BY <3>9, <4>1, <4>2
      <3>10. CASE ~(c = o.bid /\ q = o.price)
        <4>1. SharesAt(t, c, q) = k /\ SharesAt(u, c, q) = k
          BY <3>1, <3>3, <3>5, <3>6, <3>7, <3>10
        <4>2. k = k - 0
          OBVIOUS
        <4>3. QED
          BY <3>10, <4>1, <4>2
      <3>11. QED
        BY <3>9, <3>10
    <2>8. QED
      BY <1>2, <1>4, <2>4, <2>5, <2>7
  <1>8. QED
    BY <1>6, <1>7

\* The orders a table holds.
OrdersIn(t) == {t[i] : i \in Slots \ Vacant(t)}

\* The table as a set of orders with a reference each: what Known and Entry
\* say of it.
LEMMA KnownOrders ==
  ASSUME NEW R, NEW P, NEW m \in Nat, NEW t \in Tables(R, P, m), LiveOnce(t)
  PROVE  /\ OrdersIn(t) \subseteq Orders(R, P, m)
         /\ \A o, q \in OrdersIn(t) : o.reference = q.reference => o = q
         /\ \A o \in OrdersIn(t) : Known(t, o.reference) /\ Entry(t, o.reference) = o
         /\ \A r : Known(t, r) => Entry(t, r) \in OrdersIn(t) /\ Entry(t, r).reference = r
  <1>1. \A i \in Slots \ Vacant(t) : i \in Slots /\ t[i].live /\ t[i] \in Orders(R, P, m)
    BY SlotCases DEF Vacant
  <1>2. \A o, q \in OrdersIn(t) : o.reference = q.reference => o = q
    BY <1>1 DEF OrdersIn, LiveOnce
  <1>3. ASSUME NEW r, Known(t, r)
        PROVE  Entry(t, r) \in OrdersIn(t) /\ Entry(t, r).reference = r
    <2>1. PICK x \in Slots : x = Min(Holding(t, r)) /\ t[x].live /\ t[x].reference = r
      BY <1>3, FoundSlot
    <2>2. x \in Slots \ Vacant(t)
      BY <2>1 DEF Vacant
    <2>3. QED
      BY <2>1, <2>2 DEF Entry, OrdersIn
  <1>4. ASSUME NEW o \in OrdersIn(t)
        PROVE  Known(t, o.reference) /\ Entry(t, o.reference) = o
    <2>1. PICK i \in Slots \ Vacant(t) : t[i] = o
      BY DEF OrdersIn
    <2>2. Known(t, o.reference)
      BY <1>1, <2>1 DEF Known, Holding
    <2>3. Entry(t, o.reference) \in OrdersIn(t) /\ Entry(t, o.reference).reference = o.reference
      BY <1>3, <2>2
    <2>4. QED
      BY <1>2, <2>2, <2>3
  <1>5. OrdersIn(t) \subseteq Orders(R, P, m)
    BY <1>1 DEF OrdersIn
  <1>6. QED
    BY <1>2, <1>3, <1>4, <1>5

\* An order that is inserted joins the others.
LEMMA InsertOrders ==
  ASSUME NEW R, NEW P, NEW m \in Nat, NEW t \in Tables(R, P, m), NEW r, InsertOk(t, r),
         NEW b, NEW p, NEW n,
         NEW e, e = [reference |-> r, price |-> p, remaining |-> n, bid |-> b, live |-> TRUE],
         NEW u, u = Insert(t, r, b, p, n)
  PROVE  OrdersIn(u) = OrdersIn(t) \cup {e}
  <1>1. PICK x \in Slots : x = Min(Vacant(t)) /\ ~t[x].live
    BY FreeSlot
  <1>2. \A i \in Slots : u[i] = IF i = x THEN e ELSE t[i]
    <2>1. u = [t EXCEPT ![x] = e]
      BY <1>1 DEF Insert
    <2>2. QED
      BY <2>1 DEF Tables
  <1>3. e.live = TRUE
    OBVIOUS
  <1>4. Slots \ Vacant(u) = (Slots \ Vacant(t)) \cup {x} /\ x \notin Slots \ Vacant(t)
    BY <1>1, <1>2, <1>3 DEF Vacant
  <1>5. ASSUME NEW y \in OrdersIn(u) PROVE y \in OrdersIn(t) \cup {e}
    <2>1. PICK i \in Slots \ Vacant(u) : y = u[i]
      BY <1>5 DEF OrdersIn
    <2>2. CASE i = x
      BY <1>2, <2>1, <2>2
    <2>3. CASE i # x
      BY <1>2, <1>4, <2>1, <2>3 DEF OrdersIn
    <2>4. QED
      BY <2>2, <2>3
  <1>6. ASSUME NEW y \in OrdersIn(t) \cup {e} PROVE y \in OrdersIn(u)
    <2>1. CASE y = e
      BY <1>1, <1>2, <1>4, <2>1 DEF OrdersIn
    <2>2. CASE y \in OrdersIn(t)
      <3>1. PICK i \in Slots \ Vacant(t) : y = t[i]
        BY <2>2 DEF OrdersIn
      <3>2. y = u[i] /\ i \in Slots \ Vacant(u)
        BY <1>1, <1>2, <1>4, <3>1
      <3>3. QED
        BY <3>2 DEF OrdersIn
    <2>3. QED
      BY <1>6, <2>1, <2>2
  <1>7. QED
    BY <1>5, <1>6

\* An order that is reduced stays with what is left of it, if anything is.
LEMMA ReduceOrders ==
  ASSUME NEW R, NEW P, NEW m \in Nat, NEW t \in Tables(R, P, m), LiveOnce(t),
         NEW r, Known(t, r), NEW n \in Nat, NEW u, u = Reduce(t, r, n),
         NEW o, o = Entry(t, r)
  PROVE  OrdersIn(u) =
           IF o.remaining <= n THEN OrdersIn(t) \ {o}
             ELSE (OrdersIn(t) \ {o}) \cup {[o EXCEPT !.remaining = o.remaining - n]}
  <1> DEFINE a == Applied(t, r, n)
             e == IF o.remaining - a <= 0
                    THEN NoEntry ELSE [o EXCEPT !.remaining = o.remaining - a]
  <1>1. PICK x \in Slots : /\ x = Min(Holding(t, r)) /\ t[x].live /\ t[x].reference = r
                          /\ o = t[x]
    BY FoundSlot DEF Entry
  <1>2. o \in Orders(R, P, m) /\ o.remaining \in 1 .. m
    BY <1>1, SlotCases
  <1>3. a = IF n < o.remaining THEN n ELSE o.remaining
    BY DEF Applied
  <1>4. u = [t EXCEPT ![x] = e]
    BY <1>1 DEF Reduce, Tables
  <1>5. /\ o.remaining <= n => e = NoEntry
        /\ ~(o.remaining <= n) => e = [o EXCEPT !.remaining = o.remaining - n]
    BY <1>2, <1>3
  <1> HIDE DEF a, e
  <1>6. \A i \in Slots : u[i] = IF i = x THEN e ELSE t[i]
    BY <1>4 DEF Tables
  <1>7. /\ \A i \in Slots \ Vacant(t) : i # x => t[i] # o
        /\ x \in Slots \ Vacant(t)
    BY <1>1 DEF Vacant, LiveOnce
  <1>8. OrdersIn(t) \ {o} = {t[i] : i \in (Slots \ Vacant(t)) \ {x}}
    BY <1>1, <1>7 DEF OrdersIn
  <1>9. CASE o.remaining <= n
    <2>1. e = NoEntry /\ ~e.live
      BY <1>5, <1>9 DEF NoEntry
    <2>2. Slots \ Vacant(u) = (Slots \ Vacant(t)) \ {x}
      BY <1>6, <2>1 DEF Vacant
    <2>3. OrdersIn(u) = {t[i] : i \in (Slots \ Vacant(t)) \ {x}}
      BY <1>6, <2>2 DEF OrdersIn
    <2>4. QED
      BY <1>8, <1>9, <2>3
  <1>10. CASE ~(o.remaining <= n)
    <2>1. e = [o EXCEPT !.remaining = o.remaining - n] /\ e.live = TRUE
      BY <1>2, <1>5, <1>10 DEF Orders
    <2>2. Slots \ Vacant(u) = Slots \ Vacant(t)
      BY <1>1, <1>6, <2>1 DEF Vacant
    <2>3. OrdersIn(u) = {t[i] : i \in (Slots \ Vacant(t)) \ {x}} \cup {e}
      BY <1>6, <1>7, <2>2 DEF OrdersIn
    <2>4. QED
      BY <1>8, <1>10, <2>1, <2>3
  <1>11. QED
    BY <1>9, <1>10

(***************************************************************************)
(* The five-level book: levels with prices in P and at least one share,    *)
(* each price at most once per side.                                       *)
(***************************************************************************)
FullLevels(P) == [price : P, quantity : Nat \ {0}, valid : {TRUE}]
SideArrays(P) == [Rows -> {NoLevel} \cup FullLevels(P)]
OnePrice(side) ==
  \A i, j \in Rows : side[i].valid /\ side[j].valid /\ side[i].price = side[j].price => i = j

Books(P) == [bids : SideArrays(P), asks : SideArrays(P), overflow : Nat]
OnePriceBook(b) == OnePrice(b.bids) /\ OnePrice(b.asks)

\* The shares one side shows at a price.
ShownAt(side, p) ==
  IF AtPrice(side, p) = {} THEN 0 ELSE side[Min(AtPrice(side, p))].quantity

\* A row of a side is valid exactly if it holds a level.
LEMMA RowCases ==
  ASSUME NEW P, NEW side \in SideArrays(P), NEW i \in Rows
  PROVE  /\ side[i].valid \in BOOLEAN /\ side[i].quantity \in Nat
         /\ side[i].valid => /\ side[i] \in FullLevels(P) /\ side[i].price \in P
                             /\ side[i].quantity \in Nat \ {0}
         /\ ~side[i].valid => side[i] = NoLevel
  <1>1. side[i] = NoLevel \/ side[i] \in FullLevels(P)
    BY DEF SideArrays
  <1>2. CASE side[i] = NoLevel
    BY <1>2 DEF NoLevel
  <1>3. CASE side[i] \in FullLevels(P)
    <2>1. side[i].valid = TRUE /\ side[i].price \in P /\ side[i].quantity \in Nat \ {0}
      BY <1>3 DEF FullLevels
    <2>2. QED
      BY <1>3, <2>1
  <1>4. QED
    BY <1>1, <1>2, <1>3

\* The rows a search of the side may stop at.
LEMMA FirstRow ==
  ASSUME NEW side, NEW S, S \subseteq Rows, S # {}
  PROVE  Min(S) \in S /\ Min(S) \in Rows
  <1>1. S \subseteq Nat
    BY LevelsAssumption DEF Rows
  <1>2. QED
    BY <1>1, MinOfNats

\* The level of a price is the one row with that price.
LEMMA RowOfPrice ==
  ASSUME NEW side, OnePrice(side), NEW p, NEW i \in AtPrice(side, p)
  PROVE  AtPrice(side, p) = {i} /\ ShownAt(side, p) = side[i].quantity
  <1>1. AtPrice(side, p) = {i} /\ i \in Rows
    BY DEF AtPrice, OnePrice
  <1>2. Min({i}) = i
    BY <1>1, FirstRow
  <1>3. QED
    BY <1>1, <1>2 DEF ShownAt

\* A side shows no negative shares, and a level shows at least one.
LEMMA ShownIsNat ==
  ASSUME NEW P, NEW side \in SideArrays(P), NEW p
  PROVE  ShownAt(side, p) \in Nat /\ (AtPrice(side, p) # {} => ShownAt(side, p) # 0)
  <1>1. CASE AtPrice(side, p) = {}
    BY <1>1 DEF ShownAt
  <1>2. CASE AtPrice(side, p) # {}
    <2>1. AtPrice(side, p) \subseteq Rows
      BY DEF AtPrice
    <2>2. PICK x \in Rows : x = Min(AtPrice(side, p)) /\ x \in AtPrice(side, p)
      BY <1>2, <2>1, FirstRow
    <2>3. side[x].quantity \in Nat \ {0}
      BY <2>2, RowCases DEF AtPrice
    <2>4. QED
      BY <1>2, <2>2, <2>3 DEF ShownAt
  <1>3. QED
    BY <1>1, <1>2

\* Two sides that differ in one row at most.
SameBut(side, new, x) == \A i \in Rows \ {x} : new[i] = side[i]

\* A row that is replaced, its old and new prices apart, leaves the levels of
\* all other prices alone.
LEMMA OtherPrices ==
  ASSUME NEW side, NEW x \in Rows, NEW new, SameBut(side, new, x),
         NEW v, x \notin AtPrice(side, v), x \notin AtPrice(new, v)
  PROVE  ShownAt(new, v) = ShownAt(side, v)
  <1>1. AtPrice(new, v) = AtPrice(side, v) /\ x \notin AtPrice(side, v)
    BY DEF AtPrice, SameBut
  <1>2. CASE AtPrice(side, v) = {}
    BY <1>1, <1>2 DEF ShownAt
  <1>3. CASE AtPrice(side, v) # {}
    <2>1. AtPrice(side, v) \subseteq Rows
      BY DEF AtPrice
    <2>2. PICK y \in Rows : y = Min(AtPrice(side, v)) /\ y \in AtPrice(side, v)
      BY <1>3, <2>1, FirstRow
    <2>3. QED
      BY <1>1, <1>3, <2>2 DEF ShownAt, SameBut
  <1>4. QED
    BY <1>2, <1>3

\* More shares at a price that has a level.
LEMMA RaiseLevel ==
  ASSUME NEW P, NEW side \in SideArrays(P), OnePrice(side), NEW p \in P, NEW q \in Nat \ {0},
         AtPrice(side, p) # {},
         NEW new, new = [side EXCEPT ![Min(AtPrice(side, p))].quantity = @ + q]
  PROVE  /\ new \in SideArrays(P) /\ OnePrice(new)
         /\ \A v \in P : ShownAt(new, v) = ShownAt(side, v) + (IF v = p THEN q ELSE 0)
  <1>1. AtPrice(side, p) \subseteq Rows
    BY DEF AtPrice
  <1>2. PICK x \in Rows : x = Min(AtPrice(side, p)) /\ x \in AtPrice(side, p)
    BY <1>1, FirstRow
  <1>3. side[x].valid /\ side[x].price = p
    BY <1>2 DEF AtPrice
  <1>4. side[x] \in FullLevels(P)
    BY <1>3, RowCases
  <1>5. PICK g \in Nat \ {0} : g = side[x].quantity
    BY <1>4 DEF FullLevels
  <1>6. PICK d \in Nat \ {0} : d = g + q
    OBVIOUS
  <1>7. PICK e : e = [side[x] EXCEPT !.quantity = d]
    OBVIOUS
  <1>8. new = [side EXCEPT ![x] = e]
    BY <1>2, <1>5, <1>6, <1>7 DEF SideArrays
  <1>9. e \in FullLevels(P) /\ e.valid = TRUE /\ e.price = p /\ e.quantity = d
    BY <1>3, <1>4, <1>7 DEF FullLevels
  <1>10. new \in SideArrays(P) /\ \A i \in Rows : new[i] = IF i = x THEN e ELSE side[i]
    BY <1>8, <1>9 DEF SideArrays
  <1>11. \A i \in Rows : (new[i].valid <=> side[i].valid) /\ new[i].price = side[i].price
    BY <1>3, <1>9, <1>10
  <1>12. OnePrice(new)
    BY <1>11 DEF OnePrice
  <1>13. ASSUME NEW v \in P
         PROVE  ShownAt(new, v) = ShownAt(side, v) + (IF v = p THEN q ELSE 0)
    <2>1. AtPrice(new, v) = AtPrice(side, v)
      BY <1>11 DEF AtPrice
    <2>2. CASE v = p
      <3>1. ShownAt(new, v) = d /\ ShownAt(side, v) = g
        BY <1>2, <1>5, <1>9, <1>10, <2>1, <2>2 DEF ShownAt
      <3>2. QED
        BY <1>6, <2>2, <3>1
    <2>3. CASE v # p
      <3>1. ShownAt(new, v) = ShownAt(side, v)
        <4>1. x \notin AtPrice(side, v) /\ x \notin AtPrice(new, v)
          BY <1>3, <1>9, <1>10, <2>3 DEF AtPrice
        <4>2. SameBut(side, new, x)
          BY <1>10 DEF SameBut
        <4>3. QED
          BY <1>2, <4>1, <4>2, OtherPrices
      <3>2. PICK k \in Nat : k = ShownAt(side, v)
        BY ShownIsNat
      <3>3. QED
        BY <2>3, <3>1, <3>2
    <2>4. QED
      BY <2>2, <2>3
  <1>14. QED
    BY <1>10, <1>12, <1>13


\* A level in a row that was not in use.
LEMMA PlaceLevel ==
  ASSUME NEW P, NEW side \in SideArrays(P), OnePrice(side), NEW p \in P, NEW q \in Nat \ {0},
         AtPrice(side, p) = {}, Unused(side) # {},
         NEW new, new = [side EXCEPT ![Min(Unused(side))] =
                           [price |-> p, quantity |-> q, valid |-> TRUE]]
  PROVE  /\ new \in SideArrays(P) /\ OnePrice(new)
         /\ \A v \in P : ShownAt(new, v) = ShownAt(side, v) + (IF v = p THEN q ELSE 0)
  <1>1. Unused(side) \subseteq Rows
    BY DEF Unused
  <1>2. PICK x \in Rows : x = Min(Unused(side)) /\ x \in Unused(side)
    BY <1>1, FirstRow
  <1>3. ~side[x].valid
    BY <1>2 DEF Unused
  <1>4. PICK e : e = [price |-> p, quantity |-> q, valid |-> TRUE]
    OBVIOUS
  <1>5. e \in FullLevels(P) /\ e.valid = TRUE /\ e.price = p /\ e.quantity = q
    BY <1>4 DEF FullLevels
  <1>6. new = [side EXCEPT ![x] = e]
    BY <1>2, <1>4
  <1>7. new \in SideArrays(P) /\ \A i \in Rows : new[i] = IF i = x THEN e ELSE side[i]
    BY <1>5, <1>6 DEF SideArrays
  <1>8. \A i \in Rows : side[i].valid => side[i].price # p
    BY DEF AtPrice
  <1>9. OnePrice(new)
    BY <1>5, <1>7, <1>8 DEF OnePrice
  <1>10. ASSUME NEW v \in P
         PROVE  ShownAt(new, v) = ShownAt(side, v) + (IF v = p THEN q ELSE 0)
    <2>1. CASE v = p
      <3>1. ShownAt(new, v) = q
        <4>1. x \in AtPrice(new, v) /\ new[x].quantity = q
          BY <1>5, <1>7, <2>1 DEF AtPrice
        <4>2. QED
          BY <1>9, <4>1, RowOfPrice
      <3>2. ShownAt(side, v) = 0
        BY <2>1 DEF ShownAt
      <3>3. QED
        BY <2>1, <3>1, <3>2
    <2>2. CASE v # p
      <3>1. ShownAt(new, v) = ShownAt(side, v)
        <4>1. x \notin AtPrice(side, v) /\ x \notin AtPrice(new, v)
          BY <1>3, <1>5, <1>7, <2>2 DEF AtPrice
        <4>2. SameBut(side, new, x)
          BY <1>7 DEF SameBut
        <4>3. QED
          BY <1>2, <4>1, <4>2, OtherPrices
      <3>2. PICK k \in Nat : k = ShownAt(side, v)
        BY ShownIsNat
      <3>3. QED
        BY <2>2, <3>1, <3>2
    <2>3. QED
      BY <2>1, <2>2
  <1>11. QED
    BY <1>7, <1>9, <1>10

\* What is left at a price after an execution, which takes all there is when
\* it is asked for more.
Less(shown, q) == IF shown <= q THEN 0 ELSE shown - q

\* Shares taken off a level, which is cleared with its last one.
LEMMA LowerLevel ==
  ASSUME NEW P, NEW side \in SideArrays(P), OnePrice(side), NEW p \in P, NEW q \in Nat,
         AtPrice(side, p) # {},
         NEW new, new = [side EXCEPT ![Min(AtPrice(side, p))] =
                           IF side[Min(AtPrice(side, p))].quantity - q <= 0 THEN NoLevel
                             ELSE [@ EXCEPT !.quantity =
                                     side[Min(AtPrice(side, p))].quantity - q]]
  PROVE  /\ new \in SideArrays(P) /\ OnePrice(new)
         /\ \A v \in P : ShownAt(new, v) =
              IF v = p THEN Less(ShownAt(side, v), q) ELSE ShownAt(side, v)
  <1>1. AtPrice(side, p) \subseteq Rows
    BY DEF AtPrice
  <1>2. PICK x \in Rows : x = Min(AtPrice(side, p)) /\ x \in AtPrice(side, p)
    BY <1>1, FirstRow
  <1>3. side[x].valid /\ side[x].price = p
    BY <1>2 DEF AtPrice
  <1>4. side[x] \in FullLevels(P)
    BY <1>3, RowCases
  <1>5. PICK g \in Nat \ {0} : g = side[x].quantity
    BY <1>4 DEF FullLevels
  <1>6. ShownAt(side, p) = g
    BY <1>2, <1>5 DEF ShownAt
  <1>7. /\ g - q \in Int /\ (g - q <= 0 <=> g <= q)
        /\ new = [side EXCEPT ![x] = IF g - q <= 0 THEN NoLevel
                                                  ELSE [side[x] EXCEPT !.quantity = g - q]]
    <2>1. g - q \in Int /\ (g - q <= 0 <=> g <= q)
      OBVIOUS
    <2>2. side[x].quantity = g
      BY <1>5
    <2>3. new = [side EXCEPT ![x] = IF side[x].quantity - q <= 0 THEN NoLevel
                                       ELSE [side[x] EXCEPT !.quantity = side[x].quantity - q]]
      BY <1>2, Zenon
    <2>4. QED
      BY <2>1, <2>2, <2>3
  <1>8. CASE g <= q
    <2>1. new = [side EXCEPT ![x] = NoLevel]
      BY <1>7, <1>8
    <2>2. new \in SideArrays(P) /\ \A i \in Rows : new[i] = IF i = x THEN NoLevel ELSE side[i]
      BY <2>1 DEF SideArrays
    <2>3. ~NoLevel.valid
      BY DEF NoLevel
    <2>4. OnePrice(new)
      BY <2>2, <2>3 DEF OnePrice
    <2>5. AtPrice(new, p) = {}
      <3>1. AtPrice(side, p) = {x}
        BY <1>2, RowOfPrice
      <3>2. \A i \in AtPrice(new, p) : i \in AtPrice(side, p) /\ i # x
        BY <2>2, <2>3 DEF AtPrice
      <3>3. QED
        BY <3>1, <3>2
    <2>6. ASSUME NEW v \in P, v # p PROVE ShownAt(new, v) = ShownAt(side, v)
      <3>1. x \notin AtPrice(side, v) /\ x \notin AtPrice(new, v)
        BY <1>3, <2>2, <2>3, <2>6 DEF AtPrice
      <3>2. SameBut(side, new, x)
        BY <2>2 DEF SameBut
      <3>3. QED
        BY <1>2, <3>1, <3>2, OtherPrices
    <2>7. ShownAt(new, p) = Less(ShownAt(side, p), q)
      BY <1>6, <1>8, <2>5 DEF ShownAt, Less
    <2>8. QED
      BY <2>2, <2>4, <2>6, <2>7
  <1>9. CASE ~(g <= q)
    <2>1. PICK d \in Nat \ {0} : d = g - q
      BY <1>9
    <2>2. PICK e : e = [side[x] EXCEPT !.quantity = d]
      OBVIOUS
    <2>3. ~(g - q <= 0)
      BY <1>9
    <2>4. new = [side EXCEPT ![x] = e]
      BY <1>7, <2>1, <2>2, <2>3
    <2>5. e \in FullLevels(P) /\ e.valid = TRUE /\ e.price = p /\ e.quantity = d
      BY <1>3, <1>4, <2>2 DEF FullLevels
    <2>6. new \in SideArrays(P) /\ \A i \in Rows : new[i] = IF i = x THEN e ELSE side[i]
      BY <2>4, <2>5 DEF SideArrays
    <2>7. OnePrice(new)
      BY <1>3, <2>5, <2>6 DEF OnePrice
    <2>8. ShownAt(new, p) = d
      <3>1. x \in AtPrice(new, p) /\ new[x].quantity = d
        BY <2>5, <2>6 DEF AtPrice
      <3>2. QED
        BY <2>7, <3>1, RowOfPrice
    <2>9. ASSUME NEW v \in P, v # p PROVE ShownAt(new, v) = ShownAt(side, v)
      <3>1. x \notin AtPrice(side, v) /\ x \notin AtPrice(new, v)
        BY <1>3, <2>5, <2>6, <2>9 DEF AtPrice
      <3>2. SameBut(side, new, x)
        BY <2>6 DEF SameBut
      <3>3. QED
        BY <1>2, <3>1, <3>2, OtherPrices
    <2>10. ShownAt(new, p) = Less(ShownAt(side, p), q)
      BY <1>6, <1>9, <2>1, <2>8 DEF Less
    <2>11. QED
      BY <2>6, <2>7, <2>9, <2>10
  <1>10. QED
    BY <1>8, <1>9

\* add: the shares appear at their price, unless the book counts a drop, which
\* it does only when the price has no level and no row is left.
LEMMA AddToBook ==
  ASSUME NEW P, NEW b \in Books(P), OnePriceBook(b), NEW bid \in BOOLEAN, NEW p \in P,
         NEW q \in Nat \ {0}, NEW new, new = AddTo(b, bid, p, q)
  PROVE  /\ new \in Books(P) /\ OnePriceBook(new)
         /\ new.overflow = b.overflow \/ new.overflow = b.overflow + 1
         /\ new.overflow # b.overflow => /\ AtPrice(b[SideOf(bid)], p) = {}
                                         /\ Unused(b[SideOf(bid)]) = {}
         /\ \A c \in BOOLEAN, v \in P :
              ShownAt(new[SideOf(c)], v) = ShownAt(b[SideOf(c)], v)
                + (IF c = bid /\ v = p /\ new.overflow = b.overflow THEN q ELSE 0)
  <1>1. PICK s \in {"bids", "asks"} : s = SideOf(bid)
    BY DEF SideOf
  <1>2. PICK side \in SideArrays(P) : side = b[s] /\ OnePrice(side)
    BY <1>1 DEF Books, OnePriceBook
  <1>3. \A c \in BOOLEAN : SideOf(c) \in {"bids", "asks"} /\ (SideOf(c) = s <=> c = bid)
    BY <1>1 DEF SideOf
  <1>4. PICK k \in Nat : k = b.overflow
    BY DEF Books
  <1>5. ASSUME NEW ns \in SideArrays(P), OnePrice(ns), new = [b EXCEPT ![s] = ns],
               \A v \in P : ShownAt(ns, v) = ShownAt(side, v) + (IF v = p THEN q ELSE 0)
        PROVE  /\ new \in Books(P) /\ OnePriceBook(new) /\ new.overflow = b.overflow
               /\ \A c \in BOOLEAN, v \in P :
                    ShownAt(new[SideOf(c)], v) = ShownAt(b[SideOf(c)], v)
                      + (IF c = bid /\ v = p THEN q ELSE 0)
    <2>1. /\ new \in Books(P) /\ new.overflow = b.overflow
          /\ \A z \in {"bids", "asks"} : new[z] = IF z = s THEN ns ELSE b[z]
      BY <1>1, <1>5 DEF Books
    <2>2. OnePriceBook(new)
      BY <1>1, <1>5, <2>1 DEF OnePriceBook
    <2>3. ASSUME NEW c \in BOOLEAN, NEW v \in P
          PROVE  ShownAt(new[SideOf(c)], v) = ShownAt(b[SideOf(c)], v)
                   + (IF c = bid /\ v = p THEN q ELSE 0)
      <3>1. CASE c = bid
        BY <1>2, <1>3, <1>5, <2>1, <3>1
      <3>2. CASE c # bid
        <4>1. new[SideOf(c)] = b[SideOf(c)]
          BY <1>3, <2>1, <3>2
        <4>2. b[SideOf(c)] \in SideArrays(P)
          BY <1>3 DEF Books
        <4>3. PICK g \in Nat : g = ShownAt(b[SideOf(c)], v)
          BY <4>2, ShownIsNat
        <4>4. QED
          BY <3>2, <4>1, <4>3
      <3>3. QED
        BY <3>1, <3>2
    <2>4. QED
      BY <2>1, <2>2, <2>3
  <1>6. CASE AtPrice(side, p) # {}
    <2>1. PICK ns : ns = [side EXCEPT ![Min(AtPrice(side, p))].quantity = @ + q]
      OBVIOUS
    <2>2. /\ ns \in SideArrays(P) /\ OnePrice(ns)
          /\ \A v \in P : ShownAt(ns, v) = ShownAt(side, v) + (IF v = p THEN q ELSE 0)
      BY <1>2, <1>6, <2>1, RaiseLevel
    <2>3. new = [b EXCEPT ![s] = ns]
      BY <1>1, <1>2, <1>6, <2>1 DEF AddTo
    <2>4. QED
      BY <1>1, <1>2, <1>5, <2>2, <2>3
  <1>7. CASE AtPrice(side, p) = {} /\ Unused(side) # {}
    <2>1. PICK ns : ns = [side EXCEPT ![Min(Unused(side))] =
                            [price |-> p, quantity |-> q, valid |-> TRUE]]
      OBVIOUS
    <2>2. /\ ns \in SideArrays(P) /\ OnePrice(ns)
          /\ \A v \in P : ShownAt(ns, v) = ShownAt(side, v) + (IF v = p THEN q ELSE 0)
      BY <1>2, <1>7, <2>1, PlaceLevel
    <2>3. new = [b EXCEPT ![s] = ns]
      BY <1>1, <1>2, <1>7, <2>1 DEF AddTo
    <2>4. QED
      BY <1>1, <1>2, <1>5, <2>2, <2>3
  <1>8. CASE AtPrice(side, p) = {} /\ Unused(side) = {}
    <2>1. new = [b EXCEPT !.overflow = k + 1]
      BY <1>1, <1>2, <1>4, <1>8 DEF AddTo
    <2>2. /\ new \in Books(P) /\ new.overflow = k + 1
          /\ new.bids = b.bids /\ new.asks = b.asks
      BY <2>1 DEF Books
    <2>3. k + 1 # k
      OBVIOUS
    <2>4. OnePriceBook(new)
      BY <2>2 DEF OnePriceBook
    <2>5. ASSUME NEW c \in BOOLEAN, NEW v \in P
          PROVE  ShownAt(new[SideOf(c)], v) = ShownAt(b[SideOf(c)], v) + 0
      <3>1. new[SideOf(c)] = b[SideOf(c)] /\ b[SideOf(c)] \in SideArrays(P)
        BY <1>3, <2>2 DEF Books
      <3>2. PICK g \in Nat : g = ShownAt(b[SideOf(c)], v)
        BY <3>1, ShownIsNat
      <3>3. QED
        BY <3>1, <3>2
    <2>6. QED
      BY <1>1, <1>2, <1>4, <1>8, <2>2, <2>3, <2>4, <2>5
  <1>9. QED
    BY <1>6, <1>7, <1>8

\* The book drops an add when its side has no row left and none of its price.
FullBut(side, p) == AtPrice(side, p) = {} /\ Unused(side) = {}

\* An add the book counts as dropped found its side full.
LEMMA DropsWhenFull ==
  ASSUME NEW P, NEW b \in Books(P), NEW c \in BOOLEAN, NEW p, NEW n,
         NEW x, x = AddTo(b, c, p, n), x.overflow # b.overflow
  PROVE  FullBut(b[SideOf(c)], p)
  <1>1. PICK s \in {"bids", "asks"} : s = SideOf(c)
    BY DEF SideOf
  <1>2. CASE AtPrice(b[s], p) # {}
    BY <1>1, <1>2 DEF AddTo, Books
  <1>3. CASE AtPrice(b[s], p) = {} /\ Unused(b[s]) # {}
    BY <1>1, <1>3 DEF AddTo, Books
  <1>4. QED
    BY <1>1, <1>2, <1>3 DEF FullBut

\* execute: the shares disappear from their price, all of them if there are
\* not as many.
LEMMA ExecuteInBook ==
  ASSUME NEW P, NEW b \in Books(P), OnePriceBook(b), NEW bid \in BOOLEAN, NEW p \in P,
         NEW q \in Nat, NEW new, new = ExecuteIn(b, bid, p, q)
  PROVE  /\ new \in Books(P) /\ OnePriceBook(new) /\ new.overflow = b.overflow
         /\ \A c \in BOOLEAN, v \in P :
              ShownAt(new[SideOf(c)], v) =
                IF c = bid /\ v = p THEN Less(ShownAt(b[SideOf(c)], v), q)
                                    ELSE ShownAt(b[SideOf(c)], v)
  <1>1. PICK s \in {"bids", "asks"} : s = SideOf(bid)
    BY DEF SideOf
  <1>2. PICK side \in SideArrays(P) : side = b[s] /\ OnePrice(side)
    BY <1>1 DEF Books, OnePriceBook
  <1>3. \A c \in BOOLEAN : SideOf(c) \in {"bids", "asks"} /\ (SideOf(c) = s <=> c = bid)
    BY <1>1 DEF SideOf
  <1>4. CASE AtPrice(side, p) = {}
    <2>1. new = b
      BY <1>1, <1>2, <1>4 DEF ExecuteIn
    <2>2. ShownAt(side, p) = 0 /\ Less(0, q) = 0
      BY <1>4 DEF ShownAt, Less
    <2>3. QED
      BY <1>1, <1>2, <2>1, <2>2
  <1>5. CASE AtPrice(side, p) # {}
    <2>1. PICK ns : ns = [side EXCEPT ![Min(AtPrice(side, p))] =
                            IF side[Min(AtPrice(side, p))].quantity - q <= 0 THEN NoLevel
                              ELSE [@ EXCEPT !.quantity =
                                      side[Min(AtPrice(side, p))].quantity - q]]
      OBVIOUS
    <2>2. /\ ns \in SideArrays(P) /\ OnePrice(ns)
          /\ \A v \in P : ShownAt(ns, v) =
               IF v = p THEN Less(ShownAt(side, v), q) ELSE ShownAt(side, v)
      BY <1>2, <1>5, <2>1, LowerLevel
    <2>3. new = [b EXCEPT ![s] = ns]
      BY <1>1, <1>2, <1>5, <2>1 DEF ExecuteIn
    <2>4. /\ new \in Books(P) /\ new.overflow = b.overflow
          /\ \A z \in {"bids", "asks"} : new[z] = IF z = s THEN ns ELSE b[z]
      BY <1>1, <2>2, <2>3 DEF Books
    <2>5. OnePriceBook(new)
      BY <1>1, <2>2, <2>4 DEF OnePriceBook
    <2>6. ASSUME NEW c \in BOOLEAN, NEW v \in P
          PROVE  ShownAt(new[SideOf(c)], v) =
                   IF c = bid /\ v = p THEN Less(ShownAt(b[SideOf(c)], v), q)
                                       ELSE ShownAt(b[SideOf(c)], v)
      <3>1. CASE c = bid
        BY <1>2, <1>3, <2>2, <2>4, <3>1
      <3>2. CASE c # bid
        BY <1>3, <2>4, <3>2
      <3>3. QED
        BY <3>1, <3>2
    <2>7. QED
      BY <2>4, <2>5, <2>6
  <1>6. QED
    BY <1>4, <1>5

(***************************************************************************)
(* The book stage: both structures well formed, and the shares the book    *)
(* shows backed by the orders in the table.                                *)
(***************************************************************************)
WellFormed(t, b, R, P, m) ==
  t \in Tables(R, P, m) /\ LiveOnce(t) /\ b \in Books(P) /\ OnePriceBook(b)

\* The book shows no more than the orders hold, and no less while nothing has
\* been dropped.
Backed(t, b, P) ==
  \A c \in BOOLEAN, v \in P :
    /\ ShownAt(b[SideOf(c)], v) <= SharesAt(t, c, v)
    /\ b.overflow = 0 => ShownAt(b[SideOf(c)], v) = SharesAt(t, c, v)

\* The events of a feed: what their type makes the stage read is well formed.
WellFormedEvent(e, R, P, m) ==
  /\ e.type \in Adds => e.reference \in R /\ e.bid \in BOOLEAN
  /\ e.type \in Reductions => e.shares \in Nat
  /\ e.type = "U" => e.newReference \in R
  /\ e.type \in Adds \cup {"U"} => e.price \in P /\ e.shares \in 1 .. m

\* The shares of the resting orders at a price are a natural number.
LEMMA SharesAreNat ==
  ASSUME NEW R, NEW P, NEW m \in Nat, NEW t \in Tables(R, P, m), NEW c, NEW v
  PROVE  SharesAt(t, c, v) \in Nat
  <1>1. Counts(t)
    BY TableCounts
  <1>2. RestingIn(t, c, v) \in SUBSET Slots
    BY DEF RestingIn
  <1>3. QED
    BY <1>1, <1>2, HeldFacts DEF SharesAt

\* An order goes into the table and its shares into the book.
LEMMA AddKeeps ==
  ASSUME NEW R, NEW P, NEW m \in Nat, NEW t, NEW b, WellFormed(t, b, R, P, m),
         NEW r \in R, NEW bid \in BOOLEAN, NEW p \in P, NEW q \in 1 .. m,
         NEW u, u = Insert(t, r, bid, p, q), NEW d, d = AddTo(b, bid, p, q)
  PROVE  /\ WellFormed(u, d, R, P, m)
         /\ InsertOk(t, r) /\ Backed(t, b, P) => Backed(u, d, P)
  <1>1. t \in Tables(R, P, m) /\ LiveOnce(t) /\ b \in Books(P) /\ OnePriceBook(b)
    BY DEF WellFormed
  <1>2. q \in Nat \ {0}
    OBVIOUS
  <1>3. /\ d \in Books(P) /\ OnePriceBook(d)
        /\ d.overflow = b.overflow \/ d.overflow = b.overflow + 1
        /\ \A c \in BOOLEAN, v \in P :
             ShownAt(d[SideOf(c)], v) = ShownAt(b[SideOf(c)], v)
               + (IF c = bid /\ v = p /\ d.overflow = b.overflow THEN q ELSE 0)
    BY <1>1, <1>2, AddToBook
  <1>4. CASE ~InsertOk(t, r)
    <2>1. u = t
      BY <1>4 DEF Insert
    <2>2. QED
      BY <1>1, <1>3, <1>4, <2>1 DEF WellFormed
  <1>5. CASE InsertOk(t, r)
    <2>1. /\ u \in Tables(R, P, m) /\ LiveOnce(u)
          /\ \A c \in BOOLEAN, v \in P :
               SharesAt(u, c, v) = SharesAt(t, c, v) + (IF c = bid /\ v = p THEN q ELSE 0)
      BY <1>1, <1>5, InsertShares
    <2>2. ASSUME Backed(t, b, P), NEW c \in BOOLEAN, NEW v \in P
          PROVE  /\ ShownAt(d[SideOf(c)], v) <= SharesAt(u, c, v)
                 /\ d.overflow = 0 => ShownAt(d[SideOf(c)], v) = SharesAt(u, c, v)
      <3>1. PICK f \in Nat, g \in Nat : f = ShownAt(b[SideOf(c)], v) /\ g = SharesAt(t, c, v)
        <4>1. b[SideOf(c)] \in SideArrays(P)
          BY <1>1 DEF Books, SideOf
        <4>2. QED
          BY <1>1, <4>1, ShownIsNat, SharesAreNat
      <3>2. f <= g /\ (b.overflow = 0 => f = g)
        BY <2>2, <3>1 DEF Backed
      <3>3. PICK k \in Nat : k = b.overflow
        BY <1>1 DEF Books
      <3>4. PICK l \in {0, q}, n \in {0, q} :
              /\ ShownAt(d[SideOf(c)], v) = f + l /\ SharesAt(u, c, v) = g + n
              /\ l <= n /\ (d.overflow = b.overflow => l = n)
        <4>1. CASE c = bid /\ v = p /\ d.overflow = b.overflow
          BY <1>2, <1>3, <2>1, <3>1, <4>1
        <4>2. CASE c = bid /\ v = p /\ d.overflow # b.overflow
          BY <1>2, <1>3, <2>1, <3>1, <4>2
        <4>3. CASE ~(c = bid /\ v = p)
          BY <1>2, <1>3, <2>1, <3>1, <4>3
        <4>4. QED
          BY <4>1, <4>2, <4>3
      <3>5. f + l <= g + n
        BY <1>2, <3>2, <3>4
      <3>6. d.overflow = 0 => f + l = g + n
        <4>1. d.overflow = 0 => k = 0 /\ d.overflow = b.overflow
          BY <1>3, <3>3
        <4>2. QED
          BY <3>2, <3>3, <3>4, <4>1
      <3>7. QED
        BY <3>4, <3>5, <3>6
    <2>3. QED
      BY <1>3, <2>1, <2>2 DEF WellFormed, Backed
  <1>6. QED
    BY <1>4, <1>5

\* An order is reduced in the table and what it really gave up is taken off
\* the book.
LEMMA ReduceKeeps ==
  ASSUME NEW R, NEW P, NEW m \in Nat, NEW t, NEW b, WellFormed(t, b, R, P, m),
         NEW r, Known(t, r), NEW n \in Nat, NEW u, u = Reduce(t, r, n),
         NEW o, o = Entry(t, r), NEW d, d = ExecuteIn(b, o.bid, o.price, Applied(t, r, n))
  PROVE  /\ WellFormed(u, d, R, P, m) /\ o.bid \in BOOLEAN
         /\ d.overflow = b.overflow
         /\ Backed(t, b, P) => Backed(u, d, P)
  <1>1. t \in Tables(R, P, m) /\ LiveOnce(t) /\ b \in Books(P) /\ OnePriceBook(b)
    BY DEF WellFormed
  <1>2. PICK a : a = Applied(t, r, n)
    OBVIOUS
  <1>3. /\ u \in Tables(R, P, m) /\ LiveOnce(u)
        /\ o.bid \in BOOLEAN /\ o.price \in P /\ a \in Nat
        /\ a <= SharesAt(t, o.bid, o.price)
        /\ \A c \in BOOLEAN, v \in P :
             SharesAt(u, c, v) = SharesAt(t, c, v)
                                   - (IF c = o.bid /\ v = o.price THEN a ELSE 0)
    BY <1>1, <1>2, ReduceShares
  <1>4. PICK bid \in BOOLEAN, p \in P : bid = o.bid /\ p = o.price
    BY <1>3
  <1>5. /\ d \in Books(P) /\ OnePriceBook(d) /\ d.overflow = b.overflow
        /\ \A c \in BOOLEAN, v \in P :
             ShownAt(d[SideOf(c)], v) =
               IF c = bid /\ v = p THEN Less(ShownAt(b[SideOf(c)], v), a)
                                   ELSE ShownAt(b[SideOf(c)], v)
    <2>1. d = ExecuteIn(b, bid, p, a)
      BY <1>2, <1>4
    <2>2. QED
      BY <1>1, <1>3, <1>4, <2>1, ExecuteInBook
  <1>6. ASSUME Backed(t, b, P), NEW c \in BOOLEAN, NEW v \in P
        PROVE  /\ ShownAt(d[SideOf(c)], v) <= SharesAt(u, c, v)
               /\ d.overflow = 0 => ShownAt(d[SideOf(c)], v) = SharesAt(u, c, v)
    <2>1. PICK f \in Nat, g \in Nat : f = ShownAt(b[SideOf(c)], v) /\ g = SharesAt(t, c, v)
      <3>1. b[SideOf(c)] \in SideArrays(P)
        BY <1>1 DEF Books, SideOf
      <3>2. QED
        BY <1>1, <3>1, ShownIsNat, SharesAreNat
    <2>2. f <= g /\ (b.overflow = 0 => f = g)
      BY <1>6, <2>1 DEF Backed
    <2>3. CASE c = bid /\ v = p
      <3>1. ShownAt(d[SideOf(c)], v) = Less(f, a) /\ SharesAt(u, c, v) = g - a /\ a <= g
        BY <1>3, <1>4, <1>5, <2>1, <2>3
      <3>2. Less(f, a) <= g - a /\ (f = g => Less(f, a) = g - a)
        BY <1>3, <2>1, <2>2, <3>1 DEF Less
      <3>3. QED
        BY <1>5, <2>2, <3>1, <3>2
    <2>4. CASE ~(c = bid /\ v = p)
      <3>1. ShownAt(d[SideOf(c)], v) = f /\ SharesAt(u, c, v) = g - 0
        BY <1>3, <1>4, <1>5, <2>1, <2>4
      <3>2. g - 0 = g
        BY <2>1
      <3>3. QED
        BY <1>5, <2>2, <3>1, <3>2
    <2>5. QED
      BY <2>3, <2>4
  <1>7. QED
    BY <1>3, <1>5, <1>6 DEF WellFormed, Backed

\* apply_to_book keeps both structures well formed, and the book backed
\* unless it reports a failure.
LEMMA ApplyKeeps ==
  ASSUME NEW R, NEW P, NEW m \in Nat, WellFormed(entries, book, R, P, m),
         NEW e, WellFormedEvent(e, R, P, m), apply_to_book(e)
  PROVE  /\ WellFormed(entries', book', R, P, m)
         /\ Backed(entries, book, P) /\ ~ApplyFails(e) => Backed(entries', book', P)
  <1>1. CASE ApplyAdd(e)
    <2>1. /\ e.type \in Adds /\ e.reference \in R /\ e.bid \in BOOLEAN
          /\ e.price \in P /\ e.shares \in 1 .. m
          /\ entries' = Insert(entries, e.reference, e.bid, e.price, e.shares)
          /\ book' = AddTo(book, e.bid, e.price, e.shares)
      BY <1>1 DEF ApplyAdd, WellFormedEvent
    <2>2. ~ApplyFails(e) => InsertOk(entries, e.reference)
      BY <2>1 DEF ApplyFails
    <2>3. QED
      BY <2>1, <2>2, AddKeeps
  <1>2. ASSUME e.type \in Reductions \cup Removals, Known(entries, e.reference),
               NEW d, d = ReducedBook(e), NEW u, u = ReducedTable(e)
        PROVE  /\ WellFormed(u, d, R, P, m)
               /\ Entry(entries, e.reference).bid \in BOOLEAN
               /\ Backed(entries, book, P) => Backed(u, d, P)
    <2>1. PICK n \in Nat : n = Taken(e)
      BY <1>2, IntMaxAssumption DEF Taken, WellFormedEvent
    <2>2. PICK o : o = Entry(entries, e.reference)
      OBVIOUS
    <2>3. u = Reduce(entries, e.reference, n)
      BY <1>2, <2>1 DEF ReducedTable
    <2>4. d = ExecuteIn(book, o.bid, o.price, Applied(entries, e.reference, n))
      BY <1>2, <2>1, <2>2 DEF ReducedBook
    <2>5. QED
      BY <1>2, <2>1, <2>2, <2>3, <2>4, ReduceKeeps
  <1>3. CASE ApplyReduction(e)
    <2>1. /\ e.type \in Reductions \cup Removals /\ Known(entries, e.reference)
          /\ entries' = ReducedTable(e) /\ book' = ReducedBook(e)
      BY <1>3 DEF ApplyReduction, Removals
    <2>2. QED
      BY <1>2, <2>1
  <1>4. CASE ApplyReplace(e)
    <2>1. PICK d, u : d = ReducedBook(e) /\ u = ReducedTable(e)
      OBVIOUS
    <2>2. PICK bid : bid = Entry(entries, e.reference).bid
      OBVIOUS
    <2>3. /\ e.type = "U" /\ Known(entries, e.reference)
          /\ entries' = Insert(u, e.newReference, bid, e.price, e.shares)
          /\ book' = AddTo(d, bid, e.price, e.shares)
      BY <1>4, <2>1, <2>2 DEF ApplyReplace
    <2>4. e.newReference \in R /\ e.price \in P /\ e.shares \in 1 .. m
      BY <2>3 DEF WellFormedEvent
    <2>5. WellFormed(u, d, R, P, m) /\ bid \in BOOLEAN
          /\ (Backed(entries, book, P) => Backed(u, d, P))
      BY <1>2, <2>1, <2>2, <2>3 DEF Removals
    <2>6. ~ApplyFails(e) => InsertOk(u, e.newReference)
      BY <2>1, <2>3 DEF ApplyFails
    <2>7. /\ WellFormed(entries', book', R, P, m)
          /\ InsertOk(u, e.newReference) /\ Backed(u, d, P) => Backed(entries', book', P)
      BY <2>3, <2>4, <2>5, AddKeeps
    <2>8. QED
      BY <2>5, <2>6, <2>7
  <1>5. CASE ApplyNothing(e)
    BY <1>5 DEF ApplyNothing
  <1>6. QED
    BY <1>1, <1>3, <1>4, <1>5 DEF apply_to_book

(***************************************************************************)
(* What the properties need of a well-formed, backed book.                 *)
(***************************************************************************)
\* Orders rest at a price exactly if they hold shares there.
LEMMA RestingHolds ==
  ASSUME NEW R, NEW P, NEW m \in Nat, NEW t \in Tables(R, P, m), NEW c, NEW v
  PROVE  RestingIn(t, c, v) # {} <=> SharesAt(t, c, v) # 0
  <1> DEFINE S == RestingIn(t, c, v)
  <1>1. Counts(t)
    BY TableCounts
  <1>2. S \in SUBSET Slots
    BY DEF RestingIn
  <1>3. CASE S = {}
    BY <1>1, <1>3, HeldFacts DEF SharesAt
  <1>4. CASE S # {}
    <2>1. PICK x \in Slots : x \in S
      BY <1>2, <1>4
    <2>2. t[x].live
      BY <2>1 DEF RestingIn
    <2>3. PICK g \in Nat \ {0} : g = t[x].remaining
      BY <2>1, <2>2, SlotCases
    <2>4. PICK k \in Nat : k = SharesIn(t, S \ {x})
      BY <1>1, <1>2, HeldFacts
    <2>5. SharesIn(t, S) = g + k
      BY <1>1, <1>2, <2>1, <2>3, <2>4, HeldFacts
    <2>6. g + k # 0
      OBVIOUS
    <2>7. QED
      BY <1>4, <2>5, <2>6 DEF SharesAt
  <1>5. QED
    BY <1>3, <1>4

\* No price holds more than a table full of the largest orders.
LEMMA SharesBound ==
  ASSUME NEW R, NEW P, NEW m \in Nat, NEW t \in Tables(R, P, m), NEW c, NEW v
  PROVE  SharesAt(t, c, v) <= Capacity * m
  <1>1. RestingIn(t, c, v) \in SUBSET Slots
    BY DEF RestingIn
  <1>2. \A i \in Slots : t[i].remaining \in 0 .. m
    BY SlotCases
  <1>3. QED
    BY <1>1, <1>2, HeldBound DEF SharesAt

\* Every level shows at least one share, and no more than the orders hold.
LEMMA LevelBacked ==
  ASSUME NEW R, NEW P, NEW m \in Nat, NEW t, NEW b, WellFormed(t, b, R, P, m),
         Backed(t, b, P), NEW c \in BOOLEAN, NEW i \in Rows,
         NEW level, level = b[SideOf(c)][i], level.valid
  PROVE  level.quantity \in 1 .. SharesAt(t, c, level.price)
  <1>1. PICK side \in SideArrays(P) : side = b[SideOf(c)] /\ OnePrice(side)
    BY DEF WellFormed, Books, OnePriceBook, SideOf
  <1>2. level = side[i]
    BY <1>1
  <1>3. level.price \in P /\ level.quantity \in Nat \ {0}
    BY <1>2, RowCases
  <1>4. i \in AtPrice(side, level.price)
    BY <1>2 DEF AtPrice
  <1>5. ShownAt(side, level.price) = level.quantity
    BY <1>1, <1>2, <1>4, RowOfPrice
  <1>6. level.quantity <= SharesAt(t, c, level.price)
    BY <1>1, <1>3, <1>5 DEF Backed
  <1>7. PICK g \in Nat, k \in Nat : g = level.quantity /\ k = SharesAt(t, c, level.price)
    BY <1>3, SharesAreNat DEF WellFormed
  <1>8. QED
    BY <1>3, <1>6, <1>7

\* The scans of the two sides return an occupied level with the highest bid
\* and the lowest ask.
LEMMA BestRows ==
  ASSUME NEW P, P \subseteq 0 .. IntMax, NEW b \in Books(P)
  PROVE  /\ Occupied(b.bids) = {} => best_bid(b) = NoLevel
         /\ Occupied(b.asks) = {} => best_ask(b) = NoLevel
         /\ Occupied(b.bids) # {} =>
              \E x \in Occupied(b.bids) :
                /\ best_bid(b) = b.bids[x]
                /\ \A j \in Occupied(b.bids) : b.bids[j].price <= b.bids[x].price
         /\ Occupied(b.asks) # {} =>
              \E x \in Occupied(b.asks) :
                /\ best_ask(b) = b.asks[x]
                /\ \A j \in Occupied(b.asks) : b.asks[j].price >= b.asks[x].price
  <1>1. b.bids \in SideArrays(P) /\ b.asks \in SideArrays(P)
    BY DEF Books
  <1>2. \A side \in SideArrays(P) : \A i \in Occupied(side) : side[i].price \in 0 .. IntMax
    <2> SUFFICES ASSUME NEW side \in SideArrays(P), NEW i \in Occupied(side)
                 PROVE  side[i].price \in 0 .. IntMax
      OBVIOUS
    <2>1. i \in Rows /\ side[i].valid
      BY DEF Occupied, Unused
    <2>2. QED
      BY <2>1, RowCases
  <1>3. ASSUME Occupied(b.bids) # {}
        PROVE  \E x \in Occupied(b.bids) :
                 /\ best_bid(b) = b.bids[x]
                 /\ \A j \in Occupied(b.bids) : b.bids[j].price <= b.bids[x].price
    <2> DEFINE S == {b.bids[i].price : i \in Occupied(b.bids)}
               T == {i \in Occupied(b.bids) :
                       \A j \in Occupied(b.bids) : b.bids[j].price <= b.bids[i].price}
    <2>1. S \subseteq 0 .. IntMax /\ S # {}
      BY <1>1, <1>2, <1>3
    <2>2. Max(S) \in S /\ \A y \in S : y <= Max(S)
      BY <2>1, IntMaxAssumption, MaxOfNats
    <2>3. T # {}
      BY <2>2
    <2>4. T \subseteq Rows
      BY DEF Occupied
    <2>5. Min(T) \in T
      BY <2>3, <2>4, FirstRow
    <2>6. best_bid(b) = b.bids[Min(T)]
      BY <1>3 DEF best_bid
    <2>7. QED
      BY <2>5, <2>6
  <1>4. ASSUME Occupied(b.asks) # {}
        PROVE  \E x \in Occupied(b.asks) :
                 /\ best_ask(b) = b.asks[x]
                 /\ \A j \in Occupied(b.asks) : b.asks[j].price >= b.asks[x].price
    <2> DEFINE S == {b.asks[i].price : i \in Occupied(b.asks)}
               T == {i \in Occupied(b.asks) :
                       \A j \in Occupied(b.asks) : b.asks[j].price >= b.asks[i].price}
    <2>1. S \subseteq Nat /\ S # {}
      BY <1>1, <1>2, <1>4
    <2>2. Min(S) \in S /\ \A y \in S : Min(S) <= y
      BY <2>1, MinOfNats
    <2>3. PICK x \in Occupied(b.asks) : b.asks[x].price = Min(S)
      BY <2>2
    <2>4. \A j \in Occupied(b.asks) : b.asks[j].price >= b.asks[x].price
      <3> SUFFICES ASSUME NEW j \in Occupied(b.asks)
                   PROVE  b.asks[j].price >= b.asks[x].price
        OBVIOUS
      <3>1. b.asks[x].price <= b.asks[j].price
        BY <2>2, <2>3
      <3>2. b.asks[x].price \in 0 .. IntMax /\ b.asks[j].price \in 0 .. IntMax
        BY <1>1, <1>2
      <3>3. QED
        BY <3>1, <3>2
    <2>5. T # {} /\ T \subseteq Rows
      BY <2>4 DEF Occupied
    <2>6. Min(T) \in T
      BY <2>5, FirstRow
    <2>7. best_ask(b) = b.asks[Min(T)]
      BY <1>4 DEF best_ask
    <2>8. QED
      BY <2>6, <2>7
  <1>5. QED
    BY <1>3, <1>4 DEF best_bid, best_ask

\* An empty table and an empty book agree.
LEMMA EmptyStage ==
  ASSUME NEW R, NEW P, NEW m \in Nat
  PROVE  /\ WellFormed([i \in Slots |-> NoEntry], EmptyBook, R, P, m)
         /\ Backed([i \in Slots |-> NoEntry], EmptyBook, P)
         /\ BestQuote(EmptyBook) = EmptyQuote
  <1> DEFINE t == [i \in Slots |-> NoEntry]
  <1>1. t \in Tables(R, P, m) /\ \A i \in Slots : ~t[i].live
    BY DEF Tables, NoEntry
  <1>2. LiveOnce(t)
    BY <1>1 DEF LiveOnce
  <1>3. EmptySide \in SideArrays(P) /\ \A i \in Rows : ~EmptySide[i].valid
    BY DEF EmptySide, SideArrays, NoLevel
  <1>4. /\ EmptyBook \in Books(P) /\ EmptyBook.bids = EmptySide
        /\ EmptyBook.asks = EmptySide
    BY <1>3 DEF EmptyBook, Books
  <1>5. OnePriceBook(EmptyBook)
    BY <1>3, <1>4 DEF OnePriceBook, OnePrice
  <1>6. \A c \in BOOLEAN, v \in P :
          ShownAt(EmptyBook[SideOf(c)], v) = 0 /\ SharesAt(t, c, v) = 0
    <2> SUFFICES ASSUME NEW c \in BOOLEAN, NEW v \in P
                 PROVE  ShownAt(EmptyBook[SideOf(c)], v) = 0 /\ SharesAt(t, c, v) = 0
      OBVIOUS
    <2>1. EmptyBook[SideOf(c)] = EmptySide
      BY <1>4 DEF SideOf
    <2>2. AtPrice(EmptySide, v) = {}
      BY <1>3 DEF AtPrice
    <2>3. RestingIn(t, c, v) = {}
      BY <1>1 DEF RestingIn
    <2>4. SharesAt(t, c, v) = 0
      BY <1>1, <2>3, RestingHolds
    <2>5. QED
      BY <2>1, <2>2, <2>4 DEF ShownAt
  <1>7. Occupied(EmptySide) = {}
    BY <1>3 DEF Occupied, Unused
  <1>8. BestQuote(EmptyBook) = EmptyQuote
    BY <1>4, <1>7 DEF BestQuote, best_bid, best_ask, NoLevel, EmptyQuote, Quote
  <1> HIDE DEF t
  <1>9. Backed(t, EmptyBook, P)
    BY <1>6 DEF Backed
  <1>10. QED
    BY <1>1, <1>2, <1>4, <1>5, <1>8, <1>9 DEF WellFormed, t

(***************************************************************************)
(* Orders kept in a map from their references, as the replay tool and the  *)
(* untimed specification of the pipeline keep them: the shares of some of  *)
(* them, and where the table has one of them.                              *)
(***************************************************************************)
\* The shares of the orders of q with references in S.
Asked(q, S) == MapThenSumSet(LAMBDA r : q[r].shares, S)

\* The shares of some orders, as weights.
Weights(q, S) == [r \in S |-> q[r].shares]

\* The sum over orders is the fold the definition says.
LEMMA AskedIsSum ==
  ASSUME NEW q, NEW S, IsFiniteSet(S), Weights(q, S) \in [S -> Nat],
         NEW sum, Sums(sum, Weights(q, S), S), NEW T \in SUBSET S
  PROVE  Asked(q, T) = sum[T]
  <1> DEFINE Q(h) == h = [s \in SUBSET T |->
                            IF s = {} THEN 0
                              ELSE q[CHOOSE x \in s : TRUE].shares
                                     + h[s \ {CHOOSE x \in s : TRUE}]]
             e == [s \in SUBSET T |-> sum[s]]
  <1>1. Asked(q, T) = (CHOOSE h : Q(h))[T]
    BY Zenon DEF Asked, MapThenSumSet, MapThenFoldSet
  <1>2. \A s \in SUBSET T : s # {} =>
          /\ (CHOOSE x \in s : TRUE) \in s
          /\ q[CHOOSE x \in s : TRUE].shares = Weights(q, S)[CHOOSE x \in s : TRUE]
    BY DEF Weights
  <1>3. Q(e)
    <2>1. ASSUME NEW s \in SUBSET T, s # {}, NEW x, x = CHOOSE y \in s : TRUE
          PROVE  e[s] = q[x].shares + e[s \ {x}]
      <3>1. x \in s /\ q[x].shares = Weights(q, S)[x]
        BY <1>2, <2>1
      <3>2. sum[s] = Weights(q, S)[x] + sum[s \ {x}]
        BY <3>1 DEF Sums
      <3>3. QED
        BY <3>1, <3>2
    <2>2. \A s \in SUBSET T : s # {} =>
            e[s] = q[CHOOSE x \in s : TRUE].shares + e[s \ {CHOOSE x \in s : TRUE}]
      <3> HIDE DEF e
      <3> QED
        BY <2>1
    <2>3. e[{}] = 0
      BY DEF Sums
    <2>4. e = [s \in SUBSET T |-> e[s]]
      OBVIOUS
    <2> HIDE DEF e
    <2>5. QED
      BY <2>2, <2>3, <2>4
  <1>4. PICK h : Q(h) /\ h = CHOOSE g : Q(g)
    <2> HIDE DEF Q
    <2> QED
      BY <1>3
  <1>5. FoldOf(h, Weights(q, S), T)
    BY <1>2, <1>4 DEF FoldOf
  <1>6. h[T] = sum[T]
    BY <1>5, FoldIsSum
  <1>7. QED
    <2> HIDE DEF Q
    <2> QED
      BY <1>1, <1>4, <1>6

\* No orders ask for nothing, and one order more adds its shares.
LEMMA AskedFacts ==
  ASSUME NEW q, NEW S, IsFiniteSet(S), \A r \in S : q[r].shares \in Nat
  PROVE  /\ Asked(q, {}) = 0 /\ Asked(q, S) \in Nat
         /\ \A x \in S : Asked(q, S) = q[x].shares + Asked(q, S \ {x})
                         /\ Asked(q, S \ {x}) \in Nat
  <1>1. Weights(q, S) \in [S -> Nat]
    BY DEF Weights
  <1>2. PICK sum : Sums(sum, Weights(q, S), S)
    BY <1>1, SumsExist
  <1>3. \A T \in SUBSET S : Asked(q, T) = sum[T] /\ sum[T] \in Nat
    <2>1. \A T \in SUBSET S : Asked(q, T) = sum[T]
      BY <1>1, <1>2, AskedIsSum
    <2>2. sum \in [SUBSET S -> Nat]
      BY <1>2 DEF Sums
    <2>3. QED
      BY <2>1, <2>2
  <1>4. Asked(q, {}) = 0
    BY <1>2, <1>3 DEF Sums
  <1>5. ASSUME NEW x \in S
        PROVE  Asked(q, S) = q[x].shares + Asked(q, S \ {x}) /\ Asked(q, S \ {x}) \in Nat
    <2>1. sum[S] = Weights(q, S)[x] + sum[S \ {x}]
      BY <1>2 DEF Sums
    <2>2. QED
      BY <1>3, <2>1 DEF Weights
  <1>6. QED
    BY <1>3, <1>4, <1>5

\* Orders that two maps have in common ask for the same in both.
LEMMA AskedSame ==
  ASSUME NEW q, NEW w, NEW S, IsFiniteSet(S), \A r \in S : q[r].shares \in Nat,
         \A r \in S : q[r].shares = w[r].shares
  PROVE  Asked(q, S) = Asked(w, S)
  <1>1. Weights(q, S) \in [S -> Nat] /\ Weights(w, S) = Weights(q, S)
    BY DEF Weights
  <1>2. PICK sum : Sums(sum, Weights(q, S), S)
    BY <1>1, SumsExist
  <1>3. Asked(q, S) = sum[S] /\ Asked(w, S) = sum[S]
    BY <1>1, <1>2, AskedIsSum
  <1>4. QED
    BY <1>3

\* The table has the order o under the reference k.
EntryIs(t, k, o) == LET e == Entry(t, k) IN
                    e.bid = o.bid /\ e.price = o.price /\ e.remaining = o.shares

\* A slot that changes leaves the orders with other references alone.
LEMMA OtherEntries ==
  ASSUME NEW t, NEW u, NEW x \in Slots, \A i \in Slots \ {x} : u[i] = t[i],
         NEW k, x \notin Holding(t, k), x \notin Holding(u, k)
  PROVE  (Known(u, k) <=> Known(t, k)) /\ (Known(t, k) => Entry(u, k) = Entry(t, k))
  <1>1. Holding(u, k) = Holding(t, k)
    BY DEF Holding
  <1>2. ASSUME Known(t, k) PROVE Min(Holding(t, k)) \in Slots \ {x}
    <2>1. Holding(t, k) # {} /\ Holding(t, k) \subseteq Nat
      BY <1>2, CapacityAssumption DEF Known, Holding, Slots
    <2>2. Min(Holding(t, k)) \in Holding(t, k)
      BY <2>1, MinOfNats
    <2>3. QED
      BY <2>2 DEF Holding
  <1>3. QED
    BY <1>1, <1>2 DEF Known, Entry

\* A slot that holds the only order with a reference is where it is found.
LEMMA OnlyEntry ==
  ASSUME NEW u, NEW x \in Slots, NEW k, Holding(u, k) = {x}
  PROVE  Known(u, k) /\ Entry(u, k) = u[x]
  <1>1. Min({x}) \in {x}
    BY CapacityAssumption, MinOfNats DEF Slots
  <1>2. QED
    BY <1>1 DEF Known, Entry

\* insert: the new order is known, the others as before.
LEMMA InsertEntries ==
  ASSUME NEW R, NEW P, NEW m \in Nat, NEW t \in Tables(R, P, m), NEW r, InsertOk(t, r),
         NEW b, NEW p, NEW n, NEW u, u = Insert(t, r, b, p, n)
  PROVE  /\ Known(u, r) /\ EntryIs(u, r, [bid |-> b, price |-> p, shares |-> n])
         /\ \A k : k # r => /\ Known(u, k) <=> Known(t, k)
                            /\ Known(t, k) => Entry(u, k) = Entry(t, k)
  <1>1. PICK e : e = [reference |-> r, price |-> p, remaining |-> n, bid |-> b, live |-> TRUE]
    OBVIOUS
  <1>2. PICK x \in Slots : /\ x = Min(Vacant(t)) /\ ~t[x].live
                           /\ \A i \in Slots : t[i].live => t[i].reference # r
    BY FreeSlot
  <1>3. \A i \in Slots : u[i] = IF i = x THEN e ELSE t[i]
    <2>1. u = [t EXCEPT ![x] = e]
      BY <1>1, <1>2 DEF Insert
    <2>2. QED
      BY <2>1 DEF Tables
  <1>4. e.live = TRUE /\ e.reference = r /\ e.bid = b /\ e.price = p /\ e.remaining = n
    BY <1>1
  <1>5. Holding(u, r) = {x}
    BY <1>2, <1>3, <1>4 DEF Holding
  <1>6. Known(u, r) /\ Entry(u, r) = e
    BY <1>3, <1>5, OnlyEntry
  <1>7. ASSUME NEW k, k # r
        PROVE  /\ Known(u, k) <=> Known(t, k)
               /\ Known(t, k) => Entry(u, k) = Entry(t, k)
    <2>1. x \notin Holding(t, k) /\ x \notin Holding(u, k)
      BY <1>2, <1>3, <1>4, <1>7 DEF Holding
    <2>2. \A i \in Slots \ {x} : u[i] = t[i]
      BY <1>3
    <2>3. QED
      BY <2>1, <2>2, OtherEntries
  <1>8. EntryIs(u, r, [bid |-> b, price |-> p, shares |-> n])
    BY <1>4, <1>6 DEF EntryIs
  <1>9. QED
    BY <1>6, <1>7, <1>8

\* reduce: the order is gone with its last share, the others as before.
LEMMA ReduceEntries ==
  ASSUME NEW R, NEW P, NEW m \in Nat, NEW t \in Tables(R, P, m), LiveOnce(t),
         NEW r, Known(t, r), NEW n \in Nat, NEW u, u = Reduce(t, r, n),
         NEW o, o = Entry(t, r)
  PROVE  /\ Known(u, r) <=> n < o.remaining
         /\ n < o.remaining =>
              EntryIs(u, r, [bid |-> o.bid, price |-> o.price, shares |-> o.remaining - n])
         /\ \A k : k # r => /\ Known(u, k) <=> Known(t, k)
                            /\ Known(t, k) => Entry(u, k) = Entry(t, k)
  <1>1. PICK x \in Slots : x = Min(Holding(t, r)) /\ t[x].live /\ t[x].reference = r
    BY FoundSlot
  <1>2. o = t[x] /\ o \in Orders(R, P, m) /\ o.remaining \in 1 .. m /\ o.live /\ o.reference = r
    BY <1>1, SlotCases DEF Entry
  <1>3. PICK k \in Nat : k = o.remaining /\ k # 0
    BY <1>2
  <1>4. PICK e : e = IF n < k THEN [o EXCEPT !.remaining = k - n] ELSE NoEntry
    OBVIOUS
  <1>5. \A i \in Slots : u[i] = IF i = x THEN e ELSE t[i]
    <2>1. PICK a \in Nat : a = Applied(t, r, n) /\ a = (IF n < k THEN n ELSE k)
      BY <1>3 DEF Applied
    <2>2. PICK y : y = IF k - a <= 0 THEN NoEntry ELSE [o EXCEPT !.remaining = k - a]
      OBVIOUS
    <2>3. u = [t EXCEPT ![x] = y]
      BY <1>1, <1>2, <1>3, <2>1, <2>2 DEF Reduce
    <2>4. y = e
      <3>1. CASE n < k
        <4>1. ~(k - a <= 0) /\ a = n
          BY <2>1, <3>1
        <4>2. QED
          BY <1>4, <2>2, <3>1, <4>1
      <3>2. CASE ~(n < k)
        <4>1. k - a <= 0
          BY <2>1, <3>2
        <4>2. QED
          BY <1>4, <2>2, <3>2, <4>1
      <3>3. QED
        BY <3>1, <3>2
    <2>5. QED
      BY <2>3, <2>4 DEF Tables
  <1>6. \A i \in Slots : t[i].live /\ t[i].reference = r => i = x
    BY <1>1 DEF LiveOnce
  <1>7. ASSUME NEW j, j # r
        PROVE  /\ Known(u, j) <=> Known(t, j)
               /\ Known(t, j) => Entry(u, j) = Entry(t, j)
    <2>1. ~e.live \/ e.reference = r
      BY <1>2, <1>4 DEF NoEntry, Orders
    <2>2. x \notin Holding(t, j) /\ x \notin Holding(u, j)
      BY <1>1, <1>5, <1>7, <2>1 DEF Holding
    <2>3. \A i \in Slots \ {x} : u[i] = t[i]
      BY <1>5
    <2>4. QED
      BY <2>2, <2>3, OtherEntries
  <1>8. CASE n < k
    <2>1. /\ e.live = TRUE /\ e.reference = r /\ e.bid = o.bid /\ e.price = o.price
          /\ e.remaining = k - n
      BY <1>2, <1>4, <1>8 DEF Orders
    <2>2. Holding(u, r) = {x}
      BY <1>5, <1>6, <2>1 DEF Holding
    <2>3. Known(u, r) /\ Entry(u, r) = e
      BY <1>5, <2>2, OnlyEntry
    <2>4. EntryIs(u, r, [bid |-> o.bid, price |-> o.price, shares |-> o.remaining - n])
      BY <1>3, <2>1, <2>3 DEF EntryIs
    <2>5. QED
      BY <1>3, <1>7, <1>8, <2>3, <2>4
  <1>9. CASE ~(n < k)
    <2>1. e.live = FALSE
      BY <1>4, <1>9 DEF NoEntry
    <2>2. Holding(u, r) = {}
      BY <1>5, <1>6, <2>1 DEF Holding
    <2>3. QED
      BY <1>3, <1>7, <1>9, <2>2 DEF Known
  <1>10. QED
    BY <1>8, <1>9
==============================================================================
