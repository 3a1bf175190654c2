---------------------------- MODULE Trader_proofs ----------------------------
(***************************************************************************)
(* What the pipeline computes.  Pipeline_proofs says where each message is *)
(* at every edge; here the contents follow: the order table and the book   *)
(* are those of the messages past the book stage, each quote goes through  *)
(* the quote RAM and the OFI unit to its own message, and the decisions on *)
(* the host are those of SequentialTrader.                                 *)
(*                                                                         *)
(* FeedStreams: prices and shares fit an int32_t and no add is empty.      *)
(* ShallowStream: the five-level book has a level for every price at which *)
(* orders rest; otherwise it drops adds and its quotes are its own.        *)
(***************************************************************************)
EXTENDS Pipeline_proofs, BookStage_proofs

(***************************************************************************)
(* The untimed specification, with the stream as a parameter.              *)
(***************************************************************************)
\* The specification's own copies of the operators it shares with the code.
LEMMA SameOperators ==
  /\ \A S : Trader!Max(S) = Max(S) /\ Trader!Min(S) = Min(S)
  /\ \A S : Trader!Cardinality(S) = Cardinality(S)
  /\ \A q, S : Trader!MapThenSumSet(LAMBDA r : q[r].shares, S) = Asked(q, S)
  /\ \A a, b, c, d : Trader!Quote(a, b, c, d) = Quote(a, b, c, d)
  /\ \A a, b : Trader!ContOfi(a, b) = ContOfi(a, b)
  /\ \A a : Trader!saturate(a) = saturate(a)
  <1>1. \A S : Trader!Max(S) = Max(S) /\ Trader!Min(S) = Min(S)
    BY DEF Trader!Max, Max, Trader!Min, Min
  <1>2. \A q, S : Trader!MapThenSumSet(LAMBDA r : q[r].shares, S) = Asked(q, S)
    BY Zenon DEF Trader!MapThenSumSet, Trader!MapThenFoldSet, Asked, MapThenSumSet,
                 MapThenFoldSet
  <1>3. \A a, b, c, d : Trader!Quote(a, b, c, d) = Quote(a, b, c, d)
    BY DEF Quote, Trader!Quote
  <1>4. \A a, b : Trader!ContOfi(a, b) = ContOfi(a, b)
    BY DEF ContOfi, Trader!ContOfi, If, Trader!If
  <1>5. \A a : Trader!saturate(a) = saturate(a)
    BY DEF saturate, Trader!saturate, IntMin, Trader!IntMin
  <1>6. \A S : Trader!Cardinality(S) = Cardinality(S)
    BY Zenon DEF Cardinality, Trader!Cardinality
  <1>7. QED
    BY <1>1, <1>2, <1>3, <1>4, <1>5, <1>6

\* What a message makes of the resting orders.
Step(q, m) == IF Trader!Applicable(q, m) THEN Trader!Apply(q, m) ELSE q

IsAfter(f, s) ==
  f = [i \in 0 .. Len(s) |-> IF i = 0 THEN <<>> ELSE Step(f[i - 1], s[i])]

\* The orders resting after each number of messages of the stream s.
Resting(s) == CHOOSE f : IsAfter(f, s)

\* f starts with no orders and takes the first n messages of s.
Starts(f, s, n) ==
  f = [i \in 0 .. n |-> f[i]] /\ f[0] = <<>> /\ \A i \in 1 .. n : f[i] = Step(f[i - 1], s[i])

\* The recursion has a solution: the least number of messages for which it
\* had none would be one more than one for which it has.
LEMMA RestingFacts ==
  ASSUME NEW s, Len(s) \in Nat
  PROVE  /\ Resting(s)[0] = <<>>
         /\ \A i \in 1 .. Len(s) : Resting(s)[i] = Step(Resting(s)[i - 1], s[i])
  <1> DEFINE B == {n \in Nat : ~\E f : Starts(f, s, n)}
  <1>1. B = {}
    <2> SUFFICES ASSUME B # {} PROVE FALSE
      OBVIOUS
    <2>1. PICK n \in Nat : n = Min(B) /\ n \in B /\ \A y \in B : n <= y
      BY MinOfNats
    <2>2. Starts([i \in 0 .. 0 |-> <<>>], s, 0)
      BY DEF Starts
    <2>3. n # 0
      BY <2>1, <2>2
    <2>4. PICK k \in Nat : k = n - 1
      BY <2>3
    <2>5. PICK f : Starts(f, s, k)
      <3>1. ~(n <= k)
        BY <2>4
      <3>2. k \notin B
        BY <2>1, <3>1
      <3>3. QED
        BY <3>2
    <2> DEFINE g == [i \in 0 .. n |-> IF i = n THEN Step(f[k], s[n]) ELSE f[i]]
    <2>6. g[0] = <<>> /\ g = [i \in 0 .. n |-> g[i]]
      BY <2>3, <2>5 DEF Starts
    <2>7. ASSUME NEW i \in 1 .. n PROVE g[i] = Step(g[i - 1], s[i])
      <3>1. CASE i = n
        <4>1. g[i - 1] = f[k] /\ g[i] = Step(f[k], s[n])
          BY <2>4, <3>1
        <4>2. QED
          BY <3>1, <4>1
      <3>2. CASE i # n
        <4>1. i \in 1 .. k /\ i - 1 \in 0 .. n /\ i - 1 # n
          BY <2>4, <3>2
        <4>2. g[i] = f[i] /\ g[i - 1] = f[i - 1]
          BY <3>2, <4>1
        <4>3. f[i] = Step(f[i - 1], s[i])
          BY <2>5, <4>1 DEF Starts
        <4>4. QED
          BY <4>2, <4>3
      <3>3. QED
        BY <3>1, <3>2
    <2>8. Starts(g, s, n)
      <3> HIDE DEF g
      <3> QED
        BY <2>6, <2>7 DEF Starts
    <2>9. QED
      BY <2>1, <2>8
  <1>2. PICK f : Starts(f, s, Len(s))
    BY <1>1
  <1>3. IsAfter(f, s)
    <2>1. /\ f[0] = <<>> /\ f = [i \in 0 .. Len(s) |-> f[i]]
          /\ \A i \in 0 .. Len(s) : i # 0 => f[i] = Step(f[i - 1], s[i])
      BY <1>2 DEF Starts
    <2>2. QED
      BY <2>1 DEF IsAfter
  <1>4. IsAfter(Resting(s), s)
    BY <1>3 DEF Resting
  <1>5. QED
    BY <1>4 DEF IsAfter

\* The specification's orders are those of the stream.
LEMMA AfterIsResting == Trader!After = Resting(stream)
  BY Zenon DEF Trader!After, Resting, IsAfter, Step

\* The longest prefix of s of messages that can be applied one after another.
Applies(s, i) == Trader!Applicable(Resting(s)[i], s[i + 1])
Good(s) == Max({n \in 0 .. Len(s) : \A i \in 1 .. n : Applies(s, i - 1)})

\* It exists: all of its messages can be applied, and no longer prefix has
\* only such messages.
LEMMA GoodFacts ==
  ASSUME NEW s, Len(s) \in Nat
  PROVE  /\ Good(s) \in 0 .. Len(s)
         /\ \A i \in 0 .. Good(s) - 1 : Applies(s, i)
         /\ \A n \in 0 .. Len(s) : (\A i \in 0 .. n - 1 : Applies(s, i)) => n <= Good(s)
  <1> DEFINE G == {n \in 0 .. Len(s) : \A i \in 1 .. n : Applies(s, i - 1)}
  <1>1. \A n \in Nat : (\A i \in 1 .. n : Applies(s, i - 1)) <=> (\A i \in 0 .. n - 1 : Applies(s, i))
    <2> SUFFICES ASSUME NEW n \in Nat
                 PROVE  (\A i \in 1 .. n : Applies(s, i - 1)) <=> (\A i \in 0 .. n - 1 : Applies(s, i))
      OBVIOUS
    <2>1. ASSUME \A i \in 1 .. n : Applies(s, i - 1), NEW i \in 0 .. n - 1 PROVE Applies(s, i)
      <3>1. i + 1 \in 1 .. n /\ (i + 1) - 1 = i
        OBVIOUS
      <3>2. Applies(s, (i + 1) - 1)
        BY <2>1, <3>1
      <3>3. QED
        BY <3>1, <3>2
    <2>2. ASSUME \A i \in 0 .. n - 1 : Applies(s, i), NEW i \in 1 .. n PROVE Applies(s, i - 1)
      <3>1. i - 1 \in 0 .. n - 1
        OBVIOUS
      <3>2. QED
        BY <2>2, <3>1
    <2>3. QED
      BY <2>1, <2>2
  <1>2. 0 \in G
    OBVIOUS
  <1>3. Max(G) \in G /\ \A y \in G : y <= Max(G)
    <2>1. G \subseteq 0 .. Len(s) /\ G # {}
      BY <1>2
    <2> HIDE DEF G
    <2>2. QED
      BY <2>1, MaxOfNats
  <1>4. Good(s) = Max(G)
    BY DEF Good
  <1>5. QED
    BY <1>1, <1>3, <1>4

\* It is the prefix the untimed specification issues decisions for.
LEMMA GoodPrefixIsGood == stream \in Streams => Trader!GoodPrefix = Good(stream)
  <1> SUFFICES ASSUME stream \in Streams PROVE Trader!GoodPrefix = Good(stream)
    OBVIOUS
  <1>1. Len(stream) \in Nat
    BY StreamFacts DEF Count
  <1>2. \A n \in 0 .. Len(stream) : \A i \in 1 .. n : stream[(i - 1) + 1] = stream[i]
    OBVIOUS
  <1>3. {n \in 0 .. Len(stream) : \A i \in 1 .. n : Trader!Applicable(Resting(stream)[i - 1], stream[i])}
         = {n \in 0 .. Len(stream) : \A i \in 1 .. n : Applies(stream, i - 1)}
    BY <1>2 DEF Applies
  <1>4. QED
    BY <1>3, AfterIsResting, SameOperators DEF Trader!GoodPrefix, Good

(***************************************************************************)
(* The order table and the resting orders of the specification.            *)
(***************************************************************************)
PriceRange == 0 .. IntMax
RestingOrders == [bid : BOOLEAN, price : PriceRange, shares : 1 .. IntMax]

\* A table as the pipeline's messages leave it.
SoundTable(t) == t \in Tables(Nat, PriceRange, IntMax) /\ LiveOnce(t)

\* The table t holds exactly the orders q.
Tracked(t, q) ==
  /\ q = [k \in DOMAIN q |-> q[k]] /\ \A k \in DOMAIN q : q[k] \in RestingOrders
  /\ \A k : Known(t, k) <=> k \in DOMAIN q
  /\ \A k \in DOMAIN q : EntryIs(t, k, q[k])

\* The slot of an order, and the order of a slot.
LEMMA TrackedSlot ==
  ASSUME NEW t, SoundTable(t), NEW q, Tracked(t, q), NEW i \in Slots, t[i].live
  PROVE  /\ t[i].reference \in DOMAIN q /\ q[t[i].reference].bid = t[i].bid
         /\ q[t[i].reference].price = t[i].price
         /\ q[t[i].reference].shares = t[i].remaining
  <1>1. PICK k : k = t[i].reference
    OBVIOUS
  <1>2. Known(t, k)
    BY <1>1 DEF Known, Holding
  <1>3. PICK x \in Slots : x = Min(Holding(t, k)) /\ t[x].live /\ t[x].reference = k
    BY <1>2, FoundSlot DEF SoundTable
  <1>4. x = i
    BY <1>1, <1>3 DEF SoundTable, LiveOnce
  <1>5. Entry(t, k) = t[i]
    BY <1>3, <1>4 DEF Entry
  <1>6. k \in DOMAIN q /\ EntryIs(t, k, q[k])
    BY <1>2 DEF Tracked
  <1>7. QED
    BY <1>1, <1>5, <1>6 DEF EntryIs

\* An order is in the table, with as many shares.
LEMMA TrackedOrder ==
  ASSUME NEW t, SoundTable(t), NEW q, Tracked(t, q), NEW r \in DOMAIN q,
         NEW o, o = Entry(t, r)
  PROVE  /\ Known(t, r) /\ o.bid = q[r].bid /\ o.price = q[r].price
         /\ o.remaining = q[r].shares
         /\ q[r].bid \in BOOLEAN /\ q[r].price \in PriceRange /\ q[r].shares \in 1 .. IntMax
         /\ \E i \in Slots : t[i].live /\ t[i].reference = r
  <1>1. Known(t, r) /\ EntryIs(t, r, q[r]) /\ q[r] \in RestingOrders
    BY DEF Tracked
  <1>2. \E i \in Slots : t[i].live /\ t[i].reference = r
    BY <1>1 DEF Known, Holding
  <1>3. q[r].bid \in BOOLEAN /\ q[r].price \in PriceRange /\ q[r].shares \in 1 .. IntMax
    BY <1>1 DEF RestingOrders
  <1>4. QED
    BY <1>1, <1>2, <1>3 DEF EntryIs

\* There is room in the table exactly if fewer orders rest than it has slots.
LEMMA RoomFacts ==
  ASSUME NEW t, SoundTable(t), NEW q, Tracked(t, q)
  PROVE  /\ IsFiniteSet(DOMAIN q)
         /\ Vacant(t) # {} <=> Cardinality(DOMAIN q) < Capacity
  <1> DEFINE L == {i \in Slots : t[i].live}
             f == [i \in L |-> t[i].reference]
  <1>1. L \in SUBSET Slots /\ (Vacant(t) = {} <=> L = Slots)
    BY DEF Vacant
  <1>2. IsFiniteSet(Slots) /\ Cardinality(Slots) = Capacity /\ Capacity \in Nat
    BY SlotsFinite, CapacityAssumption
  <1>3. \A i \in L : t[i].reference \in DOMAIN q
    BY TrackedSlot
  <1>4. \A r \in DOMAIN q : \E i \in L : t[i].reference = r
    BY TrackedOrder
  <1>5. \A i, j \in L : t[i].reference = t[j].reference => i = j
    BY DEF SoundTable, LiveOnce
  <1> HIDE DEF L
  <1>6. f \in [L -> DOMAIN q]
    BY <1>3
  <1>7. f \in Surjection(L, DOMAIN q)
    BY <1>4, <1>6 DEF Surjection
  <1>8. f \in Injection(L, DOMAIN q)
    BY <1>5, <1>6 DEF Injection, IsInjective
  <1>9. /\ IsFiniteSet(L) /\ Cardinality(L) <= Capacity
        /\ Capacity = Cardinality(L) => L = Slots
    BY <1>1, <1>2, FS_Subset
  <1> HIDE DEF f
  <1>10. IsFiniteSet(DOMAIN q) /\ Cardinality(DOMAIN q) = Cardinality(L)
    BY <1>7, <1>8, <1>9, FS_Surjection
  <1>11. PICK c \in Nat : c = Cardinality(L)
    BY <1>9, FS_CardinalityType
  <1>12. L = Slots <=> c = Capacity
    BY <1>2, <1>9, <1>11
  <1>13. Vacant(t) # {} <=> c < Capacity
    BY <1>1, <1>2, <1>9, <1>11, <1>12
  <1>14. QED
    BY <1>10, <1>11, <1>13

\* The references of the orders in some slots.
RefsOf(t, s) == {t[i].reference : i \in s}
AskedAt(q, c, p) == {r \in DOMAIN q : q[r].bid = c /\ q[r].price = p}

\* The shares resting at a price are those of the orders there.
LEMMA TrackedShares ==
  ASSUME NEW t, SoundTable(t), NEW q, Tracked(t, q), NEW c, NEW v
  PROVE  /\ SharesAt(t, c, v) = Asked(q, AskedAt(q, c, v))
         /\ RestingIn(t, c, v) # {} <=> AskedAt(q, c, v) # {}
  <1> DEFINE D == RestingIn(t, c, v)
             G == {s \in SUBSET D : SharesIn(t, s) = Asked(q, RefsOf(t, s))}
  <1>1. D \in SUBSET Slots /\ IsFiniteSet(D) /\ \A i \in D : i \in Slots /\ t[i].live
    BY SlotsFinite, FS_Subset DEF RestingIn
  <1>2. Counts(t)
    BY TableCounts, IntMaxAssumption DEF SoundTable
  <1>3. IsFiniteSet(DOMAIN q)
    BY RoomFacts
  <1>4. \A r \in DOMAIN q : q[r].shares \in Nat
    BY TrackedOrder
  <1>5. \A i \in D : t[i].reference \in DOMAIN q /\ q[t[i].reference].shares = t[i].remaining
    BY <1>1, TrackedSlot
  <1>6. {} \in G
    <2>1. RefsOf(t, {}) = {}
      BY DEF RefsOf
    <2>2. Asked(q, {}) = 0
      BY <1>3, <1>4, AskedFacts
    <2>3. QED
      BY <1>2, <2>1, <2>2, HeldFacts
  <1>7. ASSUME NEW s \in SUBSET D, NEW x \in D \ s, s \in G PROVE s \cup {x} \in G
    <2>1. PICK r : r = t[x].reference
      OBVIOUS
    <2>2. PICK S : S = RefsOf(t, s \cup {x})
      OBVIOUS
    <2>3. r \in S /\ S \in SUBSET DOMAIN q
      BY <1>5, <2>1, <2>2 DEF RefsOf
    <2>4. r \notin RefsOf(t, s)
      BY <1>1, <2>1 DEF RefsOf, SoundTable, LiveOnce
    <2>5. S \ {r} = RefsOf(t, s)
      BY <2>1, <2>2, <2>4 DEF RefsOf
    <2>6. IsFiniteSet(S) /\ \A k \in S : q[k].shares \in Nat
      BY <1>3, <1>4, <2>3, FS_Subset
    <2>7. Asked(q, S) = q[r].shares + Asked(q, S \ {r})
      BY <2>3, <2>6, AskedFacts
    <2>8. s \cup {x} \in SUBSET Slots /\ x \in s \cup {x} /\ (s \cup {x}) \ {x} = s
      BY <1>1
    <2>9. SharesIn(t, s \cup {x}) = t[x].remaining + SharesIn(t, s)
      BY <1>2, <2>8, HeldFacts
    <2>10. q[r].shares = t[x].remaining
      BY <1>5, <2>1
    <2>11. SharesIn(t, s \cup {x}) = Asked(q, S)
      BY <1>7, <2>5, <2>7, <2>9, <2>10
    <2>12. QED
      BY <1>1, <2>2, <2>11
  <1>8. D \in G
    <2> HIDE DEF D, G
    <2> QED
      BY <1>1, <1>6, <1>7, SubsetInduction
  <1>9. RefsOf(t, D) = AskedAt(q, c, v)
    <2>1. ASSUME NEW i \in D PROVE t[i].reference \in AskedAt(q, c, v)
      <3>1. i \in Slots /\ t[i].live /\ t[i].bid = c /\ t[i].price = v
        BY DEF RestingIn
      <3>2. QED
        BY <3>1, TrackedSlot DEF AskedAt
    <2>2. ASSUME NEW r \in AskedAt(q, c, v) PROVE r \in RefsOf(t, D)
      <3>1. r \in DOMAIN q /\ q[r].bid = c /\ q[r].price = v
        BY DEF AskedAt
      <3>2. PICK i \in Slots : t[i].live /\ t[i].reference = r
        BY <3>1, TrackedOrder
      <3>3. t[i].bid = c /\ t[i].price = v
        BY <3>1, <3>2, TrackedSlot
      <3>4. i \in D
        BY <3>2, <3>3 DEF RestingIn
      <3>5. QED
        BY <3>2, <3>4 DEF RefsOf
    <2>3. QED
      BY <2>1, <2>2 DEF RefsOf
  <1>10. D # {} <=> RefsOf(t, D) # {}
    BY DEF RefsOf
  <1>11. QED
    BY <1>8, <1>9, <1>10 DEF SharesAt

\* insert is accepted exactly if the specification has room for the order.
LEMMA InsertOkIsRoom ==
  ASSUME NEW t, SoundTable(t), NEW q, Tracked(t, q), NEW r
  PROVE  InsertOk(t, r) <=> Trader!Room(q, r)
  <1>1. Vacant(t) # {} <=> Trader!Cardinality(DOMAIN q) < Capacity
    BY RoomFacts, SameOperators
  <1>2. QED
    BY <1>1 DEF InsertOk, Tracked, Trader!Room

\* An order that is inserted joins the resting orders.
LEMMA InsertTracked ==
  ASSUME NEW t, SoundTable(t), NEW q, Tracked(t, q), NEW r \in Nat, InsertOk(t, r),
         NEW c \in BOOLEAN, NEW p \in PriceRange, NEW n \in 1 .. IntMax,
         NEW u, u = Insert(t, r, c, p, n), NEW w, w = Trader!With(q, r, c, p, n)
  PROVE  SoundTable(u) /\ Tracked(u, w)
  <1>1. t \in Tables(Nat, PriceRange, IntMax) /\ LiveOnce(t)
    BY DEF SoundTable
  <1>2. SoundTable(u)
    BY <1>1, IntMaxAssumption, InsertShares DEF SoundTable
  <1>3. PICK o \in RestingOrders : o = [bid |-> c, price |-> p, shares |-> n]
    BY DEF RestingOrders
  <1>4. /\ Known(u, r) /\ EntryIs(u, r, o)
        /\ \A k : k # r => /\ Known(u, k) <=> Known(t, k)
                           /\ Known(t, k) => Entry(u, k) = Entry(t, k)
    BY <1>1, <1>3, IntMaxAssumption, InsertEntries
  <1>5. /\ DOMAIN w = DOMAIN q \cup {r} /\ w = [k \in DOMAIN w |-> w[k]]
        /\ w[r] = o /\ \A k \in DOMAIN q : k # r => w[k] = q[k]
    BY <1>3 DEF Trader!With
  <1>6. \A k : Known(u, k) <=> k \in DOMAIN w
    BY <1>4, <1>5 DEF Tracked
  <1>7. ASSUME NEW k \in DOMAIN w PROVE w[k] \in RestingOrders /\ EntryIs(u, k, w[k])
    <2>1. CASE k = r
      BY <1>4, <1>5, <2>1
    <2>2. CASE k # r
      <3>1. /\ k \in DOMAIN q /\ w[k] = q[k] /\ q[k] \in RestingOrders
            /\ Known(t, k) /\ EntryIs(t, k, q[k])
        BY <1>5, <2>2 DEF Tracked
      <3>2. Entry(u, k) = Entry(t, k)
        BY <1>4, <2>2, <3>1
      <3>3. QED
        BY <3>1, <3>2 DEF EntryIs
    <2>3. QED
      BY <2>1, <2>2
  <1>8. QED
    BY <1>2, <1>5, <1>6, <1>7 DEF Tracked

\* The resting orders after one of them has given up n shares.
LEMMA LessFacts ==
  ASSUME NEW t, SoundTable(t), NEW q, Tracked(t, q), NEW r \in DOMAIN q, NEW n \in Nat,
         NEW w, w = Trader!Less(q, r, n)
  PROVE  /\ w = [k \in DOMAIN w |-> w[k]] /\ \A k \in DOMAIN w : w[k] \in RestingOrders
         /\ \A k : k # r => (k \in DOMAIN w <=> k \in DOMAIN q)
         /\ \A k \in DOMAIN w : k # r => w[k] = q[k]
         /\ r \in DOMAIN w <=> n < q[r].shares
         /\ r \in DOMAIN w =>
              w[r] = [bid |-> q[r].bid, price |-> q[r].price, shares |-> q[r].shares - n]
  <1>1. PICK o \in RestingOrders : o = q[r]
    BY DEF Tracked
  <1>2. PICK s \in 1 .. IntMax : s = o.shares
    BY DEF RestingOrders
  <1>3. q = [k \in DOMAIN q |-> q[k]] /\ \A k \in DOMAIN q : q[k] \in RestingOrders
    BY DEF Tracked
  <1>4. CASE n >= s
    <2>1. w = Trader!Without(q, r)
      BY <1>1, <1>2, <1>4 DEF Trader!Less
    <2>2. /\ DOMAIN w = DOMAIN q \ {r} /\ w = [k \in DOMAIN w |-> w[k]]
          /\ \A k \in DOMAIN w : w[k] = q[k]
      BY <2>1 DEF Trader!Without
    <2>3. ~(n < q[r].shares)
      BY <1>1, <1>2, <1>4, IntMaxAssumption
    <2>4. QED
      BY <1>3, <2>2, <2>3
  <1>5. CASE ~(n >= s)
    <2>1. PICK e : e = [o EXCEPT !.shares = s - n]
      OBVIOUS
    <2>2. e = [bid |-> o.bid, price |-> o.price, shares |-> s - n]
      BY <2>1 DEF RestingOrders
    <2>3. s - n \in 1 .. IntMax
      BY <1>5, IntMaxAssumption
    <2>4. e \in RestingOrders
      BY <2>2, <2>3 DEF RestingOrders
    <2>5. w = [q EXCEPT ![r] = e]
      BY <1>1, <1>2, <1>5, <2>1 DEF Trader!Less
    <2>6. /\ DOMAIN w = DOMAIN q /\ w[r] = e /\ w = [k \in DOMAIN w |-> w[k]]
          /\ \A k \in DOMAIN w : k # r => w[k] = q[k]
      BY <1>3, <2>5
    <2>7. n < q[r].shares
      BY <1>1, <1>2, <1>5, IntMaxAssumption
    <2>8. QED
      BY <1>1, <1>2, <1>3, <2>2, <2>4, <2>6, <2>7
  <1>6. QED
    BY <1>4, <1>5

\* reduce takes as many shares off the order in the table.
LEMMA ReduceTracked ==
  ASSUME NEW t, SoundTable(t), NEW q, Tracked(t, q), NEW r \in DOMAIN q, NEW n \in Nat,
         NEW u, u = Reduce(t, r, n), NEW w, w = Trader!Less(q, r, n)
  PROVE  SoundTable(u) /\ Tracked(u, w)
  <1>1. t \in Tables(Nat, PriceRange, IntMax) /\ LiveOnce(t)
    BY DEF SoundTable
  <1>2. PICK o : o = Entry(t, r)
    OBVIOUS
  <1>3. /\ Known(t, r) /\ o.bid = q[r].bid /\ o.price = q[r].price
        /\ o.remaining = q[r].shares
    BY <1>2, TrackedOrder
  <1>4. SoundTable(u)
    BY <1>1, <1>2, <1>3, IntMaxAssumption, ReduceShares DEF SoundTable
  <1>5. /\ w = [k \in DOMAIN w |-> w[k]] /\ \A k \in DOMAIN w : w[k] \in RestingOrders
        /\ \A k : k # r => (k \in DOMAIN w <=> k \in DOMAIN q)
        /\ \A k \in DOMAIN w : k # r => w[k] = q[k]
        /\ r \in DOMAIN w <=> n < q[r].shares
        /\ r \in DOMAIN w =>
             w[r] = [bid |-> q[r].bid, price |-> q[r].price, shares |-> q[r].shares - n]
    BY LessFacts
  <1>6. /\ Known(u, r) <=> n < o.remaining
        /\ n < o.remaining =>
             EntryIs(u, r, [bid |-> o.bid, price |-> o.price, shares |-> o.remaining - n])
        /\ \A k : k # r => /\ Known(u, k) <=> Known(t, k)
                           /\ Known(t, k) => Entry(u, k) = Entry(t, k)
    BY <1>1, <1>2, <1>3, IntMaxAssumption, ReduceEntries
  <1>7. \A k : Known(u, k) <=> k \in DOMAIN w
    BY <1>3, <1>5, <1>6 DEF Tracked
  <1>8. ASSUME NEW k \in DOMAIN w PROVE EntryIs(u, k, w[k])
    <2>1. CASE k = r
      BY <1>3, <1>5, <1>6, <2>1
    <2>2. CASE k # r
      <3>1. /\ k \in DOMAIN q /\ w[k] = q[k] /\ Known(t, k) /\ EntryIs(t, k, q[k])
        BY <1>5, <2>2 DEF Tracked
      <3>2. Entry(u, k) = Entry(t, k)
        BY <1>6, <2>2, <3>1
      <3>3. QED
        BY <3>1, <3>2 DEF EntryIs
    <2>3. QED
      BY <2>1, <2>2
  <1>9. QED
    BY <1>4, <1>5, <1>7, <1>8 DEF Tracked

\* Delete and replace take INT32_MAX shares, which is the whole order.
LEMMA EraseTracked ==
  ASSUME NEW t, SoundTable(t), NEW q, Tracked(t, q), NEW r \in DOMAIN q,
         NEW u, u = Reduce(t, r, IntMax), NEW w, w = Trader!Without(q, r)
  PROVE  SoundTable(u) /\ Tracked(u, w)
  <1>1. PICK s \in 1 .. IntMax : s = q[r].shares
    BY TrackedOrder
  <1>2. w = Trader!Less(q, r, IntMax)
    BY <1>1, IntMaxAssumption DEF Trader!Less
  <1>3. QED
    BY <1>2, IntMaxAssumption, ReduceTracked

(***************************************************************************)
(* One message at the book stage.                                          *)
(***************************************************************************)
Messages == [type : STRING, reference : Nat, newReference : Nat, bid : BOOLEAN,
             price : Nat, shares : Nat, length : 1 .. 255, arrival : Nat]

\* The event of a message has the fields of its type.
LEMMA DecodeFields ==
  ASSUME NEW m, m.type \in {"A", "F", "E", "C", "X", "D", "U"}, NEW e, e = Decode(m)
  PROVE  /\ e.type = m.type /\ e.reference = m.reference
         /\ m.type \in {"A", "F"} => e.bid = m.bid /\ e.price = m.price /\ e.shares = m.shares
         /\ m.type \in {"E", "C", "X"} => e.shares = m.shares
         /\ m.type = "U" => /\ e.newReference = m.newReference /\ e.price = m.price
                            /\ e.shares = m.shares
  <1>1. \A f \in {"type", "reference", "newReference", "bid", "price", "shares"} :
          e[f] = IF f \in Carried[m.type] THEN m[f] ELSE NoEvent[f]
    BY DEF Decode, NoEvent
  <1>2. /\ m.type \in {"A", "F"} =>
             Carried[m.type] = {"type", "reference", "bid", "shares", "price"}
        /\ m.type \in {"E", "C", "X"} => Carried[m.type] = {"type", "reference", "shares"}
        /\ m.type = "D" => Carried[m.type] = {"type", "reference"}
        /\ m.type = "U" =>
             Carried[m.type] = {"type", "reference", "newReference", "shares", "price"}
    BY DEF Carried
  <1>3. QED
    BY <1>1, <1>2

\* A message passes the parser exactly if it has the length of its type.
LEMMA FitsIsLength ==
  ASSUME NEW m \in Messages
  PROVE  /\ ~ParseFails(m) <=> m.type \in DOMAIN Trader!Lengths /\ m.length = Trader!Lengths[m.type]
         /\ ~ParseFails(m) => m.type \in {"A", "F", "E", "C", "X", "D", "U"} /\ Decodes(m)
  <1>1. KnownLengths = Trader!Lengths
    BY DEF KnownLengths, Trader!Lengths
  <1>2. DOMAIN KnownLengths = {"A", "F", "E", "C", "X", "D", "U"}
    BY DEF KnownLengths
  <1>3. m.length \in 1 .. 255
    BY DEF Messages
  <1>4. ~ParseFails(m) <=> m.type \in DOMAIN KnownLengths /\ m.length = KnownLengths[m.type]
    BY <1>3 DEF ParseFails, LengthFor
  <1>5. ~ParseFails(m) => Decodes(m)
    BY <1>2, <1>3, <1>4 DEF Decodes, LengthFor
  <1>6. QED
    BY <1>1, <1>2, <1>4, <1>5

\* What apply_to_book makes of the table, and when it fails, for each type.
LEMMA ApplyIs ==
  ASSUME NEW e, apply_to_book(e), NEW r, r = e.reference
  PROVE  /\ e.type \in {"A", "F"} =>
              /\ entries' = Insert(entries, r, e.bid, e.price, e.shares)
              /\ book' = AddTo(book, e.bid, e.price, e.shares)
              /\ ApplyFails(e) <=> ~InsertOk(entries, r)
         /\ e.type \in {"E", "C", "X", "D", "U"} /\ ~Known(entries, r) =>
              entries' = entries /\ book' = book /\ ApplyFails(e)
         /\ e.type \in {"E", "C", "X"} /\ Known(entries, r) =>
              entries' = Reduce(entries, r, e.shares) /\ book' = ReducedBook(e) /\ ~ApplyFails(e)
         /\ e.type = "D" /\ Known(entries, r) =>
              entries' = Reduce(entries, r, IntMax) /\ book' = ReducedBook(e) /\ ~ApplyFails(e)
         /\ e.type = "U" /\ Known(entries, r) =>
              LET t == Reduce(entries, r, IntMax)
                  c == Entry(entries, r).bid IN
              /\ entries' = Insert(t, e.newReference, c, e.price, e.shares)
              /\ book' = AddTo(ReducedBook(e), c, e.price, e.shares)
              /\ ApplyFails(e) <=> ~InsertOk(t, e.newReference)
  <1>1. ApplyAdd(e) \/ ApplyReduction(e) \/ ApplyReplace(e) \/ ApplyNothing(e)
    BY DEF apply_to_book
  <1>2. CASE e.type \in {"A", "F"}
    <2>1. ApplyAdd(e)
      BY <1>1, <1>2 DEF ApplyReduction, ApplyReplace, ApplyNothing, Adds, Reductions
    <2>2. ApplyFails(e) <=> ~InsertOk(entries, r)
      BY <1>2 DEF ApplyFails, Adds, Reductions, Removals
    <2>3. QED
      BY <1>2, <2>1, <2>2 DEF ApplyAdd
  <1>3. CASE e.type \in {"E", "C", "X", "D", "U"} /\ ~Known(entries, r)
    <2>1. ApplyNothing(e)
      BY <1>1, <1>3 DEF ApplyAdd, ApplyReduction, ApplyReplace, Adds
    <2>2. ApplyFails(e)
      BY <1>3 DEF ApplyFails, Reductions, Removals
    <2>3. QED
      BY <1>3, <2>1, <2>2 DEF ApplyNothing
  <1>4. CASE e.type \in {"E", "C", "X", "D"} /\ Known(entries, r)
    <2>1. ApplyReduction(e)
      BY <1>1, <1>4 DEF ApplyAdd, ApplyReplace, ApplyNothing, Adds, Reductions, Removals
    <2>2. Taken(e) = IF e.type = "D" THEN IntMax ELSE e.shares
      BY <1>4 DEF Taken, Removals
    <2>3. ~ApplyFails(e)
      BY <1>4 DEF ApplyFails, Adds, Reductions, Removals
    <2>4. QED
      BY <1>4, <2>1, <2>2, <2>3 DEF ApplyReduction, ReducedTable
  <1>5. CASE e.type = "U" /\ Known(entries, r)
    <2>1. ApplyReplace(e)
      BY <1>1, <1>5 DEF ApplyAdd, ApplyReduction, ApplyNothing, Adds, Reductions, Removals
    <2>2. Taken(e) = IntMax
      BY <1>5 DEF Taken, Removals
    <2>3. ApplyFails(e) <=> ~InsertOk(ReducedTable(e), e.newReference)
      BY <1>5 DEF ApplyFails, Adds, Reductions, Removals
    <2>4. QED
      BY <1>5, <2>1, <2>2, <2>3 DEF ApplyReplace, ReducedTable
  <1>6. CASE e.type \notin {"A", "F", "E", "C", "X", "D", "U"}
    BY <1>6
  <1>7. QED
    BY <1>2, <1>3, <1>4, <1>5, <1>6

\* A message that passes the parser and whose fields fit is a well-formed event.
LEMMA FeedEvent ==
  ASSUME NEW m \in Messages, FeedMessage(m), ~ParseFails(m), NEW e, e = Decode(m)
  PROVE  WellFormedEvent(e, Nat, PriceRange, IntMax)
  <1>1. m.type \in {"A", "F", "E", "C", "X", "D", "U"}
    BY FitsIsLength
  <1>2. /\ m.reference \in Nat /\ m.newReference \in Nat /\ m.bid \in BOOLEAN
        /\ m.shares \in Nat
    BY DEF Messages
  <1>3. /\ e.type = m.type /\ e.reference = m.reference
        /\ m.type \in {"A", "F"} => e.bid = m.bid /\ e.price = m.price /\ e.shares = m.shares
        /\ m.type \in {"E", "C", "X"} => e.shares = m.shares
        /\ m.type = "U" => /\ e.newReference = m.newReference /\ e.price = m.price
                           /\ e.shares = m.shares
    BY <1>1, DecodeFields
  <1>4. QED
    BY <1>1, <1>2, <1>3 DEF WellFormedEvent, Adds, Reductions, FeedMessage, PriceRange

\* The stage refuses a message exactly if the specification cannot apply it,
\* and otherwise the table holds the specification's orders after it.
LEMMA StepTracked ==
  ASSUME SoundTable(entries), NEW q, Tracked(entries, q),
         NEW m \in Messages, FeedMessage(m), ~ParseFails(m), NEW e, e = Decode(m),
         apply_to_book(e), NEW w, w = Trader!Apply(q, m)
  PROVE  /\ ApplyFails(e) <=> ~Trader!Applicable(q, m)
         /\ ~ApplyFails(e) => SoundTable(entries') /\ Tracked(entries', w)
  <1>1. PICK t, u, r : t = entries /\ u = entries' /\ r = m.reference
    OBVIOUS
  <1>2. SoundTable(t) /\ Tracked(t, q)
    BY <1>1
  <1>3. m.type \in {"A", "F", "E", "C", "X", "D", "U"}
    BY FitsIsLength
  <1>4. m.type \in DOMAIN Trader!Lengths /\ m.length = Trader!Lengths[m.type]
    BY FitsIsLength
  <1>5. /\ e.type = m.type /\ e.reference = r
        /\ m.type \in {"A", "F"} => e.bid = m.bid /\ e.price = m.price /\ e.shares = m.shares
        /\ m.type \in {"E", "C", "X"} => e.shares = m.shares
        /\ m.type = "U" => /\ e.newReference = m.newReference /\ e.price = m.price
                           /\ e.shares = m.shares
    BY <1>1, <1>3, DecodeFields
  <1>6. Known(t, r) <=> r \in DOMAIN q
    BY <1>2 DEF Tracked
  <1>7. r \in Nat /\ m.newReference \in Nat /\ m.bid \in BOOLEAN /\ m.shares \in Nat
    BY <1>1 DEF Messages
  <1>8. CASE m.type \in {"A", "F"}
    <2>1. m.price \in PriceRange /\ m.shares \in 1 .. IntMax
      BY <1>8 DEF FeedMessage, PriceRange
    <2>2. u = Insert(t, r, m.bid, m.price, m.shares) /\ (ApplyFails(e) <=> ~InsertOk(t, r))
      BY <1>1, <1>5, <1>8, ApplyIs
    <2>3. w = Trader!With(q, r, m.bid, m.price, m.shares)
      BY <1>1, <1>8 DEF Trader!Apply
    <2>4. Trader!Applicable(q, m) <=> Trader!Room(q, r)
      BY <1>1, <1>4, <1>8 DEF Trader!Applicable
    <2>5. InsertOk(t, r) <=> Trader!Room(q, r)
      BY <1>2, InsertOkIsRoom
    <2>6. InsertOk(t, r) => SoundTable(u) /\ Tracked(u, w)
      BY <1>2, <1>7, <2>1, <2>2, <2>3, InsertTracked
    <2>7. QED
      BY <1>1, <2>2, <2>4, <2>5, <2>6
  <1>9. CASE m.type \notin {"A", "F"} /\ ~Known(t, r)
    <2>1. ApplyFails(e)
      BY <1>1, <1>3, <1>5, <1>9, ApplyIs
    <2>2. ~Trader!Applicable(q, m)
      BY <1>1, <1>6, <1>9 DEF Trader!Applicable
    <2>3. QED
      BY <2>1, <2>2
  <1>10. CASE m.type \in {"E", "C", "X"} /\ Known(t, r)
    <2>1. u = Reduce(t, r, m.shares) /\ ~ApplyFails(e)
      BY <1>1, <1>5, <1>10, ApplyIs
    <2>2. w = Trader!Less(q, r, m.shares) /\ Trader!Applicable(q, m)
      BY <1>1, <1>4, <1>6, <1>10 DEF Trader!Apply, Trader!Applicable
    <2>3. SoundTable(u) /\ Tracked(u, w)
      BY <1>2, <1>6, <1>7, <1>10, <2>1, <2>2, ReduceTracked
    <2>4. QED
      BY <1>1, <2>1, <2>2, <2>3
  <1>11. CASE m.type = "D" /\ Known(t, r)
    <2>1. u = Reduce(t, r, IntMax) /\ ~ApplyFails(e)
      BY <1>1, <1>5, <1>11, ApplyIs
    <2>2. w = Trader!Without(q, r) /\ Trader!Applicable(q, m)
      BY <1>1, <1>4, <1>6, <1>11 DEF Trader!Apply, Trader!Applicable
    <2>3. SoundTable(u) /\ Tracked(u, w)
      BY <1>2, <1>6, <1>11, <2>1, <2>2, EraseTracked
    <2>4. QED
      BY <1>1, <2>1, <2>2, <2>3
  <1>12. CASE m.type = "U" /\ Known(t, r)
    <2>1. PICK x, y, k, c : x = Reduce(t, r, IntMax) /\ y = Trader!Without(q, r)
                            /\ k = m.newReference /\ c = Entry(t, r).bid
      OBVIOUS
    <2>2. SoundTable(x) /\ Tracked(x, y)
      BY <1>2, <1>6, <1>12, <2>1, EraseTracked
    <2>3. u = Insert(x, k, c, m.price, m.shares) /\ (ApplyFails(e) <=> ~InsertOk(x, k))
      BY <1>1, <1>5, <1>12, <2>1, ApplyIs
    <2>4. c = q[r].bid /\ c \in BOOLEAN
      BY <1>2, <1>6, <1>12, <2>1, TrackedOrder
    <2>5. w = Trader!With(y, k, c, m.price, m.shares)
      BY <1>1, <1>12, <2>1, <2>4 DEF Trader!Apply
    <2>6. Trader!Applicable(q, m) <=> Trader!Room(y, k)
      BY <1>1, <1>4, <1>6, <1>12, <2>1 DEF Trader!Applicable
    <2>7. InsertOk(x, k) <=> Trader!Room(y, k)
      BY <2>2, InsertOkIsRoom
    <2>8. m.price \in PriceRange /\ m.shares \in 1 .. IntMax
      BY <1>12 DEF FeedMessage, PriceRange
    <2>9. InsertOk(x, k) => SoundTable(u) /\ Tracked(u, w)
      BY <1>7, <2>1, <2>2, <2>3, <2>4, <2>5, <2>8, InsertTracked
    <2>10. QED
      BY <1>1, <2>3, <2>6, <2>7, <2>9
  <1>13. QED
    BY <1>3, <1>8, <1>9, <1>10, <1>11, <1>12

(***************************************************************************)
(* The book's best quote.                                                  *)
(***************************************************************************)
\* The prices at which orders rest on one side.
PricesOn(q, c) == {q[r].price : r \in {x \in DOMAIN q : q[x].bid = c}}

\* A side with one level for each price at which orders rest, with their shares.
LevelsHold(side, q, c) ==
  /\ PricesOn(q, c) \subseteq PriceRange
  /\ Occupied(side) = {} <=> PricesOn(q, c) = {}
  /\ \A i \in Occupied(side) : /\ side[i].price \in PricesOn(q, c) /\ side[i].valid
                               /\ side[i].quantity = Asked(q, AskedAt(q, c, side[i].price))
  /\ \A p \in PricesOn(q, c) : \E i \in Occupied(side) : side[i].price = p

\* While nothing has been dropped both sides of the book are such sides.
LEMMA LevelsAreOrders ==
  ASSUME NEW t, NEW b, WellFormed(t, b, Nat, PriceRange, IntMax), Backed(t, b, PriceRange),
         b.overflow = 0, NEW q, Tracked(t, q), NEW c \in BOOLEAN, NEW side, side = b[SideOf(c)]
  PROVE  LevelsHold(side, q, c)
  <1>1. t \in Tables(Nat, PriceRange, IntMax) /\ LiveOnce(t) /\ b \in Books(PriceRange) /\ OnePriceBook(b)
    BY DEF WellFormed
  <1>2. SoundTable(t)
    BY <1>1 DEF SoundTable
  <1>3. side \in SideArrays(PriceRange) /\ OnePrice(side)
    BY <1>1 DEF Books, OnePriceBook, SideOf
  <1>4. PricesOn(q, c) \subseteq PriceRange
    BY DEF PricesOn, Tracked, RestingOrders
  <1>5. \A p : p \in PricesOn(q, c) <=> AskedAt(q, c, p) # {}
    BY DEF PricesOn, AskedAt
  <1>6. \A p \in PriceRange : /\ ShownAt(side, p) = SharesAt(t, c, p)
                              /\ SharesAt(t, c, p) = Asked(q, AskedAt(q, c, p))
                              /\ AskedAt(q, c, p) # {} <=> SharesAt(t, c, p) # 0
    <2> SUFFICES ASSUME NEW p \in PriceRange
                 PROVE  /\ ShownAt(side, p) = SharesAt(t, c, p)
                        /\ SharesAt(t, c, p) = Asked(q, AskedAt(q, c, p))
                        /\ AskedAt(q, c, p) # {} <=> SharesAt(t, c, p) # 0
      OBVIOUS
    <2>1. ShownAt(side, p) = SharesAt(t, c, p)
      BY DEF Backed
    <2>2. RestingIn(t, c, p) # {} <=> SharesAt(t, c, p) # 0
      BY <1>1, IntMaxAssumption, RestingHolds
    <2>3. /\ SharesAt(t, c, p) = Asked(q, AskedAt(q, c, p))
          /\ RestingIn(t, c, p) # {} <=> AskedAt(q, c, p) # {}
      BY <1>2, TrackedShares
    <2>4. QED
      BY <2>1, <2>2, <2>3
  <1>7. ASSUME NEW i \in Occupied(side)
        PROVE  /\ side[i].price \in PricesOn(q, c) /\ side[i].valid
               /\ side[i].quantity = Asked(q, AskedAt(q, c, side[i].price))
    <2>1. i \in Rows /\ side[i].valid
      BY DEF Occupied, Unused
    <2>2. PICK p \in PriceRange : p = side[i].price
      BY <1>3, <2>1, RowCases
    <2>3. side[i].quantity \in Nat \ {0}
      BY <1>3, <2>1, RowCases
    <2>4. i \in AtPrice(side, p)
      BY <2>1, <2>2 DEF AtPrice
    <2>5. ShownAt(side, p) = side[i].quantity
      BY <1>3, <2>4, RowOfPrice
    <2>6. QED
      BY <1>5, <1>6, <2>1, <2>2, <2>3, <2>5
  <1>8. ASSUME NEW p \in PricesOn(q, c) PROVE \E i \in Occupied(side) : side[i].price = p
    <2>1. p \in PriceRange /\ AskedAt(q, c, p) # {}
      BY <1>4, <1>5
    <2>2. ShownAt(side, p) # 0
      BY <1>6, <2>1
    <2>3. AtPrice(side, p) # {}
      BY <2>2 DEF ShownAt
    <2>4. QED
      BY <2>3 DEF AtPrice, Occupied, Unused
  <1>9. Occupied(side) = {} <=> PricesOn(q, c) = {}
    BY <1>7, <1>8
  <1>10. QED
    BY <1>4, <1>7, <1>8, <1>9 DEF LevelsHold

\* The quote of the orders, in the operators of the code.
LEMMA QuoteOfIs ==
  ASSUME NEW q, NEW B, B = PricesOn(q, TRUE), NEW A, A = PricesOn(q, FALSE),
         NEW x, x = IF B = {} THEN 0 ELSE Max(B), NEW y, y = IF A = {} THEN IntMax ELSE Min(A)
  PROVE  Trader!QuoteOf(q) = Quote(x, Asked(q, AskedAt(q, TRUE, x)),
                                   y, Asked(q, AskedAt(q, FALSE, y)))
  BY SameOperators, Zenon DEF Trader!QuoteOf, Trader!Prices, PricesOn, AskedAt

\* The best quote of the book is that of the resting orders.
LEMMA QuoteIsOfOrders ==
  ASSUME NEW t, NEW b, WellFormed(t, b, Nat, PriceRange, IntMax), Backed(t, b, PriceRange),
         b.overflow = 0, NEW q, Tracked(t, q)
  PROVE  BestQuote(b) = Trader!QuoteOf(q)
  <1>1. PICK B, A : B = PricesOn(q, TRUE) /\ A = PricesOn(q, FALSE)
    OBVIOUS
  <1>2. PICK x, y : /\ x = IF B = {} THEN 0 ELSE Max(B)
                    /\ y = IF A = {} THEN IntMax ELSE Min(A)
    OBVIOUS
  <1>3. Trader!QuoteOf(q) = Quote(x, Asked(q, AskedAt(q, TRUE, x)),
                                  y, Asked(q, AskedAt(q, FALSE, y)))
    BY <1>1, <1>2, QuoteOfIs
  <1>4. b \in Books(PriceRange) /\ PriceRange \subseteq 0 .. IntMax /\ SoundTable(t)
    BY DEF WellFormed, PriceRange, SoundTable
  <1>5. SideOf(TRUE) = "bids" /\ SideOf(FALSE) = "asks"
    BY DEF SideOf
  <1>6. /\ B \subseteq PriceRange /\ (Occupied(b.bids) = {} <=> B = {})
        /\ \A i \in Occupied(b.bids) :
             /\ b.bids[i].price \in B /\ b.bids[i].valid
             /\ b.bids[i].quantity = Asked(q, AskedAt(q, TRUE, b.bids[i].price))
        /\ \A p \in B : \E i \in Occupied(b.bids) : b.bids[i].price = p
    <2>1. b[SideOf(TRUE)] = b.bids
      BY <1>5
    <2>2. LevelsHold(b.bids, q, TRUE)
      BY <2>1, LevelsAreOrders
    <2>3. QED
      BY <1>1, <2>2, Zenon DEF LevelsHold
  <1>7. /\ A \subseteq PriceRange /\ (Occupied(b.asks) = {} <=> A = {})
        /\ \A i \in Occupied(b.asks) :
             /\ b.asks[i].price \in A /\ b.asks[i].valid
             /\ b.asks[i].quantity = Asked(q, AskedAt(q, FALSE, b.asks[i].price))
        /\ \A p \in A : \E i \in Occupied(b.asks) : b.asks[i].price = p
    <2>1. b[SideOf(FALSE)] = b.asks
      BY <1>5
    <2>2. LevelsHold(b.asks, q, FALSE)
      BY <2>1, LevelsAreOrders
    <2>3. QED
      BY <1>1, <2>2, Zenon DEF LevelsHold
  <1>8. \A c, p : p \notin PricesOn(q, c) => Asked(q, AskedAt(q, c, p)) = 0
    <2> SUFFICES ASSUME NEW c, NEW p, p \notin PricesOn(q, c) PROVE Asked(q, AskedAt(q, c, p)) = 0
      OBVIOUS
    <2>1. AskedAt(q, c, p) = {}
      BY DEF AskedAt, PricesOn
    <2>2. IsFiniteSet({}) /\ \A r \in {} : q[r].shares \in Nat
      BY FS_EmptySet
    <2>3. QED
      BY <2>1, <2>2, AskedFacts
  <1>9. PICK bb, ba : bb = best_bid(b) /\ ba = best_ask(b)
    OBVIOUS
  <1>10. /\ x = IF bb.valid THEN bb.price ELSE 0
         /\ Asked(q, AskedAt(q, TRUE, x)) = IF bb.valid THEN bb.quantity ELSE 0
    <2>1. CASE B = {}
      <3>1. ~bb.valid
        BY <1>6, <1>9, <2>1 DEF best_bid, NoLevel
      <3>2. QED
        BY <1>1, <1>2, <1>8, <2>1, <3>1
    <2>2. CASE B # {}
      <3>1. PICK i \in Occupied(b.bids) :
              bb = b.bids[i] /\ \A j \in Occupied(b.bids) : b.bids[j].price <= b.bids[i].price
        BY <1>4, <1>6, <1>9, <2>2, BestRows
      <3>2. x \in B /\ \A z \in B : z <= x
        BY <1>2, <1>4, <1>6, <2>2, IntMaxAssumption, MaxOfNats
      <3>3. PICK v : v = bb.price
        OBVIOUS
      <3>4. v \in B /\ \A z \in B : z <= v
        BY <1>6, <3>1, <3>3
      <3>5. v \in 0 .. IntMax /\ x \in 0 .. IntMax
        BY <1>4, <1>6, <3>2, <3>4
      <3>6. x = v
        BY <3>2, <3>4, <3>5
      <3>7. QED
        BY <1>6, <3>1, <3>3, <3>6
    <2>3. QED
      BY <2>1, <2>2
  <1>11. /\ y = IF ba.valid THEN ba.price ELSE IntMax
         /\ Asked(q, AskedAt(q, FALSE, y)) = IF ba.valid THEN ba.quantity ELSE 0
    <2>1. CASE A = {}
      <3>1. ~ba.valid
        BY <1>7, <1>9, <2>1 DEF best_ask, NoLevel
      <3>2. QED
        BY <1>1, <1>2, <1>8, <2>1, <3>1
    <2>2. CASE A # {}
      <3>1. PICK i \in Occupied(b.asks) :
              ba = b.asks[i] /\ \A j \in Occupied(b.asks) : b.asks[j].price >= b.asks[i].price
        BY <1>4, <1>7, <1>9, <2>2, BestRows
      <3>2. y \in A /\ \A z \in A : y <= z
        <4>1. A \subseteq Nat
          BY <1>4, <1>7
        <4>2. QED
          BY <1>2, <2>2, <4>1, MinOfNats
      <3>3. PICK v : v = ba.price
        OBVIOUS
      <3>4. v \in A /\ \A z \in A : z >= v
        BY <1>7, <3>1, <3>3
      <3>5. v \in 0 .. IntMax /\ y \in 0 .. IntMax
        BY <1>4, <1>7, <3>2, <3>4
      <3>6. y = v
        BY <3>2, <3>4, <3>5
      <3>7. QED
        BY <1>7, <3>1, <3>3, <3>6
    <2>3. QED
      BY <2>1, <2>2
  <1>12. QED
    BY <1>3, <1>9, <1>10, <1>11 DEF BestQuote

(***************************************************************************)
(* Streams that never need more levels than the book has.                  *)
(***************************************************************************)
NarrowSides(q) == \A c \in BOOLEAN : Cardinality(PricesOn(q, c)) <= Levels

\* An order is dropped only if it makes one price more than there are levels.
LEMMA AddFits ==
  ASSUME NEW t, NEW b, WellFormed(t, b, Nat, PriceRange, IntMax), Backed(t, b, PriceRange),
         b.overflow = 0, NEW q, Tracked(t, q), NEW r, r \notin DOMAIN q, NEW c \in BOOLEAN,
         NEW p \in PriceRange, NEW n, NEW d, d = AddTo(b, c, p, n),
         NEW w, w = Trader!With(q, r, c, p, n), NarrowSides(w)
  PROVE  d.overflow = 0
  <1> SUFFICES ASSUME d.overflow # b.overflow PROVE FALSE
    OBVIOUS
  <1>1. b \in Books(PriceRange) /\ OnePriceBook(b)
    BY DEF WellFormed
  <1>2. PICK side \in SideArrays(PriceRange) : side = b[SideOf(c)] /\ OnePrice(side)
    BY <1>1 DEF Books, OnePriceBook, SideOf
  <1>3. AtPrice(side, p) = {} /\ Unused(side) = {}
    <2>1. FullBut(b[SideOf(c)], p)
      BY <1>1, DropsWhenFull
    <2>2. QED
      BY <1>2, <2>1 DEF FullBut
  <1>4. LevelsHold(side, q, c)
    BY <1>2, LevelsAreOrders
  <1> DEFINE S == PricesOn(w, c)
             h == [i \in Rows |-> side[i].price]
  <1>5. /\ DOMAIN w = DOMAIN q \cup {r} /\ w[r].bid = c /\ w[r].price = p
        /\ \A k \in DOMAIN q : w[k] = q[k]
    BY DEF Trader!With
  <1>6. p \in S /\ PricesOn(q, c) \subseteq S
    BY <1>5 DEF PricesOn
  <1>7. S \subseteq PricesOn(q, c) \cup {p}
    BY <1>5 DEF PricesOn
  <1>8. IsFiniteSet(S)
    <2>1. S \subseteq 0 .. IntMax
      BY <1>4, <1>7 DEF LevelsHold, PriceRange
    <2>2. IsFiniteSet(0 .. IntMax)
      BY FS_Interval, IntMaxAssumption
    <2>3. QED
      BY <2>1, <2>2, FS_Subset
  <1>9. \A i \in Rows : side[i].valid /\ side[i].price \in S /\ side[i].price # p
    BY <1>3, <1>4, <1>6 DEF LevelsHold, Occupied, Unused, AtPrice
  <1>10. h \in [Rows -> S] /\ \A i \in Rows : h[i] # p
    BY <1>9
  <1>11. \A i, j \in Rows : h[i] = h[j] => i = j
    BY <1>2, <1>9 DEF OnePrice
  <1>12. Cardinality(S) <= Levels
    BY DEF NarrowSides
  <1> HIDE DEF h, S
  <1>13. h \in Injection(Rows, S) /\ h \notin Surjection(Rows, S)
    BY <1>6, <1>10, <1>11 DEF Injection, IsInjective, Surjection
  <1>14. IsFiniteSet(Rows) /\ Cardinality(Rows) = Levels
    BY FS_Interval, LevelsAssumption DEF Rows
  <1>15. /\ Cardinality(Rows) <= Cardinality(S)
         /\ Cardinality(Rows) = Cardinality(S) <=> h \in Surjection(Rows, S)
    BY <1>8, <1>13, FS_Injection
  <1>16. PICK k \in Nat : k = Cardinality(S)
    BY <1>8, FS_CardinalityType
  <1>17. QED
    BY <1>12, <1>13, <1>14, <1>15, <1>16, LevelsAssumption

\* A message after which no side has more prices than levels drops nothing.
LEMMA StepFits ==
  ASSUME WellFormed(entries, book, Nat, PriceRange, IntMax), Backed(entries, book, PriceRange),
         book.overflow = 0, NEW q, Tracked(entries, q),
         NEW m \in Messages, FeedMessage(m), ~ParseFails(m), NEW e, e = Decode(m),
         apply_to_book(e), ~ApplyFails(e), NEW w, w = Trader!Apply(q, m), NarrowSides(w)
  PROVE  book'.overflow = 0
  <1>1. PICK t, b, d, r : t = entries /\ b = book /\ d = book' /\ r = m.reference
    OBVIOUS
  <1>2. /\ WellFormed(t, b, Nat, PriceRange, IntMax) /\ Backed(t, b, PriceRange)
        /\ b.overflow = 0 /\ Tracked(t, q) /\ SoundTable(t)
    BY <1>1 DEF WellFormed, SoundTable
  <1>3. m.type \in {"A", "F", "E", "C", "X", "D", "U"}
    BY FitsIsLength
  <1>4. /\ e.type = m.type /\ e.reference = r
        /\ m.type \in {"A", "F"} => e.bid = m.bid /\ e.price = m.price /\ e.shares = m.shares
        /\ m.type \in {"E", "C", "X"} => e.shares = m.shares
        /\ m.type = "U" => /\ e.newReference = m.newReference /\ e.price = m.price
                           /\ e.shares = m.shares
    BY <1>1, <1>3, DecodeFields
  <1>5. Known(t, r) <=> r \in DOMAIN q
    BY <1>2 DEF Tracked
  <1>6. m.bid \in BOOLEAN /\ m.shares \in Nat
    BY DEF Messages
  <1>7. CASE m.type \in {"A", "F"}
    <2>1. m.price \in PriceRange
      BY <1>7 DEF FeedMessage, PriceRange
    <2>2. d = AddTo(b, m.bid, m.price, m.shares) /\ InsertOk(t, r)
      BY <1>1, <1>4, <1>7, ApplyIs
    <2>3. r \notin DOMAIN q
      BY <1>5, <2>2 DEF InsertOk
    <2>4. w = Trader!With(q, r, m.bid, m.price, m.shares)
      BY <1>1, <1>7 DEF Trader!Apply
    <2>5. d.overflow = 0
      BY <1>2, <1>6, <2>1, <2>2, <2>3, <2>4, AddFits
    <2>6. QED
      BY <1>1, <2>5
  <1>8. CASE m.type \notin {"A", "F"}
    <2>1. Known(t, r)
      BY <1>1, <1>3, <1>4, <1>8, ApplyIs
    <2>2. PICK n \in Nat : n = Taken(e)
      BY <1>3, <1>4, <1>6, <1>8, IntMaxAssumption DEF Taken, Removals
    <2>3. PICK o, x, y : /\ o = Entry(t, r) /\ x = Reduce(t, r, n)
                         /\ y = ExecuteIn(b, o.bid, o.price, Applied(t, r, n))
      OBVIOUS
    <2>4. y = ReducedBook(e)
      BY <1>1, <1>4, <2>2, <2>3 DEF ReducedBook
    <2>5. /\ WellFormed(x, y, Nat, PriceRange, IntMax) /\ o.bid \in BOOLEAN
          /\ y.overflow = 0 /\ Backed(x, y, PriceRange)
      BY <1>2, <2>1, <2>2, <2>3, IntMaxAssumption, ReduceKeeps
    <2>6. CASE m.type # "U"
      <3>1. d = y
        BY <1>1, <1>3, <1>4, <1>8, <2>1, <2>4, <2>6, ApplyIs
      <3>2. QED
        BY <1>1, <2>5, <3>1
    <2>7. CASE m.type = "U"
      <3>1. n = IntMax
        BY <1>4, <2>2, <2>7 DEF Taken, Removals
      <3>2. PICK k, c, z : k = m.newReference /\ c = o.bid /\ z = Trader!Without(q, r)
        OBVIOUS
      <3>3. d = AddTo(y, c, m.price, m.shares) /\ InsertOk(x, k)
        BY <1>1, <1>4, <2>1, <2>3, <2>4, <2>7, <3>1, <3>2, ApplyIs
      <3>4. Tracked(x, z)
        BY <1>2, <1>5, <2>1, <2>3, <3>1, <3>2, EraseTracked
      <3>5. k \notin DOMAIN z
        BY <3>3, <3>4 DEF Tracked, InsertOk
      <3>6. c = q[r].bid /\ c \in BOOLEAN
        BY <1>2, <1>5, <2>1, <2>3, <3>2, TrackedOrder
      <3>7. w = Trader!With(z, k, c, m.price, m.shares)
        BY <1>1, <2>7, <3>2, <3>6 DEF Trader!Apply
      <3>8. m.price \in PriceRange
        BY <2>7 DEF FeedMessage, PriceRange
      <3>9. d.overflow = 0
        BY <2>5, <3>3, <3>4, <3>5, <3>6, <3>7, <3>8, AddFits
      <3>10. QED
        BY <1>1, <3>9
    <2>8. QED
      BY <2>6, <2>7
  <1>9. QED
    BY <1>7, <1>8

(***************************************************************************)
(* The order table of the pipeline holds the orders of the messages that   *)
(* have passed the book stage.                                             *)
(***************************************************************************)
\* What FeedStreams says of a message in the pipeline.
LEMMA FeedFacts ==
  ASSUME stream \in Streams, FeedStreams, NEW i \in Ids
  PROVE  /\ Message(i) \in Messages /\ FeedMessage(Message(i))
         /\ Len(stream) \in Nat /\ Count = Len(stream)
  <1>1. stream \in Seq(Messages)
    BY StreamsAssumption DEF Messages
  <1>2. Len(stream) \in Nat /\ i + 1 \in 1 .. Len(stream)
    BY <1>1 DEF Ids, Count
  <1>3. stream[i + 1] \in Messages
    BY <1>1, <1>2
  <1>4. FeedMessage(stream[i + 1])
    BY <1>2 DEF FeedStreams
  <1>5. QED
    BY <1>2, <1>3, <1>4 DEF Message, Count

\* A message of the wrong length cannot be applied.
LEMMA UnfitNeverApplies ==
  ASSUME stream \in Streams, FeedStreams, NEW i \in Ids, ~Fits(i)
  PROVE  ~Applies(stream, i)
  <1>1. PICK m \in Messages : m = Message(i) /\ ParseFails(m)
    BY FeedFacts DEF Fits
  <1>2. m = stream[i + 1]
    BY <1>1 DEF Message
  <1>3. ~(m.type \in DOMAIN Trader!Lengths /\ m.length = Trader!Lengths[m.type])
    BY <1>1, FitsIsLength
  <1>4. QED
    BY <1>2, <1>3 DEF Applies, Trader!Applicable

\* A message with the length of its type is encoded and decoded.
LEMMA FittingIsRecovered ==
  ASSUME stream \in Streams, NEW i \in Ids, Fits(i)
  PROVE  BlockCount(Message(i).length) # 0 /\ DecodeOk(Message(i).length)
  <1>1. PICK n \in {36, 40, 31, 23, 19, 35} : n = Message(i).length
    BY StreamFacts DEF Fits, ParseFails, LengthFor, KnownLengths
  <1>2. Deserializer!BlockCount(n, 8) = (n + 4 + 7 - 1) \div 7
    BY <1>1 DEF Deserializer!BlockCount, Deserializer!CrcBytes, Deserializer!BytesPerBlock
  <1>3. BlockCount(n) # 0
    BY <1>1, <1>2 DEF BlockCount, EncodeBlocks
  <1>4. DecodeOk(n)
    BY <1>1, <1>2 DEF DecodeOk, EncodeBlocks, DecodeBytes, Deserializer!Recoverable,
       Deserializer!CrcBytes, Deserializer!BytesPerBlock, Deserializer!Smaller
  <1>5. QED
    BY <1>1, <1>3, <1>4

TableInv ==
  /\ \A i \in 0 .. PastRead - 1 : Applies(stream, i)
  /\ WellFormed(entries, book, Nat, PriceRange, IntMax) /\ Backed(entries, book, PriceRange)
  /\ Tracked(entries, Resting(stream)[PastRead])
  /\ DOMAIN event = Ids
  /\ ~Free(bookSlot) => event[PastRead] = Decode(Message(PastRead))

\* What happens to the message in the book stage at a posedge.
LEMMA BookTurn ==
  ASSUME FeedStreams, Typed, PipeTypeOK, NEW F \in [Ids -> Int], Timed(F), edge = "pos",
         TableInv, BookStep, ~Free(bookSlot),
         NEW n, n = PastRead, NEW m, m = Message(n), NEW e, e = Decode(m),
         NEW q, q = Resting(stream)[n], NEW w, w = Trader!Apply(q, m)
  PROVE  /\ n \in Ids /\ m \in Messages /\ FeedMessage(m) /\ ~ParseFails(m)
         /\ apply_to_book(e) /\ quote' = [quote EXCEPT ![n] = BestQuote(book')]
         /\ e = event[bookSlot.msg] /\ PastBook = n + 1
         /\ ApplyFails(e) <=> ~Applies(stream, n)
         /\ ~ApplyFails(e) => /\ WellFormed(entries', book', Nat, PriceRange, IntMax)
                              /\ Backed(entries', book', PriceRange)
                              /\ Tracked(entries', w) /\ Resting(stream)[n + 1] = w
  <1>1. BookFires /\ bookSlot.msg = n /\ stream \in Streams /\ InOrder
    BY BackEndMoves DEF Timed, InOrder, Typed
  <1>2. /\ n \in Nat /\ PastBook = n + 1 /\ PastBook <= nextMsg
        /\ nextMsg \in Nat /\ nextMsg <= Count /\ Count \in Nat
    BY <1>1, Chain DEF PastBook, Has
  <1>3. n \in Ids
    BY <1>2 DEF Ids
  <1>4. m \in Messages /\ FeedMessage(m) /\ Len(stream) \in Nat /\ Count = Len(stream)
    BY <1>1, <1>3, FeedFacts
  <1>5. ~ParseFails(m)
    <2>1. Fits(n)
      BY <1>2 DEF Timed, FrontEndTimes
    <2>2. QED
      BY <2>1 DEF Fits
  <1>6. e = event[bookSlot.msg]
    BY <1>1 DEF TableInv
  <1>7. apply_to_book(e) /\ quote' = [quote EXCEPT ![n] = BestQuote(book')]
    BY <1>1, <1>6 DEF BookStep
  <1>8. /\ WellFormed(entries, book, Nat, PriceRange, IntMax) /\ Backed(entries, book, PriceRange)
        /\ Tracked(entries, q) /\ SoundTable(entries)
    BY DEF TableInv, WellFormed, SoundTable
  <1>9. /\ ApplyFails(e) <=> ~Trader!Applicable(q, m)
        /\ ~ApplyFails(e) => Tracked(entries', w)
    BY <1>4, <1>5, <1>7, <1>8, StepTracked
  <1>10. Trader!Applicable(q, m) <=> Applies(stream, n)
    BY DEF Applies, Message
  <1>11. WellFormedEvent(e, Nat, PriceRange, IntMax)
    BY <1>4, <1>5, FeedEvent
  <1>12. ~ApplyFails(e) => /\ WellFormed(entries', book', Nat, PriceRange, IntMax)
                           /\ Backed(entries', book', PriceRange)
    BY <1>7, <1>8, <1>11, IntMaxAssumption, ApplyKeeps
  <1>13. Trader!Applicable(q, m) => Resting(stream)[n + 1] = w
    <2>1. n + 1 \in 1 .. Len(stream) /\ (n + 1) - 1 = n
      BY <1>2, <1>4
    <2>2. Resting(stream)[n + 1] = Step(Resting(stream)[(n + 1) - 1], stream[n + 1])
      BY <1>4, <2>1, RestingFacts
    <2>3. Resting(stream)[n + 1] = Step(q, m)
      BY <2>1, <2>2 DEF Message
    <2>4. QED
      BY <2>3 DEF Step
  <1>14. QED
    BY <1>2, <1>3, <1>4, <1>5, <1>6, <1>7, <1>9, <1>10, <1>12, <1>13

\* A posedge without a fault applies the message in the book stage, if any.
LEMMA PosedgeTable ==
  ASSUME BramLatency = 1, FeedStreams, Typed, PipeTypeOK, NEW F \in [Ids -> Int], Timed(F),
         TableInv, Posedge, ~error'
  PROVE  TableInv'
  <1>1. /\ Moves /\ edge = "pos" /\ BookStep /\ ParseStep /\ stream' = stream
        /\ ~ContentFault /\ InOrder
    BY DEF Posedge, Moves, Timed, AtPosedge
  <1>2. PastRead' = PastBook /\ PastRead \in Nat /\ stream \in Streams
    BY <1>1, PlacesBehind, Chain DEF Typed
  <1>3. DOMAIN event' = Ids'
    <2>1. Ids' = Ids
      BY <1>1 DEF Ids, Count
    <2>2. QED
      BY <1>1, <2>1 DEF TableInv, ParseStep
  <1>4. PICK k : k = PastBook
    OBVIOUS
  <1>5. ASSUME ~Free(bookSlot)' PROVE event'[k] = Decode(Message(k))
    <2>1. ParseFires /\ ~Free(parse)
      BY <1>1, <1>5, BookMoves, BackEndMoves
    <2>2. parse.msg = k /\ k \in Nat /\ k < nextMsg
      BY <1>1, <1>4, <2>1, Chain DEF InOrder, PastParse, Has
    <2>3. k \in Ids
      BY <1>1, <2>2, Chain DEF Ids
    <2>4. PICK m \in Messages : m = Message(k) /\ ~ParseFails(m)
      BY <1>1, <1>2, <2>1, <2>2, <2>3, FeedFacts DEF ContentFault
    <2>5. Decodes(m)
      BY <2>4, FitsIsLength
    <2>6. parserEvent' = Decode(m) /\ event' = [event EXCEPT ![k] = parserEvent']
      BY <1>1, <2>1, <2>2, <2>4, <2>5 DEF ParseStep
    <2>7. QED
      BY <2>3, <2>4, <2>6 DEF TableInv
  <1>6. /\ \A i \in 0 .. k - 1 : Applies(stream, i)
        /\ WellFormed(entries', book', Nat, PriceRange, IntMax) /\ Backed(entries', book', PriceRange)
        /\ Tracked(entries', Resting(stream)[k])
    <2>1. CASE Free(bookSlot)
      <3>1. k = PastRead
        BY <1>2, <1>4, <2>1 DEF PastBook, Has
      <3>2. ~BookFires
        BY <1>1, <2>1, BackEndMoves
      <3>3. entries' = entries /\ book' = book
        BY <1>1, <3>2 DEF BookStep
      <3>4. QED
        BY <3>1, <3>3 DEF TableInv
    <2>2. CASE ~Free(bookSlot)
      <3>1. PICK n, m, e, q, w :
              /\ n = PastRead /\ m = Message(n) /\ e = Decode(m)
              /\ q = Resting(stream)[n] /\ w = Trader!Apply(q, m)
        OBVIOUS
      <3>2. /\ e = event[bookSlot.msg] /\ PastBook = n + 1
            /\ ApplyFails(e) <=> ~Applies(stream, n)
            /\ ~ApplyFails(e) => /\ WellFormed(entries', book', Nat, PriceRange, IntMax)
                                 /\ Backed(entries', book', PriceRange)
                                 /\ Tracked(entries', w) /\ Resting(stream)[n + 1] = w
        BY <1>1, <2>2, <3>1, BookTurn
      <3>3. BookFires
        BY <1>1, <2>2, BackEndMoves
      <3>4. ~ApplyFails(e)
        BY <1>1, <3>2, <3>3 DEF ContentFault
      <3>5. \A i \in 0 .. k - 1 : i = n \/ i \in 0 .. n - 1
        BY <1>2, <1>4, <3>1, <3>2
      <3>6. \A i \in 0 .. k - 1 : Applies(stream, i)
        BY <3>1, <3>2, <3>4, <3>5 DEF TableInv
      <3>7. QED
        BY <1>4, <3>2, <3>4, <3>6
    <2>3. QED
      BY <2>1, <2>2
  <1>7. PastRead' = k /\ Message(PastRead)' = Message(k)
    BY <1>1, <1>2, <1>4 DEF Message
  <1>8. QED
    BY <1>1, <1>3, <1>5, <1>6, <1>7 DEF TableInv

\* A negedge does not touch the table.
LEMMA NegedgeTable ==
  ASSUME BramLatency = 1, Typed, PipeTypeOK, NEW F \in [Ids -> Int], Timed(F), TableInv, Negedge
  PROVE  TableInv'
  <1>1. PastRead' = PastRead /\ UNCHANGED <<stream, bookSlot, event, entries, book>>
    BY NegedgePlaces DEF Negedge
  <1>2. Ids' = Ids /\ Message(PastRead)' = Message(PastRead) /\ (Free(bookSlot)' <=> Free(bookSlot))
    BY <1>1 DEF Ids, Count, Message, Free
  <1>3. QED
    BY <1>1, <1>2 DEF TableInv

\* No message before the book stage has been found wrong, so none before PastRead.
LEMMA GoodSoFar ==
  ASSUME Typed, PipeTypeOK, InOrder, TableInv
  PROVE  PastRead <= Good(stream) /\ Good(stream) \in Nat
  <1>1. Len(stream) \in Nat /\ Count = Len(stream)
    BY StreamFacts DEF Typed, Count
  <1>2. PastRead \in 0 .. Len(stream)
    BY <1>1, Chain
  <1>3. \A i \in 0 .. PastRead - 1 : Applies(stream, i)
    BY DEF TableInv
  <1>4. QED
    BY <1>1, <1>2, <1>3, GoodFacts

\* A call of fail() in a posedge is about a message that cannot be applied.
LEMMA PosedgeFault ==
  ASSUME BramLatency = 1, FeedStreams, Typed, PipeTypeOK, NEW F \in [Ids -> Int], Timed(F),
         dmaEngine.ring = <<>>, TableInv, Posedge, error'
  PROVE  completed' <= Good(stream) /\ Good(stream) < nextMsg'
  <1>1. /\ Moves /\ edge = "pos" /\ BookStep /\ PcsStep /\ InOrder
        /\ error' = (ResourceFault \/ ContentFault) /\ stream \in Streams
    BY DEF Posedge, Moves, Timed, AtPosedge, Typed
  <1>2. ContentFault
    BY <1>1, NoResourceFault
  <1>3. /\ completed' = PastDma /\ nextMsg' = nextMsg + (IF Picks THEN 1 ELSE 0)
    BY <1>1, PlacesBehind, PcsMoves
  <1>4. completed' <= Good(stream)
    <2>1. PICK a \in Nat, b \in Nat, c \in Nat : a = PastDma /\ b = PastRead /\ c = Good(stream)
      BY <1>1, Chain, GoodSoFar
    <2>2. a <= b /\ b <= c
      BY <1>1, <2>1, Chain, GoodSoFar
    <2>3. QED
      BY <1>3, <2>1, <2>2
  <1>5. PICK j \in Ids : ~Applies(stream, j) /\ j < nextMsg'
    <2>1. CASE BookFires /\ ApplyFails(event[bookSlot.msg])
      <3>1. ~Free(bookSlot)
        BY <1>1, <2>1, BackEndMoves
      <3>2. PICK n, m, e, q, w :
              /\ n = PastRead /\ m = Message(n) /\ e = Decode(m)
              /\ q = Resting(stream)[n] /\ w = Trader!Apply(q, m)
        OBVIOUS
      <3>3. /\ n \in Ids /\ e = event[bookSlot.msg] /\ PastBook = n + 1
            /\ ApplyFails(e) <=> ~Applies(stream, n)
        BY <1>1, <3>1, <3>2, BookTurn
      <3>4. n \in Nat /\ n < nextMsg /\ nextMsg \in Nat
        BY <1>1, <3>2, <3>3, Chain
      <3>5. QED
        BY <1>3, <2>1, <3>3, <3>4
    <2>2. CASE ParseFires /\ ParseFails(Message(parse.msg))
      <3>1. ~Free(parse)
        BY <1>1, <2>2, BackEndMoves
      <3>2. PICK n \in Nat : n = parse.msg /\ n < nextMsg /\ n < Count /\ nextMsg \in Nat
        BY <1>1, <3>1, Chain DEF InOrder, PastParse, Has
      <3>3. n \in Ids /\ ~Fits(n)
        BY <1>1, <2>2, <3>2, Chain DEF Ids, Fits
      <3>4. QED
        BY <1>1, <1>3, <3>2, <3>3, UnfitNeverApplies
    <2>3. CASE Picks /\ BlockCount(Message(nextMsg).length) = 0
      <3>1. nextMsg \in Ids
        BY <1>1, <2>3, Chain DEF Picks, Ids
      <3>2. ~Fits(nextMsg)
        BY <1>1, <2>3, <3>1, FittingIsRecovered
      <3>3. nextMsg \in Nat
        BY <1>1, Chain
      <3>4. QED
        BY <1>1, <1>3, <2>3, <3>1, <3>2, <3>3, UnfitNeverApplies
    <2>4. CASE PcsFires /\ (~DecodeOk(Message(PcsLoaded.msg).length) \/ ~IpgOk(MacIpgIdleBytes))
      <3>1. /\ ~Free(PcsLoaded) /\ nextMsg + (IF Picks THEN 1 ELSE 0) = PastMac + 1
            /\ PastMac \in Ids /\ PcsLoaded.msg = PastMac
        BY <1>1, <2>4, WireFacts
      <3>2. IpgOk(MacIpgIdleBytes)
        BY DEF IpgOk, MacIpgIdleBytes, MinimumIpgBytes
      <3>3. ~Fits(PastMac)
        BY <1>1, <2>4, <3>1, <3>2, FittingIsRecovered
      <3>4. PastMac \in Nat
        BY <1>1, Chain
      <3>5. QED
        BY <1>1, <1>3, <3>1, <3>3, <3>4, UnfitNeverApplies
    <2>5. QED
      BY <1>2, <2>1, <2>2, <2>3, <2>4 DEF ContentFault
  <1>6. Len(stream) \in Nat /\ j \in Nat
    BY <1>1, FeedFacts DEF Ids
  <1>7. Good(stream) \in Nat /\ Good(stream) <= j
    BY <1>5, <1>6, GoodFacts
  <1>8. PICK g \in Nat, x \in Nat : g = Good(stream) /\ x = nextMsg
    BY <1>1, <1>7, Chain
  <1>9. Good(stream) < nextMsg'
    BY <1>3, <1>5, <1>6, <1>7, <1>8
  <1>10. QED
    BY <1>4, <1>9

\* Where an error is raised, or the orders behind the book stage.
OrdersInv ==
  IF error THEN completed <= Good(stream) /\ Good(stream) < nextMsg ELSE TableInv

\* At the start no order rests and the table is empty.
LEMMA InitTable == PipeInit => OrdersInv
  <1> SUFFICES ASSUME PipeInit PROVE TableInv /\ error = FALSE
    BY DEF OrdersInv
  <1>1. /\ stream \in Streams /\ error = FALSE /\ completed = 0 /\ dmaQ = <<>> /\ ofiRing = <<>>
        /\ bramRing = <<>> /\ Free(dma) /\ Free(ofiIn) /\ Free(rd) /\ Free(bookSlot)
        /\ entries = [i \in Slots |-> NoEntry] /\ book = EmptyBook /\ DOMAIN event = Ids
    BY DEF PipeInit, TableInit, BookInit, Free, EmptySlot, NoMsg
  <1>2. PastRead = 0
    BY <1>1 DEF PastRead, PastRam, PastRegister, PastOfi, PastQueue, PastDma, Has
  <1>3. /\ WellFormed(entries, book, Nat, PriceRange, IntMax)
        /\ Backed(entries, book, PriceRange)
    BY <1>1, EmptyStage, IntMaxAssumption
  <1>4. Resting(stream)[0] = <<>>
    BY <1>1, StreamFacts, RestingFacts DEF Count
  <1>5. Tracked(entries, <<>>)
    <2>1. \A k : ~Known(entries, k)
      BY <1>1 DEF Known, Holding, NoEntry
    <2>2. DOMAIN <<>> = {} /\ <<>> = [k \in DOMAIN <<>> |-> <<>>[k]]
      OBVIOUS
    <2>3. QED
      BY <2>1, <2>2 DEF Tracked
  <1>6. QED
    BY <1>1, <1>2, <1>3, <1>4, <1>5 DEF TableInv

\* Every step keeps it; a content fault is raised only for a message that
\* cannot be applied.
LEMMA OrdersKept ==
  ASSUME BramLatency = 1, FeedStreams, PipeInv, OrdersInv, [PipeNext]_pipeVars
  PROVE  OrdersInv'
  <1>1. Typed /\ PipeTypeOK /\ dmaEngine.ring = <<>>
    BY DEF PipeInv
  <1>2. CASE error
    <2>1. /\ UNCHANGED <<stream, completed, nextMsg, error>>
      BY <1>2 DEF PipeNext, Posedge, Negedge, PosedgeAfterError, NegedgeAfterError, countVars,
                  pipeVars
    <2>2. QED
      BY <1>2, <2>1 DEF OrdersInv
  <1>3. CASE ~error /\ UNCHANGED pipeVars
    <2>1. UNCHANGED <<stream, bookSlot, rd, ofiIn, dma, bramRing, ofiRing, dmaQ, completed,
                      error, event, entries, book>>
      BY <1>3 DEF pipeVars, slotVars, ringVars, countVars, messageVars
    <2>2. PastRead' = PastRead
      BY <2>1 DEF PastRead, PastRam, PastRegister, PastOfi, PastQueue, PastDma, Has, Free
    <2>3. Ids' = Ids /\ Message(PastRead)' = Message(PastRead) /\ (Free(bookSlot)' <=> Free(bookSlot))
      BY <2>1, <2>2 DEF Ids, Count, Message, Free
    <2>4. QED
      BY <1>3, <2>1, <2>2, <2>3 DEF OrdersInv, TableInv
  <1>4. CASE ~error /\ PipeNext
    <2>1. PICK F \in [Ids -> Int] : Timed(F)
      BY <1>4 DEF PipeInv
    <2>2. TableInv
      BY <1>4 DEF OrdersInv
    <2>3. CASE Negedge
      <3>1. error' = FALSE
        BY <1>1, <2>1, <2>3, NegedgeMoves
      <3>2. TableInv'
        BY <1>1, <2>1, <2>2, <2>3, NegedgeTable
      <3>3. QED
        BY <3>1, <3>2 DEF OrdersInv
    <2>4. CASE Posedge
      <3>1. CASE error'
        <4>1. completed' <= Good(stream) /\ Good(stream) < nextMsg'
          BY <1>1, <2>1, <2>2, <2>4, <3>1, PosedgeFault
        <4>2. stream' = stream
          BY <2>4 DEF Posedge
        <4>3. QED
          BY <3>1, <4>1, <4>2 DEF OrdersInv
      <3>2. CASE ~error'
        BY <1>1, <2>1, <2>2, <2>4, <3>2, PosedgeTable DEF OrdersInv
      <3>3. QED
        BY <3>1, <3>2
    <2>5. QED
      BY <1>4, <2>3, <2>4 DEF PipeNext, PosedgeAfterError, NegedgeAfterError
  <1>5. QED
    BY <1>2, <1>3, <1>4

\* While there is no error every message behind the book stage has been applied
\* as the untimed specification applies it.
THEOREM OrdersInvariant == BramLatency = 1 /\ FeedStreams => (PipeSpec => []OrdersInv)
  <1> SUFFICES ASSUME BramLatency = 1, FeedStreams PROVE PipeSpec => []OrdersInv
    OBVIOUS
  <1>1. PipeInv /\ OrdersInv /\ [PipeNext]_pipeVars => OrdersInv'
    BY OrdersKept
  <1>2. QED
    BY <1>1, InitTable, PipelineInvariant, PTL DEF PipeSpec

\* Whatever call of fail() raises an error, it is the fault of a message that
\* cannot be applied (stage_pcs, stage_parse, apply_to_book), which has been
\* taken off the wire; neither it nor any message after it has a decision.
THEOREM FaultsAlwaysAreContent ==
  BramLatency = 1 /\ FeedStreams => (PipeSpec => []FaultsAreContent)
  <1> SUFFICES ASSUME BramLatency = 1, FeedStreams PROVE PipeSpec => []FaultsAreContent
    OBVIOUS
  <1>1. PipeInv /\ OrdersInv => FaultsAreContent
    BY GoodPrefixIsGood DEF PipeInv, Typed, OrdersInv, FaultsAreContent
  <1>2. QED
    BY <1>1, OrdersInvariant, PipelineInvariant, PTL

(***************************************************************************)
(* The quotes, the imbalances and their total.                             *)
(***************************************************************************)
\* Quotes as the book gives them.
QuoteSet == [bidPrice : PriceRange, bidQty : Nat, askPrice : PriceRange, askQty : Nat]

\* The quote behind the first i messages of s, and the imbalance of the next.
QuoteAfter(s, i) == Trader!QuoteOf(Resting(s)[i])
ImbalanceOf(s, i) == saturate(ContOfi(QuoteAfter(s, i + 1), QuoteAfter(s, i)))

\* They are those of the untimed specification.
LEMMA ImbalanceIs == \A i : Trader!Imbalance(i) = ImbalanceOf(stream, i)
  BY AfterIsResting, SameOperators DEF Trader!Imbalance, ImbalanceOf, QuoteAfter

\* A quote of the book has prices that fit an int32_t and no negative shares.
LEMMA BestQuoteTyped ==
  ASSUME NEW b \in Books(PriceRange)
  PROVE  BestQuote(b) \in QuoteSet
  <1>1. b.bids \in SideArrays(PriceRange) /\ b.asks \in SideArrays(PriceRange)
    BY DEF Books
  <1>2. PICK bb, ba : bb = best_bid(b) /\ ba = best_ask(b)
    OBVIOUS
  <1>3. \A side \in SideArrays(PriceRange) : \A i \in Occupied(side) :
          side[i].price \in PriceRange /\ side[i].quantity \in Nat
    <2> SUFFICES ASSUME NEW side \in SideArrays(PriceRange), NEW i \in Occupied(side)
                 PROVE  side[i].price \in PriceRange /\ side[i].quantity \in Nat
      OBVIOUS
    <2>1. i \in Rows /\ side[i].valid
      BY DEF Occupied, Unused
    <2>2. QED
      BY <2>1, RowCases
  <1>4. PriceRange \subseteq 0 .. IntMax /\ 0 \in PriceRange /\ IntMax \in PriceRange
    BY IntMaxAssumption DEF PriceRange
  <1>5. NoLevel.price \in PriceRange /\ NoLevel.quantity \in Nat
    BY <1>4 DEF NoLevel
  <1>6. bb.price \in PriceRange /\ bb.quantity \in Nat
    <2>1. CASE Occupied(b.bids) = {}
      BY <1>2, <1>5, <2>1 DEF best_bid
    <2>2. CASE Occupied(b.bids) # {}
      <3>1. PICK x \in Occupied(b.bids) : best_bid(b) = b.bids[x]
        BY <1>4, <2>2, BestRows
      <3>2. QED
        BY <1>1, <1>2, <1>3, <3>1
    <2>3. QED
      BY <2>1, <2>2
  <1>7. ba.price \in PriceRange /\ ba.quantity \in Nat
    <2>1. CASE Occupied(b.asks) = {}
      BY <1>2, <1>5, <2>1 DEF best_ask
    <2>2. CASE Occupied(b.asks) # {}
      <3>1. PICK x \in Occupied(b.asks) : best_ask(b) = b.asks[x]
        BY <1>4, <2>2, BestRows
      <3>2. QED
        BY <1>1, <1>2, <1>3, <3>1
    <2>3. QED
      BY <2>1, <2>2
  <1>8. QED
    BY <1>2, <1>4, <1>6, <1>7 DEF BestQuote, Quote, QuoteSet

\* The branches of side_bid and side_ask add up to the formula; before the
\* first quote they compare with the quote of an empty book.
LEMMA EnteringImbalance ==
  ASSUME NEW q \in QuoteSet, NEW p \in QuoteSet, NEW last, NEW have \in BOOLEAN,
         have => last = p, ~have => p = EmptyQuote
  PROVE  side_bid(q, last, have) + side_ask(q, last, have) = ContOfi(q, p)
  <1>1. /\ q.bidPrice \in 0 .. IntMax /\ q.askPrice \in 0 .. IntMax
        /\ q.bidQty \in Nat /\ q.askQty \in Nat
        /\ p.bidPrice \in 0 .. IntMax /\ p.askPrice \in 0 .. IntMax
        /\ p.bidQty \in Nat /\ p.askQty \in Nat
    BY DEF QuoteSet, PriceRange
  <1>2. CASE have
    <2>1. last = p
      BY <1>2
    <2>2. side_bid(q, p, have) = If(q.bidPrice >= p.bidPrice, q.bidQty)
                                   - If(q.bidPrice <= p.bidPrice, p.bidQty)
      BY <1>1, <1>2 DEF side_bid, If
    <2>3. side_ask(q, p, have) = If(q.askPrice >= p.askPrice, p.askQty)
                                   - If(q.askPrice <= p.askPrice, q.askQty)
      BY <1>1, <1>2 DEF side_ask, If
    <2>4. /\ If(q.bidPrice >= p.bidPrice, q.bidQty) \in Nat
          /\ If(q.bidPrice <= p.bidPrice, p.bidQty) \in Nat
          /\ If(q.askPrice >= p.askPrice, p.askQty) \in Nat
          /\ If(q.askPrice <= p.askPrice, q.askQty) \in Nat
      BY <1>1 DEF If
    <2>5. QED
      BY <2>1, <2>2, <2>3, <2>4 DEF ContOfi
  <1>3. CASE ~have
    <2>1. p.bidPrice = 0 /\ p.bidQty = 0 /\ p.askPrice = IntMax /\ p.askQty = 0
      BY <1>3 DEF EmptyQuote, Quote
    <2>2. QED
      BY <1>1, <1>3, <2>1, IntMaxAssumption DEF side_bid, side_ask, ContOfi, If
  <1>4. QED
    BY <1>2, <1>3

IsTotal(f, s) ==
  f = [n \in 0 .. Len(s) |-> IF n = 0 THEN 0 ELSE f[n - 1] + ImbalanceOf(s, n - 1)]

\* The imbalances of the first messages of s added up.
TotalOf(s) == CHOOSE f : IsTotal(f, s)

\* f adds up the first n of them.
AddsUp(f, s, n) ==
  f = [i \in 0 .. n |-> f[i]] /\ f[0] = 0
    /\ \A i \in 1 .. n : f[i] = f[i - 1] + ImbalanceOf(s, i - 1)

\* The recursive total exists and is a running sum.
LEMMA TotalIs ==
  ASSUME NEW s, Len(s) \in Nat
  PROVE  /\ TotalOf(s)[0] = 0
         /\ \A i \in 1 .. Len(s) : TotalOf(s)[i] = TotalOf(s)[i - 1] + ImbalanceOf(s, i - 1)
  <1> DEFINE B == {n \in Nat : ~\E f : AddsUp(f, s, n)}
  <1>1. B = {}
    <2> SUFFICES ASSUME B # {} PROVE FALSE
      OBVIOUS
    <2>1. PICK n \in Nat : n = Min(B) /\ n \in B /\ \A y \in B : n <= y
      BY MinOfNats
    <2>2. AddsUp([i \in 0 .. 0 |-> 0], s, 0)
      BY DEF AddsUp
    <2>3. n # 0
      BY <2>1, <2>2
    <2>4. PICK k \in Nat : k = n - 1
      BY <2>3
    <2>5. PICK f : AddsUp(f, s, k)
      <3>1. ~(n <= k)
        BY <2>4
      <3>2. k \notin B
        BY <2>1, <3>1
      <3>3. QED
        BY <3>2
    <2> DEFINE g == [i \in 0 .. n |-> IF i = n THEN f[k] + ImbalanceOf(s, k) ELSE f[i]]
    <2>6. g[0] = 0 /\ g = [i \in 0 .. n |-> g[i]]
      BY <2>3, <2>5 DEF AddsUp
    <2>7. ASSUME NEW i \in 1 .. n PROVE g[i] = g[i - 1] + ImbalanceOf(s, i - 1)
      <3>1. CASE i = n
        <4>1. g[i - 1] = f[k] /\ g[i] = f[k] + ImbalanceOf(s, k)
          BY <2>4, <3>1
        <4>2. QED
          BY <2>4, <3>1, <4>1
      <3>2. CASE i # n
        <4>1. i \in 1 .. k /\ i - 1 \in 0 .. n /\ i - 1 # n
          BY <2>4, <3>2
        <4>2. g[i] = f[i] /\ g[i - 1] = f[i - 1]
          BY <3>2, <4>1
        <4>3. f[i] = f[i - 1] + ImbalanceOf(s, i - 1)
          BY <2>5, <4>1 DEF AddsUp
        <4>4. QED
          BY <4>2, <4>3
      <3>3. QED
        BY <3>1, <3>2
    <2>8. AddsUp(g, s, n)
      <3> HIDE DEF g
      <3> QED
        BY <2>6, <2>7 DEF AddsUp
    <2>9. QED
      BY <2>1, <2>8
  <1>2. PICK f : AddsUp(f, s, Len(s))
    BY <1>1
  <1>3. IsTotal(f, s)
    <2>1. /\ f[0] = 0 /\ f = [i \in 0 .. Len(s) |-> f[i]]
          /\ \A i \in 0 .. Len(s) : i # 0 => f[i] = f[i - 1] + ImbalanceOf(s, i - 1)
      BY <1>2 DEF AddsUp
    <2>2. QED
      BY <2>1 DEF IsTotal
  <1>4. IsTotal(TotalOf(s), s)
    BY <1>3 DEF TotalOf
  <1>5. QED
    BY <1>4 DEF IsTotal

(***************************************************************************)
(* What the book stage, the RAM and the OFI unit hold.                     *)
(***************************************************************************)
\* The messages that are applied never leave orders at more prices of a side
\* than the book has levels.
Narrow(s) == \A i \in 0 .. Good(s) : NarrowSides(Resting(s)[i])

\* These are the streams the book has levels enough for.
LEMMA ShallowIsNarrow ==
  ASSUME stream \in Streams
  PROVE  ShallowStream <=> Narrow(stream)
  <1>1. Trader!GoodPrefix = Good(stream) /\ Trader!After = Resting(stream)
    BY GoodPrefixIsGood, AfterIsResting
  <1>2. \A q, c : Trader!Prices(q, c) = PricesOn(q, c)
    BY DEF Trader!Prices, PricesOn
  <1>3. QED
    BY <1>1, <1>2, SameOperators, Zenon DEF ShallowStream, Trader!AtMostPrices, Narrow, NarrowSides

\* The messages that have passed the book stage left their quotes behind.
QuotesInv ==
  /\ book.overflow = 0 /\ DOMAIN quote = Ids
  /\ \A i \in 0 .. PastRead : QuoteAfter(stream, i) \in QuoteSet
  /\ \A i \in 0 .. PastRead - 1 : quote[i] = QuoteAfter(stream, i + 1)

\* The book stage writes the quote of the message it applies.
LEMMA PosedgeQuotes ==
  ASSUME BramLatency = 1, FeedStreams, Typed, PipeTypeOK, NEW F \in [Ids -> Int], Timed(F),
         Narrow(stream), TableInv, QuotesInv, Posedge, ~error'
  PROVE  QuotesInv'
  <1>1. /\ Moves /\ edge = "pos" /\ BookStep /\ stream' = stream /\ ~ContentFault /\ InOrder
    BY DEF Posedge, Moves, Timed, AtPosedge
  <1>2. PICK k : k = PastBook /\ PastRead' = k /\ PastRead \in Nat /\ Ids' = Ids
    BY <1>1, PlacesBehind, Chain DEF Ids, Count
  <1>3. CASE Free(bookSlot)
    <2>1. k = PastRead
      BY <1>2, <1>3 DEF PastBook, Has
    <2>2. book' = book /\ quote' = quote
      BY <1>1, <1>3, BackEndMoves DEF BookStep
    <2>3. QED
      BY <1>1, <1>2, <2>1, <2>2 DEF QuotesInv
  <1>4. CASE ~Free(bookSlot)
    <2>1. PICK n, m, e, q, w :
            /\ n = PastRead /\ m = Message(n) /\ e = Decode(m)
            /\ q = Resting(stream)[n] /\ w = Trader!Apply(q, m)
      OBVIOUS
    <2>2. /\ n \in Ids /\ m \in Messages /\ FeedMessage(m) /\ ~ParseFails(m)
          /\ apply_to_book(e) /\ quote' = [quote EXCEPT ![n] = BestQuote(book')]
          /\ e = event[bookSlot.msg] /\ PastBook = n + 1
          /\ ApplyFails(e) <=> ~Applies(stream, n)
          /\ ~ApplyFails(e) => /\ WellFormed(entries', book', Nat, PriceRange, IntMax)
                               /\ Backed(entries', book', PriceRange)
                               /\ Tracked(entries', w) /\ Resting(stream)[n + 1] = w
      BY <1>1, <1>4, <2>1, BookTurn
    <2>3. ~ApplyFails(e)
      BY <1>1, <1>4, <2>2, BackEndMoves DEF ContentFault
    <2>4. k = n + 1 /\ n \in Nat
      BY <1>2, <2>1, <2>2
    <2>5. NarrowSides(w)
      <3>1. stream \in Streams /\ Len(stream) \in Nat /\ n + 1 \in 0 .. Len(stream)
        BY <2>2, <2>4, FeedFacts DEF Typed, Ids
      <3>2. \A i \in 0 .. (n + 1) - 1 : i = n \/ i \in 0 .. n - 1
        BY <2>4
      <3>3. \A i \in 0 .. (n + 1) - 1 : Applies(stream, i)
        BY <2>1, <2>2, <2>3, <3>2 DEF TableInv
      <3>4. n + 1 <= Good(stream) /\ Good(stream) \in Nat
        BY <3>1, <3>3, GoodFacts
      <3>5. n + 1 \in 0 .. Good(stream)
        BY <2>4, <3>4
      <3>6. QED
        BY <2>2, <2>3, <3>5 DEF Narrow
    <2>6. book'.overflow = 0
      <3>1. /\ WellFormed(entries, book, Nat, PriceRange, IntMax)
            /\ Backed(entries, book, PriceRange) /\ book.overflow = 0 /\ Tracked(entries, q)
        BY <2>1 DEF TableInv, QuotesInv
      <3>2. QED
        BY <2>1, <2>2, <2>3, <2>5, <3>1, StepFits
    <2>7. PICK d, u : d = book' /\ u = entries'
      OBVIOUS
    <2>8. /\ WellFormed(u, d, Nat, PriceRange, IntMax) /\ Backed(u, d, PriceRange)
          /\ d.overflow = 0 /\ Tracked(u, w)
      BY <2>2, <2>3, <2>6, <2>7
    <2>9. BestQuote(d) = Trader!QuoteOf(w)
      BY <2>8, QuoteIsOfOrders
    <2>10. BestQuote(d) = QuoteAfter(stream, n + 1) /\ BestQuote(d) \in QuoteSet
      BY <2>2, <2>3, <2>8, <2>9, BestQuoteTyped DEF QuoteAfter, WellFormed
    <2>11. /\ DOMAIN quote' = Ids /\ quote'[n] = QuoteAfter(stream, n + 1)
           /\ \A i \in Ids : i # n => quote'[i] = quote[i]
      BY <2>2, <2>7, <2>10 DEF QuotesInv
    <2>12. \A i \in 0 .. k : i = n + 1 \/ i \in 0 .. n
      BY <2>4
    <2>13. \A i \in 0 .. k : QuoteAfter(stream, i) \in QuoteSet
      BY <2>1, <2>10, <2>12 DEF QuotesInv
    <2>14. \A i \in 0 .. k - 1 : i = n \/ (i # n /\ i \in 0 .. n - 1 /\ i \in Ids)
      <3>1. Count \in Nat
        BY <1>1, Chain
      <3>2. QED
        BY <2>2, <2>4, <3>1 DEF Ids
    <2>15. \A i \in 0 .. k - 1 : quote'[i] = QuoteAfter(stream, i + 1)
      BY <2>1, <2>11, <2>14 DEF QuotesInv
    <2>16. QED
      BY <1>1, <1>2, <2>6, <2>11, <2>13, <2>15 DEF QuotesInv
  <1>5. QED
    BY <1>3, <1>4

\* The word of a message in the quote RAM.
WordOf(i) == i % BramDepth

\* It is an address of the RAM.
LEMMA WordFacts ==
  ASSUME NEW i \in Nat
  PROVE  WordOf(i) \in Address
  <1>1. \A m \in Nat, d \in Nat \ {0} : m % d \in 0 .. d - 1
    OBVIOUS
  <1>2. QED
    BY <1>1, BramAssumption DEF WordOf, Address

\* The quote RAM holds, or is about to hold, the quotes of the messages that
\* wait for it.
RamInv ==
  /\ DOMAIN memory = Address
  /\ edge = "pos" /\ ~Free(rd) => memory[WordOf(PastRam)] = quote[PastRam]
  /\ edge = "neg" =>
       /\ ~pending[0].b.write
       /\ Free(rd) => ~pending[0].a.write
       /\ ~Free(rd) => pending[0].a = WriteRequest(WordOf(PastRam), quote[PastRam])
       /\ bramRing # <<>> => /\ pending[0].b = ReadRequest(WordOf(PastRegister))
                             /\ Free(rd)
                             /\ memory[WordOf(PastRegister)] = quote[PastRegister]

\* The book stage writes the quote of its message and port B asks for the one
\* written in the cycle before.
LEMMA PosedgeRam ==
  ASSUME BramLatency = 1, Typed, PipeTypeOK, NEW F \in [Ids -> Int], Timed(F),
         DOMAIN quote = Ids, RamInv, Posedge
  PROVE  RamInv'
  <1>1. /\ Moves /\ edge = "pos" /\ edge' = "neg" /\ BookStep /\ ReadBackStage /\ InOrder
    BY DEF Posedge, Moves, Timed, AtPosedge
  <1>2. /\ bramRing = <<>> /\ (~Free(rd) => Free(bookSlot))
        /\ (Reads <=> ~Free(rd)) /\ (BookFires <=> ~Free(bookSlot))
    BY <1>1, BackEndMoves
  <1>3. /\ PastRam' = PastRead /\ PastRegister' = PastRegister
        /\ bramRing' = IF Free(rd) THEN <<>> ELSE <<PastRam>>
        /\ Free(rd)' <=> Free(bookSlot)
    BY <1>1, PlacesBehind, RamMoves
  <1>4. PICK a, b : /\ a = IF BookFires THEN WriteRequest(bookSlot.msg % BramDepth, BestQuote(book'))
                           ELSE NoRequest
                    /\ b = IF Reads THEN ReadRequest(rd.msg % BramDepth) ELSE NoRequest
    OBVIOUS
  <1>5. BramPosedge(a, b)
    BY <1>1, <1>4 DEF ReadBackStage
  <1>6. pending'[0] = [a |-> a, b |-> b] /\ memory' = memory
    BY <1>5, OneStage DEF BramPosedge
  <1>7. pending'[0].a = a /\ pending'[0].b = b
    BY <1>6
  <1>8. ~b.write /\ (Free(bookSlot) => ~a.write)
    BY <1>2, <1>4 DEF NoRequest, ReadRequest
  <1>9. ASSUME ~Free(bookSlot) PROVE a = WriteRequest(WordOf(PastRead), quote'[PastRead])
    <2>1. bookSlot.msg = PastRead /\ PastRead \in Nat /\ PastRead < nextMsg
      BY <1>1, <1>9, Chain DEF InOrder, PastBook, Has
    <2>2. PastRead \in Ids
      BY <1>1, <2>1, Chain DEF Ids
    <2>3. quote'[PastRead] = BestQuote(book')
      BY <1>1, <1>2, <1>9, <2>1, <2>2 DEF BookStep
    <2>4. QED
      BY <1>2, <1>4, <1>9, <2>1, <2>3 DEF WordOf
  <1>10. ASSUME ~Free(rd)
         PROVE  /\ b = ReadRequest(WordOf(PastRegister)) /\ Free(bookSlot)
                /\ memory[WordOf(PastRegister)] = quote'[PastRegister]
    <2>1. rd.msg = PastRam /\ PastRam = PastRegister
      BY <1>1, <1>2, <1>10, Chain DEF InOrder, PastRam
    <2>2. b = ReadRequest(WordOf(PastRegister)) /\ Free(bookSlot)
      BY <1>2, <1>4, <1>10, <2>1 DEF WordOf
    <2>3. quote' = quote
      BY <1>1, <1>2, <2>2 DEF BookStep
    <2>4. QED
      BY <1>1, <1>10, <2>1, <2>2, <2>3 DEF RamInv
  <1>11. DOMAIN memory' = Address /\ ~(edge' = "pos")
    BY <1>1, <1>6 DEF RamInv
  <1>12. bramRing' # <<>> => ~Free(rd)
    BY <1>3
  <1>13. QED
    BY <1>1, <1>3, <1>6, <1>7, <1>8, <1>9, <1>10, <1>11, <1>12 DEF RamInv, WordOf

\* What the RAM answers is the quote the message has, so the message keeps it.
LEMMA NegedgeRam ==
  ASSUME BramLatency = 1, Typed, PipeTypeOK, NEW F \in [Ids -> Int], Timed(F),
         DOMAIN quote = Ids, RamInv, Negedge
  PROVE  /\ RamInv' /\ DOMAIN quote' = Ids /\ \A i \in Ids : quote'[i] = quote[i]
         /\ TakeReadBack /\ CollectOfi
  <1>1. /\ InOrder /\ edge = "neg" /\ edge' = "pos" /\ error' = FALSE /\ Free(ofiIn)
        /\ rd' = rd /\ PastRam' = PastRam
    BY NegedgeMoves, NegedgePlaces DEF Timed, Negedge
  <1>2. PICK a, b : a = pending[0].a /\ b = pending[0].b
    OBVIOUS
  <1>3. /\ ~b.write /\ (Free(rd) => ~a.write)
        /\ ~Free(rd) => a = WriteRequest(WordOf(PastRam), quote[PastRam])
        /\ bramRing # <<>> => /\ b = ReadRequest(WordOf(PastRegister)) /\ Free(rd)
                              /\ memory[WordOf(PastRegister)] = quote[PastRegister]
        /\ DOMAIN memory = Address
    BY <1>1, <1>2 DEF RamInv
  <1>4. b.read <=> bramRing # <<>>
    BY <1>1, <1>2 DEF Timed, UnitsMatch
  <1>5. /\ memory' = Written(Written(memory, a), b)
        /\ responseB' = Answer(Written(Written(memory, a), b), b)
    BY <1>2 DEF Negedge, BramNegedge
  <1>6. memory' = Written(memory, a) /\ responseB' = Answer(Written(memory, a), b)
    BY <1>3, <1>5 DEF Written
  <1>7. PastRam \in Nat /\ PastRegister \in Nat
    BY <1>1, Chain
  <1>8. /\ Free(rd) => memory' = memory
        /\ ~Free(rd) => memory' = [memory EXCEPT ![WordOf(PastRam)] = quote[PastRam]]
    <2>1. ASSUME ~Free(rd) PROVE memory' = [memory EXCEPT ![WordOf(PastRam)] = quote[PastRam]]
      <3>1. PICK x, d : x = WordOf(PastRam) /\ d = quote[PastRam] /\ x \in Address
        BY <1>7, WordFacts
      <3>2. a = WriteRequest(x, d)
        BY <1>3, <2>1, <3>1
      <3>3. a.write /\ a.address = x /\ a.data = d
        BY <3>2 DEF WriteRequest
      <3>4. QED
        BY <1>6, <3>1, <3>3 DEF Written
    <2>2. QED
      BY <1>3, <1>6, <2>1 DEF Written
  <1>9. CASE bramRing = <<>>
    <2>1. ~responseB'.valid
      BY <1>4, <1>6, <1>9 DEF Answer, NoResponse
    <2>2. TakeReadBack /\ CollectOfi
      BY <2>1 DEF Negedge
    <2>3. quote' = quote
      BY <2>1, <2>2 DEF TakeReadBack
    <2>4. DOMAIN memory' = Address /\ (~Free(rd) => memory'[WordOf(PastRam)] = quote[PastRam])
      BY <1>3, <1>7, <1>8, WordFacts
    <2>5. QED
      BY <1>1, <2>2, <2>3, <2>4 DEF RamInv, WordOf, Free
  <1>10. CASE bramRing # <<>>
    <2>1. Head(bramRing) = PastRegister
      BY <1>1, <1>10 DEF InOrder, AtMost
    <2>2. memory' = memory /\ Free(rd)
      BY <1>3, <1>8, <1>10
    <2>3. responseB' = Answer(memory, b)
      BY <1>6, <2>2
    <2>4. b.read /\ b.address = WordOf(PastRegister) /\ WordOf(PastRegister) \in Address
      BY <1>3, <1>7, <1>10, WordFacts DEF ReadRequest
    <2>5. responseB'.valid /\ responseB'.data = quote[PastRegister]
      BY <1>3, <1>10, <2>3, <2>4 DEF Answer
    <2>6. TakeReadBack /\ CollectOfi
      BY <1>1, <1>10, <2>5 DEF Negedge, ReadBackFails
    <2>7. quote' = [quote EXCEPT ![PastRegister] = quote[PastRegister]]
      BY <2>1, <2>5, <2>6 DEF TakeReadBack
    <2>8. DOMAIN quote' = Ids /\ \A i \in Ids : quote'[i] = quote[i]
      BY <2>7
    <2>9. Free(rd)'
      BY <1>1, <2>2 DEF Free
    <2>10. RamInv'
      BY <1>1, <1>3, <2>2, <2>9 DEF RamInv
    <2>11. QED
      BY <2>6, <2>8, <2>10
  <1>11. QED
    BY <1>9, <1>10

\* The OFI unit: which quote it compares with, and what its stages hold.
OfiDataInv ==
  /\ DOMAIN ofi = Ids
  /\ validPrevious \in BOOLEAN /\ (validPrevious <=> PastOfi > 0)
  /\ validPrevious => previous = QuoteAfter(stream, PastOfi)
  /\ QuoteAfter(stream, 0) = EmptyQuote
  /\ \A k \in 0 .. (IF edge = "pos" THEN 1 ELSE 2) :
       ofiPipe[k].valid => ofiPipe[k].value = ImbalanceOf(stream, PastQueue)
  /\ \A i \in 0 .. PastQueue - 1 : ofi[i] = ImbalanceOf(stream, i)

\* The quote that enters is compared with the one of the message before it,
\* also when idle cycles lie between them.
LEMMA PosedgeOfi ==
  ASSUME BramLatency = 1, Typed, PipeTypeOK, NEW F \in [Ids -> Int], Timed(F),
         QuotesInv, OfiDataInv, Posedge
  PROVE  OfiDataInv'
  <1>1. /\ Moves /\ edge = "pos" /\ edge' = "neg" /\ OfiIssueStage /\ InOrder
        /\ stream' = stream /\ ofi' = ofi
    BY DEF Posedge, Moves, Timed, AtPosedge
  <1>2. PICK j \in Nat, n \in Nat : j = PastQueue /\ n = PastOfi
    BY <1>1, Chain
  <1>3. /\ PastQueue' = j /\ PastOfi' = PastRegister
        /\ OfiIssues <=> ~Free(ofiIn)
        /\ ~Free(ofiIn) => ofiRing = <<>>
    BY <1>1, <1>2, PlacesBehind, BackEndMoves
  <1>4. Ids' = Ids
    BY <1>1 DEF Ids, Count
  <1>5. /\ \A k \in 0 .. 1 : ofiPipe[k].valid => ofiPipe[k].value = ImbalanceOf(stream, j)
        /\ \A i \in 0 .. j - 1 : ofi[i] = ImbalanceOf(stream, i)
        /\ DOMAIN ofi = Ids /\ QuoteAfter(stream, 0) = EmptyQuote
        /\ validPrevious \in BOOLEAN /\ (validPrevious <=> n > 0)
        /\ validPrevious => previous = QuoteAfter(stream, n)
    BY <1>1, <1>2 DEF OfiDataInv
  <1>6. /\ 1 \in OfiStage /\ 2 \in OfiStage /\ 0 \in OfiStage /\ 1 - 1 = 0 /\ 2 - 1 = 1
        /\ \A k \in 0 .. 2 : k = 0 \/ k = 1 \/ k = 2
    BY DEF OfiStage, PipelineStages
  <1>7. CASE Free(ofiIn)
    <2>1. PastRegister = n
      BY <1>2, <1>7 DEF PastRegister, Has
    <2>2. ofiPipe' = Shifted(Bubble) /\ UNCHANGED <<previous, validPrevious>>
      BY <1>1, <1>3, <1>7 DEF OfiIssueStage, OfiIdle
    <2>3. ofiPipe'[0] = Bubble /\ ofiPipe'[1] = ofiPipe[0] /\ ofiPipe'[2] = ofiPipe[1]
      BY <1>6, <2>2 DEF Shifted
    <2>4. \A k \in 0 .. 2 : ofiPipe'[k].valid => ofiPipe'[k].value = ImbalanceOf(stream, j)
      BY <1>5, <1>6, <2>3 DEF Bubble
    <2>5. QED
      BY <1>1, <1>3, <1>4, <1>5, <2>1, <2>2, <2>4 DEF OfiDataInv
  <1>8. CASE ~Free(ofiIn)
    <2>1. PastRegister = n + 1 /\ j = n /\ ofiIn.msg = n
      BY <1>1, <1>2, <1>3, <1>8 DEF PastRegister, PastOfi, Has, InOrder
    <2>2. PICK q, p : q = QuoteAfter(stream, n + 1) /\ p = QuoteAfter(stream, n)
      OBVIOUS
    <2>3. n \in 0 .. PastRead - 1 /\ n \in 0 .. PastRead /\ n + 1 \in 0 .. PastRead
      BY <1>1, <1>2, <2>1, Chain
    <2>4. quote[n] = q /\ q \in QuoteSet /\ p \in QuoteSet
      BY <2>2, <2>3 DEF QuotesInv
    <2>5. /\ ofiPipe' = Shifted(Value(saturate(side_bid(q, previous, validPrevious)
                                                 + side_ask(q, previous, validPrevious))))
          /\ previous' = q /\ validPrevious' = TRUE
      BY <1>1, <1>3, <1>8, <2>1, <2>4 DEF OfiIssueStage, OfiPosedge
    <2>6. side_bid(q, previous, validPrevious) + side_ask(q, previous, validPrevious) = ContOfi(q, p)
      <3>1. (validPrevious => previous = p) /\ (~validPrevious => p = EmptyQuote)
        BY <1>2, <1>5, <2>2
      <3>2. QED
        BY <1>5, <2>4, <3>1, EnteringImbalance
    <2>7. ofiPipe' = Shifted(Value(ImbalanceOf(stream, n)))
      BY <2>2, <2>5, <2>6 DEF ImbalanceOf
    <2>8. /\ ofiPipe'[0] = Value(ImbalanceOf(stream, n))
          /\ ofiPipe'[1] = ofiPipe[0] /\ ofiPipe'[2] = ofiPipe[1]
      BY <1>6, <2>7 DEF Shifted
    <2>9. \A k \in 0 .. 2 : ofiPipe'[k].valid => ofiPipe'[k].value = ImbalanceOf(stream, j)
      BY <1>5, <1>6, <2>1, <2>8 DEF Value
    <2>10. PastOfi' = n + 1 /\ n + 1 > 0
      BY <1>3, <2>1
    <2>11. QED
      BY <1>1, <1>3, <1>4, <1>5, <2>2, <2>5, <2>9, <2>10 DEF OfiDataInv
  <1>9. QED
    BY <1>7, <1>8

\* The totals of the messages that have left the OFI unit, and the host's log.
TotalsInv ==
  /\ cumulativeOfi = TotalOf(stream)[PastQueue]
  /\ PastQueue > 0 => lastOfi = ImbalanceOf(stream, PastQueue - 1)

\* The value that leaves the OFI unit is the imbalance of the message whose id
\* leaves the ring.
LEMMA NegedgeOfi ==
  ASSUME BramLatency = 1, Typed, PipeTypeOK, NEW F \in [Ids -> Int], Timed(F),
         OfiDataInv, TotalsInv, CollectOfi, Negedge
  PROVE  OfiDataInv' /\ TotalsInv'
  <1>1. /\ InOrder /\ edge = "neg" /\ edge' = "pos" /\ dmaQ = <<>>
        /\ ofiPipe' = ofiPipe /\ UNCHANGED <<stream, previous, validPrevious>>
        /\ output' = ofiPipe[2]
    <2>1. InOrder
      BY DEF Timed
    <2>2. edge = "neg" /\ edge' = "pos" /\ dmaQ = <<>> /\ ofiPipe' = ofiPipe
      BY <2>1, NegedgeMoves DEF Timed
    <2>3. UNCHANGED <<stream, previous, validPrevious>> /\ output' = ofiPipe[PipelineStages - 1]
      BY DEF Negedge, OfiNegedge
    <2>4. PipelineStages - 1 = 2
      BY DEF PipelineStages
    <2>5. QED
      BY <2>1, <2>2, <2>3, <2>4
  <1>2. PICK j \in Nat, n \in Nat : j = PastQueue /\ n = PastOfi
    BY <1>1, Chain
  <1>3. /\ PastQueue' = j + Len(dmaQ') /\ PastOfi' = n /\ Ids' = Ids
    BY <1>1, <1>2, NegedgePlaces DEF Ids, Count
  <1>4. /\ \A k \in 0 .. 2 : ofiPipe[k].valid => ofiPipe[k].value = ImbalanceOf(stream, j)
        /\ \A i \in 0 .. j - 1 : ofi[i] = ImbalanceOf(stream, i)
        /\ DOMAIN ofi = Ids /\ QuoteAfter(stream, 0) = EmptyQuote
        /\ validPrevious \in BOOLEAN /\ (validPrevious <=> n > 0)
        /\ validPrevious => previous = QuoteAfter(stream, n)
        /\ cumulativeOfi = TotalOf(stream)[j]
        /\ j > 0 => lastOfi = ImbalanceOf(stream, j - 1)
    BY <1>1, <1>2 DEF OfiDataInv, TotalsInv
  <1>5. /\ ofiPipe[2].valid => ofiRing # <<>>
        /\ ofiPipe[2].valid => ~ofiPipe[0].valid /\ ~ofiPipe[1].valid
    <2>1. \A k \in 0 .. 2 : ofiPipe[k].valid <=> ofiRing # <<>> /\ F[PastQueue] = Now - 7 - k
      BY <1>1 DEF Timed, UnitsMatch
    <2>2. Now \in Int
      BY DEF Typed, Now
    <2>3. Now - 7 - 2 # Now - 7 - 1 /\ Now - 7 - 2 # Now - 7 - 0
      BY <2>2
    <2>4. QED
      BY <2>1, <2>3
  <1>6. CASE ~ofiPipe[2].valid
    <2>1. dmaQ' = dmaQ /\ UNCHANGED <<ofi, lastOfi, cumulativeOfi>>
      BY <1>1, <1>6 DEF CollectOfi
    <2>2. PastQueue' = j
      BY <1>1, <1>3, <2>1
    <2>3. QED
      BY <1>1, <1>3, <1>4, <2>1, <2>2 DEF OfiDataInv, TotalsInv
  <1>7. CASE ofiPipe[2].valid
    <2>1. ~CollectFails
      BY <1>1, <1>5, <1>7, PipelineAssumption DEF CollectFails
    <2>2. Head(ofiRing) = j
      BY <1>1, <1>2, <1>5, <1>7 DEF InOrder, AtMost
    <2>3. PICK v : v = ImbalanceOf(stream, j) /\ output'.valid /\ output'.value = v
      BY <1>1, <1>4, <1>7
    <2>4. /\ dmaQ' = <<j>> /\ ofi' = [ofi EXCEPT ![j] = v]
          /\ lastOfi' = v /\ cumulativeOfi' = cumulativeOfi + v
      BY <1>1, <2>1, <2>2, <2>3 DEF CollectOfi
    <2>5. PastQueue' = j + 1 /\ j + 1 > 0 /\ (j + 1) - 1 = j
      BY <1>2, <1>3, <2>4
    <2>6. j < nextMsg
      <3>1. Len(ofiRing) = 1
        BY <1>1, <1>5, <1>7 DEF InOrder, AtMost
      <3>2. PastOfi = j + 1
        BY <1>2, <3>1 DEF PastOfi
      <3>3. QED
        BY <1>1, <1>2, <3>2, Chain
    <2>7. j \in Ids /\ Count \in Nat
      BY <1>1, <1>2, <2>6, Chain DEF Ids
    <2>8. \A i \in 0 .. j : i = j \/ (i # j /\ i \in 0 .. j - 1 /\ i \in Ids)
      BY <1>2, <2>7 DEF Ids
    <2>9. DOMAIN ofi' = Ids /\ \A i \in 0 .. j : ofi'[i] = ImbalanceOf(stream, i)
      BY <1>4, <2>3, <2>4, <2>7, <2>8
    <2>10. cumulativeOfi' = TotalOf(stream)[j + 1]
      <3>1. Len(stream) \in Nat /\ j + 1 \in 1 .. Len(stream)
        BY <1>2, <2>7 DEF Ids, Count
      <3>2. TotalOf(stream)[j + 1] = TotalOf(stream)[(j + 1) - 1] + ImbalanceOf(stream, (j + 1) - 1)
        BY <3>1, TotalIs
      <3>3. QED
        BY <1>4, <2>3, <2>4, <2>5, <3>2
    <2>11. TotalsInv'
      BY <1>1, <2>3, <2>4, <2>5, <2>10 DEF TotalsInv
    <2>12. \A k \in 0 .. 1 : ~ofiPipe'[k].valid
      <3>1. \A k \in 0 .. 1 : k = 0 \/ k = 1
        OBVIOUS
      <3>2. QED
        BY <1>1, <1>5, <1>7, <3>1
    <2>13. OfiDataInv'
      BY <1>1, <1>3, <1>4, <2>5, <2>9, <2>12 DEF OfiDataInv
    <2>14. QED
      BY <2>11, <2>13
  <1>8. QED
    BY <1>6, <1>7

(***************************************************************************)
(* The records the host drains.                                            *)
(***************************************************************************)
\* The record of message i of the stream s.
DecisionOf(s, i) ==
  [tag |-> i, ofi |-> ImbalanceOf(s, i), bidPrice |-> QuoteAfter(s, i + 1).bidPrice,
   askPrice |-> QuoteAfter(s, i + 1).askPrice]

\* It is the one of the untimed specification.
LEMMA DecisionIs == \A i : Trader!Decision(i) = DecisionOf(stream, i)
  BY AfterIsResting, ImbalanceIs DEF Trader!Decision, DecisionOf, QuoteAfter

Decisions == {DecisionOf(stream, i) : i \in Nat}

\* The host has drained one record for every message that is completed.
HostInv == host \in Seq(Decisions) /\ Len(host) = completed

\* One record is drained, that of the next message, which can be applied.
Drains ==
  /\ completed < Good(stream)
  /\ host' = Append(host, DecisionOf(stream, completed)) /\ completed' = completed + 1

\* A posedge drains one record or none, also in the cycle of an error: the
\* record is made of the quote and the imbalance the message has by then.
LEMMA PosedgeHost ==
  ASSUME BramLatency = 1, Typed, PipeTypeOK, NEW F \in [Ids -> Int], Timed(F),
         dmaEngine.ring = <<>>, TableInv, QuotesInv, OfiDataInv, Posedge
  PROVE  UNCHANGED <<host, completed>> \/ Drains
  <1>1. /\ edge = "pos" /\ DmaStage /\ InOrder
    BY DEF Posedge, Timed, AtPosedge
  <1>2. completed \in Nat /\ PastDma \in Nat /\ PastQueue \in Nat /\ PastRead \in Nat
        /\ PastDma <= PastQueue /\ PastQueue <= PastRead
    BY <1>1, Chain
  <1>3. CASE Free(dma)
    <2>1. ~Posts
      BY <1>1, <1>3, BackEndMoves
    <2>2. QED
      BY <1>1, <2>1 DEF DmaStage
  <1>4. CASE ~Free(dma)
    <2>1. Posts /\ DmaLoaded = dma /\ dma.msg = completed
      BY <1>1, <1>4, BackEndMoves DEF DmaLoaded, InOrder
    <2>2. PastDma = completed + 1
      BY <1>4 DEF PastDma, Has
    <2>3. completed \in 0 .. PastQueue - 1 /\ completed \in 0 .. PastRead - 1
      BY <1>2, <2>2
    <2>4. ofi[completed] = ImbalanceOf(stream, completed)
          /\ quote[completed] = QuoteAfter(stream, completed + 1)
      BY <2>3 DEF OfiDataInv, QuotesInv
    <2>5. Record(completed) = DecisionOf(stream, completed)
      BY <2>4 DEF Record, DecisionOf
    <2>6. PostOk(dmaEngine)
      BY HostRingAssumption DEF PostOk
    <2>7. PostedEngine(completed).ring = Append(<<>>, Record(completed))
      BY <2>6 DEF PostedEngine, PostWrite
    <2>8. Head(Append(<<>>, Record(completed))) = Record(completed)
      OBVIOUS
    <2>9. post_decision(completed)
      BY <1>1, <2>1 DEF DmaStage
    <2>10. host' = Append(host, DecisionOf(stream, completed)) /\ completed' = completed + 1
      BY <2>5, <2>6, <2>7, <2>8, <2>9 DEF post_decision
    <2>11. completed < Good(stream)
      <3>1. PICK g \in Nat : g = Good(stream) /\ PastRead <= g
        BY <1>1, GoodSoFar
      <3>2. QED
        BY <1>2, <2>3, <3>1
    <2>12. QED
      BY <2>10, <2>11 DEF Drains
  <1>5. QED
    BY <1>3, <1>4

\* Draining a record keeps the log of the host as it is described.
LEMMA DrainsKeeps ==
  ASSUME HostInv, completed \in Nat, stream' = stream, UNCHANGED <<host, completed>> \/ Drains
  PROVE  HostInv'
  <1>1. Decisions' = Decisions
    BY DEF Decisions
  <1>2. CASE UNCHANGED <<host, completed>>
    BY <1>1, <1>2 DEF HostInv
  <1>3. CASE Drains
    <2>1. DecisionOf(stream, completed) \in Decisions
      BY DEF Decisions
    <2>2. PICK S, h, d : /\ S = Decisions /\ h = host /\ d = DecisionOf(stream, completed)
                         /\ h \in Seq(S) /\ d \in S /\ Len(h) = completed
      BY <2>1 DEF HostInv
    <2>3. Append(h, d) \in Seq(S) /\ Len(Append(h, d)) = Len(h) + 1
      BY <2>2
    <2>4. QED
      BY <1>1, <1>3, <2>2, <2>3 DEF HostInv, Drains
  <1>4. QED
    BY <1>2, <1>3

(***************************************************************************)
(* The inductive invariant of what the pipeline computes.                  *)
(***************************************************************************)
TraderInv ==
  /\ Narrow(stream) /\ TotalsInv /\ HostInv
  /\ ~error => QuotesInv /\ RamInv /\ OfiDataInv

\* Nothing has been computed when the pipeline is built.
LEMMA InitTrader ==
  ASSUME PipeInit, Narrow(stream)
  PROVE  TraderInv
  <1>1. /\ stream \in Streams /\ completed = 0 /\ dmaQ = <<>> /\ ofiRing = <<>>
        /\ bramRing = <<>> /\ Free(dma) /\ Free(ofiIn) /\ Free(rd) /\ edge = "pos"
        /\ book = EmptyBook /\ DOMAIN quote = Ids /\ DOMAIN ofi = Ids
        /\ cumulativeOfi = 0 /\ host = <<>> /\ DOMAIN memory = Address
        /\ validPrevious = FALSE /\ ofiPipe = [i \in OfiStage |-> Bubble]
        /\ entries = [i \in Slots |-> NoEntry]
    BY DEF PipeInit, BookInit, TableInit, BramInit, OfiInit, ClockInit, Free, EmptySlot, NoMsg
  <1>2. PastRead = 0 /\ PastOfi = 0 /\ PastQueue = 0
    BY <1>1 DEF PastRead, PastRam, PastRegister, PastOfi, PastQueue, PastDma, Has
  <1>3. Len(stream) \in Nat
    BY <1>1, StreamFacts DEF Count
  <1>4. QuoteAfter(stream, 0) = EmptyQuote /\ EmptyQuote \in QuoteSet /\ book.overflow = 0
    <2>1. TableInv
      BY <1>1, InitTable DEF OrdersInv, PipeInit
    <2>2. PICK q : q = Resting(stream)[0] /\ Tracked(entries, q)
      BY <1>2, <2>1 DEF TableInv
    <2>3. book.overflow = 0
      BY <1>1 DEF EmptyBook
    <2>4. /\ WellFormed(entries, book, Nat, PriceRange, IntMax)
          /\ Backed(entries, book, PriceRange)
      BY <2>1 DEF TableInv
    <2>5. BestQuote(book) = Trader!QuoteOf(q)
      BY <2>2, <2>3, <2>4, QuoteIsOfOrders
    <2>6. BestQuote(book) = EmptyQuote
      BY <1>1, EmptyStage, IntMaxAssumption
    <2>7. book \in Books(PriceRange)
      BY <2>4 DEF WellFormed
    <2>8. QED
      BY <2>2, <2>3, <2>5, <2>6, <2>7, BestQuoteTyped DEF QuoteAfter
  <1>5. QuotesInv
    <2>1. \A i \in 0 .. 0 : i = 0
      OBVIOUS
    <2>2. \A i \in 0 .. 0 - 1 : FALSE
      OBVIOUS
    <2>3. QED
      BY <1>1, <1>2, <1>4, <2>1, <2>2 DEF QuotesInv
  <1>6. RamInv
    BY <1>1 DEF RamInv
  <1>7. OfiDataInv
    <2>1. \A k \in 0 .. 1 : k \in OfiStage
      BY DEF OfiStage, PipelineStages
    <2>2. \A k \in 0 .. 1 : ~ofiPipe[k].valid
      BY <1>1, <2>1 DEF Bubble
    <2>3. \A i \in 0 .. 0 - 1 : FALSE
      OBVIOUS
    <2>4. validPrevious \in BOOLEAN /\ ~validPrevious /\ ~(PastOfi > 0)
      <3>1. ~(PastOfi > 0)
        BY <1>2
      <3>2. validPrevious \in BOOLEAN /\ ~validPrevious
        BY <1>1, Zenon
      <3>3. QED
        BY <3>1, <3>2, Zenon
    <2>5. \A k \in 0 .. (IF edge = "pos" THEN 1 ELSE 2) : ~ofiPipe[k].valid
      BY <1>1, <2>2
    <2>6. \A i \in 0 .. PastQueue - 1 : FALSE
      BY <1>2, <2>3
    <2>7. QED
      BY <1>1, <1>4, <2>4, <2>5, <2>6 DEF OfiDataInv
  <1>8. TotalsInv
    BY <1>1, <1>2, <1>3, TotalIs DEF TotalsInv
  <1>9. HostInv
    BY <1>1 DEF HostInv
  <1>10. QED
    BY <1>5, <1>6, <1>7, <1>8, <1>9 DEF TraderInv

\* A posedge moves every message one place on and computes its quote and its
\* imbalance; a record leaves only for a message that can be applied.
LEMMA PosedgeTrader ==
  ASSUME BramLatency = 1, FeedStreams, PipeInv, OrdersInv, TraderInv, Posedge
  PROVE  TraderInv' /\ stream' = stream /\ (UNCHANGED <<host, completed>> \/ Drains)
  <1>1. /\ Typed /\ PipeTypeOK /\ dmaEngine.ring = <<>> /\ ~error /\ stream' = stream
        /\ UNCHANGED <<lastOfi, cumulativeOfi>> /\ Moves /\ edge = "pos"
    BY DEF PipeInv, Posedge, Moves, AtPosedge
  <1>2. PICK F \in [Ids -> Int] : Timed(F)
    BY <1>1 DEF PipeInv
  <1>3. /\ TableInv /\ Narrow(stream) /\ TotalsInv /\ HostInv /\ QuotesInv /\ RamInv /\ OfiDataInv
        /\ DOMAIN quote = Ids /\ InOrder
    BY <1>1, <1>2 DEF OrdersInv, TraderInv, QuotesInv, Timed
  <1>4. UNCHANGED <<host, completed>> \/ Drains
    BY <1>1, <1>2, <1>3, PosedgeHost
  <1>5. HostInv'
    <2>1. completed \in Nat
      BY <1>1, <1>3, Chain
    <2>2. QED
      BY <1>1, <1>3, <1>4, <2>1, DrainsKeeps
  <1>6. PastQueue' = PastQueue
    BY <1>1, <1>2, PlacesBehind
  <1>7. TotalsInv'
    BY <1>1, <1>3, <1>6 DEF TotalsInv
  <1>8. ~error' => QuotesInv'
    BY <1>1, <1>2, <1>3, PosedgeQuotes
  <1>9. RamInv'
    BY <1>1, <1>2, <1>3, PosedgeRam
  <1>10. OfiDataInv'
    BY <1>1, <1>2, <1>3, PosedgeOfi
  <1>11. Narrow(stream)'
    BY <1>1, <1>3 DEF Narrow
  <1>12. QED
    BY <1>1, <1>4, <1>5, <1>7, <1>8, <1>9, <1>10, <1>11 DEF TraderInv

\* A negedge moves a quote and an imbalance to the message they belong to.
LEMMA NegedgeTrader ==
  ASSUME BramLatency = 1, PipeInv, OrdersInv, TraderInv, Negedge
  PROVE  TraderInv' /\ UNCHANGED <<stream, host, completed>>
  <1>1. /\ Typed /\ PipeTypeOK /\ ~error /\ UNCHANGED <<stream, host, completed, book>>
    BY DEF PipeInv, Negedge
  <1>2. PICK F \in [Ids -> Int] : Timed(F)
    BY <1>1 DEF PipeInv
  <1>3. /\ TableInv /\ Narrow(stream) /\ TotalsInv /\ HostInv /\ QuotesInv /\ RamInv /\ OfiDataInv
        /\ DOMAIN quote = Ids /\ InOrder
    BY <1>1, <1>2 DEF OrdersInv, TraderInv, QuotesInv, Timed
  <1>4. /\ RamInv' /\ DOMAIN quote' = Ids /\ (\A i \in Ids : quote'[i] = quote[i]) /\ CollectOfi
    BY <1>1, <1>2, <1>3, NegedgeRam
  <1>5. OfiDataInv' /\ TotalsInv'
    BY <1>1, <1>2, <1>3, <1>4, NegedgeOfi
  <1>6. PastRead' = PastRead /\ Ids' = Ids
    BY <1>1, <1>2, NegedgePlaces DEF Ids, Count
  <1>7. QuotesInv'
    <2>1. PICK p \in Nat : p = PastRead
      BY <1>1, <1>3, Chain
    <2>2. \A i \in 0 .. p - 1 : i \in Ids
      <3>1. p <= nextMsg /\ nextMsg \in Nat /\ nextMsg <= Count /\ Count \in Nat
        BY <1>1, <1>3, <2>1, Chain
      <3>2. QED
        BY <2>1, <3>1 DEF Ids
    <2>3. QED
      BY <1>1, <1>3, <1>4, <1>6, <2>1, <2>2 DEF QuotesInv
  <1>8. HostInv' /\ Narrow(stream)'
    BY <1>1, <1>3 DEF HostInv, Decisions, Narrow
  <1>9. QED
    BY <1>1, <1>4, <1>5, <1>7, <1>8 DEF TraderInv

\* After an error, and in a step that changes nothing, all of it stays.
LEMMA FrozenTrader ==
  ASSUME TraderInv, PosedgeAfterError \/ NegedgeAfterError \/ UNCHANGED pipeVars
  PROVE  TraderInv' /\ UNCHANGED <<stream, host, completed>>
  <1>1. /\ UNCHANGED <<stream, host, completed, dma, dmaQ, lastOfi, cumulativeOfi, error>>
        /\ error \/ UNCHANGED pipeVars
    BY DEF PosedgeAfterError, NegedgeAfterError, slotVars, ringVars, countVars, pipeVars
  <1>2. PastQueue' = PastQueue
    BY <1>1 DEF PastQueue, PastDma, Has, Free
  <1>3. TotalsInv' /\ HostInv' /\ Narrow(stream)'
    BY <1>1, <1>2 DEF TraderInv, TotalsInv, HostInv, Decisions, Narrow
  <1>4. ASSUME ~error PROVE QuotesInv' /\ RamInv' /\ OfiDataInv'
    <2>1. /\ QuotesInv /\ RamInv /\ OfiDataInv
          /\ UNCHANGED <<ofiIn, rd, bramRing, ofiRing, quote, ofi, edge, book, memory, pending,
                         ofiPipe, previous, validPrevious>>
      BY <1>1, <1>4 DEF TraderInv, pipeVars, slotVars, ringVars, messageVars, clockVars,
                        bramVars, ofiVars
    <2>2. /\ PastOfi' = PastOfi /\ PastRegister' = PastRegister /\ PastRam' = PastRam
          /\ PastRead' = PastRead /\ Ids' = Ids /\ (Free(rd)' <=> Free(rd))
      BY <1>1, <1>2, <2>1 DEF PastRead, PastRam, PastRegister, PastOfi, Has, Free, Ids, Count
    <2>3. QuotesInv'
      BY <1>1, <2>1, <2>2 DEF QuotesInv
    <2>4. RamInv'
      BY <1>1, <2>1, <2>2 DEF RamInv
    <2>5. OfiDataInv'
      BY <1>1, <1>2, <2>1, <2>2 DEF OfiDataInv
    <2>6. QED
      BY <2>3, <2>4, <2>5
  <1>5. QED
    BY <1>1, <1>3, <1>4 DEF TraderInv

\* Every step keeps the invariant and drains at most the next record.
LEMMA TraderKept ==
  ASSUME BramLatency = 1, FeedStreams, PipeInv, OrdersInv, TraderInv, [PipeNext]_pipeVars
  PROVE  TraderInv' /\ stream' = stream /\ (UNCHANGED <<host, completed>> \/ Drains)
  <1>1. CASE Posedge
    BY <1>1, PosedgeTrader
  <1>2. CASE Negedge
    BY <1>2, NegedgeTrader
  <1>3. CASE PosedgeAfterError \/ NegedgeAfterError \/ UNCHANGED pipeVars
    BY <1>3, FrozenTrader
  <1>4. QED
    BY <1>1, <1>2, <1>3 DEF PipeNext

\* What the pipeline holds of the orders, quotes, imbalances and decisions of
\* the untimed specification, at every edge.
THEOREM TraderInvariant ==
  BramLatency = 1 /\ FeedStreams => (PipeSpec /\ ShallowStream => []TraderInv)
  <1> SUFFICES ASSUME BramLatency = 1, FeedStreams
               PROVE  PipeSpec /\ ShallowStream => []TraderInv
    OBVIOUS
  <1>1. PipeInit /\ ShallowStream => TraderInv
    BY InitTrader, ShallowIsNarrow DEF PipeInit
  <1>2. PipeInv /\ OrdersInv /\ TraderInv /\ [PipeNext]_pipeVars => TraderInv'
    BY TraderKept
  <1>3. QED
    BY <1>1, <1>2, OrdersInvariant, PipelineInvariant, PTL DEF PipeSpec

\* TotalsAgree, for every feed and every depth of the rings: last_ofi() and
\* cumulative_ofi() are those of the messages that have passed the OFI unit,
\* computed from the orders alone and in stream order, although the unit works
\* on several of them at once.
THEOREM TotalsAlwaysAgree ==
  BramLatency = 1 /\ FeedStreams => (PipeSpec /\ ShallowStream => []TotalsAgree)
  <1> SUFFICES ASSUME BramLatency = 1, FeedStreams
               PROVE  PipeSpec /\ ShallowStream => []TotalsAgree
    OBVIOUS
  <1>1. PipeInv /\ TraderInv => TotalsAgree
    <2> SUFFICES ASSUME PipeInv, TraderInv PROVE TotalsAgree
      OBVIOUS
    <2>1. Len(Held(dma)) = Has(dma)
      BY DEF Held, Has
    <2>2. completed + Len(Held(dma)) + Len(dmaQ) = PastQueue
      BY <2>1 DEF PastQueue, PastDma
    <2>3. (CHOOSE total : total = [n \in 0 .. Count |-> IF n = 0 THEN 0 ELSE total[n - 1] + Trader!Imbalance(n - 1)])
            = TotalOf(stream)
      BY ImbalanceIs, Zenon DEF TotalOf, IsTotal, Count
    <2>4. QED
      BY <2>2, <2>3, ImbalanceIs, Zenon DEF TraderInv, TotalsInv, TotalsAgree
  <1>2. QED
    BY <1>1, TraderInvariant, PipelineInvariant, PTL

\* The pipeline implements the untimed trader: what it writes to the host is,
\* record by record and in stream order, the decision of a trader that keeps
\* the resting orders and looks at one message after another, and nothing is
\* written from the first message on that cannot be applied.
THEOREM PipelineImplementsTrader ==
  BramLatency = 1 /\ FeedStreams => (PipeSpec /\ ShallowStream => ImplementsTrader)
  <1> SUFFICES ASSUME BramLatency = 1, FeedStreams
               PROVE  PipeSpec /\ ShallowStream => ImplementsTrader
    OBVIOUS
  <1>1. PipeInit => Trader!TraderInit
    BY DEF PipeInit, Trader!TraderInit
  <1>2. PipeInv /\ OrdersInv /\ TraderInv /\ [PipeNext]_pipeVars => [Trader!Issue]_<<stream, host>>
    <2> SUFFICES ASSUME PipeInv, OrdersInv, TraderInv, [PipeNext]_pipeVars
                 PROVE  [Trader!Issue]_<<stream, host>>
      OBVIOUS
    <2>1. stream' = stream /\ (UNCHANGED <<host, completed>> \/ Drains)
      BY TraderKept
    <2>2. stream \in Streams /\ Len(host) = completed
      BY DEF PipeInv, Typed, TraderInv, HostInv
    <2>3. CASE Drains
      <3>1. Len(host) < Trader!GoodPrefix
        BY <2>2, <2>3, GoodPrefixIsGood DEF Drains
      <3>2. host' = Append(host, Trader!Decision(Len(host)))
        BY <2>2, <2>3, DecisionIs DEF Drains
      <3>3. QED
        BY <2>1, <3>1, <3>2 DEF Trader!Issue
    <2>4. QED
      BY <2>1, <2>3
  <1>3. QED
    BY <1>1, <1>2, TraderInvariant, OrdersInvariant, PipelineInvariant, PTL
       DEF PipeSpec, ImplementsTrader, Trader!TraderSpec
==============================================================================
