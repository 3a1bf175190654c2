-------------------------- MODULE Algorithms_proofs ---------------------------
(***************************************************************************)
(* The units that compute, the ones MCAlgorithms drives, for all           *)
(* arguments: the OFI unit puts out the imbalance its header defines,      *)
(* three cycles after the quote, the micro-price table treats buyers and   *)
(* sellers alike, the parser loses nothing between calls and says why it   *)
(* stopped, and the latency report is exact.                               *)
(***************************************************************************)
EXTENDS OfiBench, MicroPriceLut, LatencyStats, ItchParser, BookStage_proofs, SequenceTheorems

\* The branches of side_bid and side_ask add up to the indicator formula, for
\* any two quotes.
LEMMA BranchesAreFormula ==
  ASSUME NEW q \in [bidPrice : Int, bidQty : Int, askPrice : Int, askQty : Int],
         NEW p \in [bidPrice : Int, bidQty : Int, askPrice : Int, askQty : Int]
  PROVE  side_bid(q, p, TRUE) + side_ask(q, p, TRUE) = ContOfi(q, p)
BY DEF side_bid, side_ask, ContOfi, If

\* Before the first quote there is no previous one, which comes to the same
\* as a previous quote of an empty book.
LEMMA FirstQuoteAgainstEmptyBook ==
  ASSUME NEW qbp \in 0 .. IntMax, NEW qbq \in Int, NEW qap \in 0 .. IntMax, NEW qaq \in Int,
         NEW p
  PROVE  LET q == Quote(qbp, qbq, qap, qaq)
         IN  side_bid(q, p, FALSE) + side_ask(q, p, FALSE) = ContOfi(q, EmptyQuote)
BY IntMaxAssumption DEF Quote, EmptyQuote, side_bid, side_ask, ContOfi, If

\* What the pipeline holds between any two edges: the stages carry what is
\* owed, and the previous quote is the last one that entered.
OfiInv ==
  /\ edge \in {"pos", "neg"}
  /\ \A i \in OfiStage : ofiPipe[i] = due[i + 1]
  /\ validPrevious \in BOOLEAN
  /\ validPrevious => previous \in Quotes /\ quoted = previous
  /\ ~validPrevious => quoted = EmptyQuote
  /\ OutputIsContOfi

\* side_bid plus side_ask is the imbalance between the quote that enters and
\* the last one that did.
LEMMA EnteringValue ==
  ASSUME OfiInv, NEW q \in Quotes
  PROVE  side_bid(q, previous, validPrevious) + side_ask(q, previous, validPrevious)
           = ContOfi(q, quoted)
<1>1. PICK bp \in Prices, ap \in Prices, bq \in Quantities, aq \in Quantities :
        q = Quote(bp, bq, ap, aq)
  BY DEF Quotes
<1>2. bp \in 0 .. IntMax /\ ap \in 0 .. IntMax /\ bq \in Int /\ aq \in Int
  BY QuoteAssumption
<1>3. CASE validPrevious
  <2>1. \A r \in Quotes :
          r \in [bidPrice : Int, bidQty : Int, askPrice : Int, askQty : Int]
    <3> SUFFICES ASSUME NEW r \in Quotes
                 PROVE  r \in [bidPrice : Int, bidQty : Int, askPrice : Int, askQty : Int]
      OBVIOUS
    <3>1. PICK rbp \in Prices, rap \in Prices, rbq \in Quantities, raq \in Quantities :
            r = Quote(rbp, rbq, rap, raq)
      BY DEF Quotes
    <3>2. rbp \in Int /\ rap \in Int /\ rbq \in Int /\ raq \in Int
      BY QuoteAssumption, IntMaxAssumption
    <3>3. QED
      BY <3>1, <3>2 DEF Quote
  <2>2. previous \in Quotes /\ quoted = previous /\ validPrevious = TRUE
    BY <1>3 DEF OfiInv
  <2> QED
    BY <2>1, <2>2, BranchesAreFormula
<1>4. CASE ~validPrevious
  <2>1. quoted = EmptyQuote /\ validPrevious = FALSE
    BY <1>4 DEF OfiInv
  <2> QED
    BY <1>1, <1>2, <2>1, FirstQuoteAgainstEmptyBook
<1> QED
  BY <1>3, <1>4

\* Every output of the OFI unit is the saturated imbalance of two consecutive
\* quotes, three cycles after the second one entered, bubbles or not.
THEOREM OfiOutputCorrect == BenchSpec => []OutputIsContOfi
<1>1. BenchInit => OfiInv
  <2> SUFFICES ASSUME BenchInit
               PROVE  OfiInv
    OBVIOUS
  <2>1. \A i \in OfiStage : ofiPipe[i] = due[i + 1]
    BY DEF BenchInit, OfiInit, OfiStage, PipelineStages
  <2>2. output = due[3]
    BY DEF BenchInit, OfiInit
  <2> QED
    BY <2>1, <2>2 DEF BenchInit, OfiInit, OfiInv, OutputIsContOfi
<1>2. OfiInv /\ [BenchNext]_benchVars => OfiInv'
  <2> SUFFICES ASSUME OfiInv, [BenchNext]_benchVars
               PROVE  OfiInv'
    OBVIOUS
  <2>1. CASE UNCHANGED benchVars
    BY <2>1 DEF benchVars, ofiVars, OfiInv, OutputIsContOfi
  <2>2. ASSUME NEW q \in Quotes, QuoteEnters(q)
        PROVE  OfiInv'
    <3>1. ofiPipe'[0] = due'[1]
      BY <2>2, EnteringValue
      DEF QuoteEnters, OfiPosedge, Owe, Shifted, OfiStage, PipelineStages
    <3>2. ofiPipe'[1] = due'[2] /\ ofiPipe'[2] = due'[3]
      BY <2>2
      DEF QuoteEnters, OfiPosedge, Owe, Shifted, OfiStage, PipelineStages, OfiInv
    <3> QED
      BY <2>2, <3>1, <3>2
      DEF QuoteEnters, OfiPosedge, OfiInv, OfiStage, PipelineStages, OutputIsContOfi
  <2>3. CASE BubbleEnters
    <3>1. \A i \in OfiStage : ofiPipe'[i] = due'[i + 1]
      BY <2>3 DEF BubbleEnters, OfiIdle, Owe, Shifted, OfiStage, PipelineStages, OfiInv
    <3> QED
      BY <2>3, <3>1 DEF BubbleEnters, OfiIdle, OfiInv, OutputIsContOfi
  <2>4. CASE NegedgeStep
    BY <2>4
    DEF NegedgeStep, OfiNegedge, OfiInv, OfiStage, PipelineStages, OutputIsContOfi
  <2>5. CASE ResetStep
    <3>1. \A i \in OfiStage : ofiPipe'[i] = due'[i + 1]
      BY <2>5 DEF ResetStep, OfiReset, OfiStage, PipelineStages
    <3>2. output' = due'[3]
      BY <2>5 DEF ResetStep, OfiReset
    <3> QED
      BY <2>5, <3>1, <3>2 DEF ResetStep, OfiReset, OfiInv, OutputIsContOfi
  <2> QED
    BY <2>1, <2>2, <2>3, <2>4, <2>5 DEF BenchNext
<1>3. OfiInv => OutputIsContOfi
  BY DEF OfiInv
<1> QED
  BY <1>1, <1>2, <1>3, PTL DEF BenchSpec

(***************************************************************************)
(* The micro-price table.                                                  *)
(***************************************************************************)

\* The adjustment in closed form: truncation works on the absolute value.
Adjusted(x, s) == IF x < 0 THEN -(((-x) * s * 1000) \div 16) ELSE (x * s * 1000) \div 16

\* A lookup is the adjustment for the clamped arguments.
LEMMA LookupIs ==
  ASSUME NEW i \in Int, NEW s \in Nat
  PROVE  /\ ClampedImbalance(i) \in -16 .. 16 /\ ClampedSpread(s) \in 1 .. 8
         /\ Lookup(i, s) = Adjusted(ClampedImbalance(i), ClampedSpread(s))
  <1>1. PICK x \in -16 .. 16 : x = ClampedImbalance(i)
    BY DEF ClampedImbalance, ImbalanceMin, ImbalanceMax
  <1>2. PICK r \in 1 .. 8 : r = ClampedSpread(s)
    BY DEF ClampedSpread, SpreadLevels
  <1>3. Lookup(i, s) = Table[x + 16][r - 1]
    <2>1. x - ImbalanceMin = x + 16
      BY DEF ImbalanceMin
    <2>2. QED
      BY <1>1, <1>2, <2>1 DEF Lookup
  <1>4. x + 16 \in 0 .. 32 /\ r - 1 \in 0 .. SpreadLevels - 1
        /\ (x + 16) - 16 = x /\ (r - 1) + 1 = r
    BY <1>1, <1>2 DEF SpreadLevels
  <1>5. Table[x + 16][r - 1] = Div(((x + 16) - 16) * ((r - 1) + 1) * 1000, 16)
    BY <1>4 DEF Table
  <1>6. Div(x * r * 1000, 16) = Adjusted(x, r)
    <2>1. r \in {1, 2, 3, 4, 5, 6, 7, 8}
      BY <1>2
    <2>2. ASSUME NEW d \in {1, 2, 3, 4, 5, 6, 7, 8} PROVE Div(x * d * 1000, 16) = Adjusted(x, d)
      <3>1. x * d * 1000 < 0 <=> x < 0
        BY <1>1, <2>2
      <3>2. -(x * d * 1000) = (-x) * d * 1000
        BY <1>1, <2>2
      <3>3. QED
        BY <3>1, <3>2 DEF Div, Adjusted
    <2>3. QED
      BY <2>1, <2>2
  <1>7. QED
    BY <1>1, <1>2, <1>3, <1>4, <1>5, <1>6

\* Symmetry and monotonicity of the adjustment at one spread.
LEMMA AdjustedFacts ==
  ASSUME NEW x \in -16 .. 16, NEW y \in -16 .. 16, NEW s \in 1 .. 8
  PROVE  /\ Adjusted(-x, s) = -Adjusted(x, s)
         /\ x <= y => Adjusted(x, s) <= Adjusted(y, s)
  <1>1. CASE s = 1
    BY <1>1 DEF Adjusted
  <1>2. CASE s = 2
    BY <1>2 DEF Adjusted
  <1>3. CASE s = 3
    BY <1>3 DEF Adjusted
  <1>4. CASE s = 4
    BY <1>4 DEF Adjusted
  <1>5. CASE s = 5
    BY <1>5 DEF Adjusted
  <1>6. CASE s = 6
    BY <1>6 DEF Adjusted
  <1>7. CASE s = 7
    BY <1>7 DEF Adjusted
  <1>8. CASE s = 8
    BY <1>8 DEF Adjusted
  <1>9. QED
    BY <1>1, <1>2, <1>3, <1>4, <1>5, <1>6, <1>7, <1>8

\* Buyers and sellers are treated alike, for every imbalance and spread an
\* int32 and an unsigned argument can have.
THEOREM LutSymmetricAndMonotone == LutSpec => []SymmetricAndMonotone
  <1> DEFINE Inv == imbalance \in Int /\ spread \in Nat
  <1>1. LutInit => Inv
    BY DEF LutInit
  <1>2. Inv /\ [Ask]_lutVars => Inv'
    BY LutAssumption DEF Ask, lutVars
  <1>3. Inv => SymmetricAndMonotone
    <2> SUFFICES ASSUME Inv PROVE SymmetricAndMonotone
      OBVIOUS
    <2>1. ASSUME NEW i \in Int, i <= imbalance
          PROVE  Lookup(i, spread) <= Lookup(imbalance, spread)
      <3>1. ClampedImbalance(i) <= ClampedImbalance(imbalance)
        BY <2>1 DEF ClampedImbalance, ImbalanceMin, ImbalanceMax
      <3>2. QED
        BY <2>1, <3>1, LookupIs, AdjustedFacts
    <2>2. Lookup(-imbalance, spread) = -Lookup(imbalance, spread)
      <3>1. -imbalance \in Int
        OBVIOUS
      <3>2. ClampedImbalance(-imbalance) = -ClampedImbalance(imbalance)
        BY DEF ClampedImbalance, ImbalanceMin, ImbalanceMax
      <3>3. PICK x \in -16 .. 16 : x = ClampedImbalance(imbalance)
        BY LookupIs
      <3>4. PICK s \in 1 .. 8 : s = ClampedSpread(spread)
        BY LookupIs
      <3>5. Lookup(-imbalance, spread) = Adjusted(-x, s)
        BY <3>1, <3>2, <3>3, <3>4, LookupIs
      <3>6. Lookup(imbalance, spread) = Adjusted(x, s)
        BY <3>3, <3>4, LookupIs
      <3>7. Adjusted(-x, s) = -Adjusted(x, s)
        BY <3>3, <3>4, AdjustedFacts
      <3>8. QED
        BY <3>5, <3>6, <3>7
    <2>3. QED
      BY <2>1, <2>2, LutAssumption DEF SymmetricAndMonotone
  <1>4. QED
    BY <1>1, <1>2, <1>3, PTL DEF LutSpec

------------------------------------------------------------------------------
(***************************************************************************)
(* The parser's loop and the calls of it, for all buffers and event        *)
(* limits.                                                                 *)
(***************************************************************************)
MessageSizes(ms) == [k \in 1 .. Len(ms) |-> ms[k].size]

\* The messages of a buffer have sizes.
LEMMA MessageFacts ==
  ASSUME NEW ms \in Seq(Message)
  PROVE  /\ Len(ms) \in Nat /\ DOMAIN ms = 1 .. Len(ms)
         /\ \A k \in 1 .. Len(ms) : ms[k] \in Message /\ ms[k].size \in Nat \ {0}
         /\ MessageSizes(ms) \in [1 .. Len(ms) -> Nat]
  <1>1. Len(ms) \in Nat /\ DOMAIN ms = 1 .. Len(ms)
    OBVIOUS
  <1>2. \A k \in 1 .. Len(ms) : ms[k] \in Message
    OBVIOUS
  <1>3. \A m \in Message : m.size \in Nat \ {0} /\ m.size \in Nat
    BY DEF Message
  <1>4. MessageSizes(ms) \in [1 .. Len(ms) -> Nat]
    BY <1>2, <1>3 DEF MessageSizes
  <1>5. QED
    BY <1>1, <1>2, <1>3, <1>4

\* The size of the first messages is a prefix sum.
LEMMA SizeIsPrefixSum ==
  ASSUME NEW ms \in Seq(Message), NEW p, PrefixSums(p, MessageSizes(ms), Len(ms)),
         NEW m \in 0 .. Len(ms)
  PROVE  SizeOf(SubSeq(ms, 1, m)) = p[m]
  <1> DEFINE g == SubSeq(ms, 1, m)
             w == MessageSizes(ms)
             Q(h) == h = [s \in SUBSET DOMAIN g |->
                            IF s = {} THEN 0 ELSE h[s \ {Max(s)}] + g[Max(s)].size]
  <1>0. Len(ms) \in Nat /\ w \in [1 .. Len(ms) -> Nat] /\ m \in Nat /\ 1 .. m \subseteq 1 .. Len(ms)
    BY MessageFacts
  <1>1. DOMAIN g = 1 .. m
    BY <1>0
  <1>2. \A k \in 1 .. m : g[k] = ms[k]
    BY <1>0
  <1>3. \A k \in 1 .. m : w[k] = g[k].size
    BY <1>0, <1>2 DEF MessageSizes
  <1>4. SizeOf(g) = (CHOOSE h : Q(h))[DOMAIN g]
    <2> HIDE DEF g
    <2> QED
      BY Zenon DEF SizeOf, FoldLeft, MapThenFoldSet
  <1>5. PICK e : LeftFoldOf(e, w, m)
    <2> HIDE DEF w
    <2> QED
      BY <1>0, PrefixSumsExist
  <1> HIDE DEF g, w
  <1>6. Q(e)
    <2>1. ASSUME NEW s \in SUBSET (1 .. m), s # {}
          PROVE  e[s] = e[s \ {Max(s)}] + g[Max(s)].size
      <3>1. PICK x \in s : x = Max(s)
        BY <1>0, <2>1, MaxInInterval
      <3>2. e[s] = e[s \ {x}] + w[x]
        BY <1>5, <2>1, <3>1 DEF LeftFoldOf
      <3>3. x \in 1 .. m
        OBVIOUS
      <3>4. QED
        BY <1>3, <3>1, <3>2, <3>3
    <2>2. e = [s \in SUBSET (1 .. m) |-> e[s]] /\ e[{}] = 0
      BY <1>5 DEF LeftFoldOf
    <2>3. QED
      BY <1>1, <2>1, <2>2
  <1>7. PICK h : Q(h) /\ h = CHOOSE f : Q(f)
    <2> HIDE DEF Q
    <2> QED
      BY <1>6
  <1>8. UnfoldsTo(h, w, m)
    <2>1. h[{}] = 0
      BY <1>7
    <2>2. ASSUME NEW k \in 1 .. m, h[1 .. (k - 1)] \in Nat
          PROVE  h[1 .. k] = h[1 .. (k - 1)] + w[k]
      <3>0. k \in Nat \ {0} /\ 1 .. k \in SUBSET (1 .. m)
        BY <1>0
      <3>1. PICK K : K = 1 .. k
        OBVIOUS
      <3>2. K \in SUBSET DOMAIN g /\ K # {} /\ Max(K) = k /\ K \ {Max(K)} = 1 .. (k - 1)
        BY <1>1, <3>0, <3>1, MaxOfPrefix
      <3>3. h[K] = h[K \ {Max(K)}] + g[Max(K)].size
        BY <1>7, <3>2
      <3>4. QED
        BY <1>3, <3>1, <3>2, <3>3
    <2>3. QED
      BY <2>1, <2>2 DEF UnfoldsTo
  <1>9. h[1 .. m] = p[m]
    <2>1. PrefixSums(p, w, Len(ms))
      BY DEF w
    <2>2. QED
      BY <1>0, <1>8, <2>1, LeftFoldIsPrefixSum
  <1>10. QED
    <2>1. SizeOf(SubSeq(ms, 1, m)) = SizeOf(g)
      BY DEF g
    <2> HIDE DEF Q
    <2>2. QED
      BY <1>1, <1>4, <1>7, <1>9, <2>1

\* What BuffersAssumption says of one buffer.
BufferOk(ms) ==
  /\ ms \in Seq(Message)
  /\ \A k \in DOMAIN ms :
       \/ Whole(ms[k])
       \/ k = Len(ms) /\ (LengthFor(ms[k].type) = 0 \/ ms[k].size < LengthFor(ms[k].type))

\* The bytes of the first k messages.
Pre(ms, k) == SizeOf(SubSeq(ms, 1, k))

\* Every message moves the parser on by at least one byte.
LEMMA PreFacts ==
  ASSUME NEW ms \in Seq(Message)
  PROVE  /\ Len(ms) \in Nat /\ DOMAIN ms = 1 .. Len(ms)
         /\ \A k \in 0 .. Len(ms) : Pre(ms, k) \in Nat
         /\ Pre(ms, 0) = 0
         /\ \A k \in 1 .. Len(ms) : Pre(ms, k) = Pre(ms, k - 1) + ms[k].size
         /\ \A j, k \in 0 .. Len(ms) : j < k => Pre(ms, j) + ms[k].size <= Pre(ms, k)
         /\ \A k \in 1 .. Len(ms) : ms[k] \in Message /\ ms[k].size \in Nat \ {0}
  <1> DEFINE n == Len(ms)
             w == MessageSizes(ms)
  <1>1. /\ n \in Nat /\ DOMAIN ms = 1 .. n /\ w \in [1 .. n -> Nat]
        /\ \A k \in 1 .. n : ms[k] \in Message /\ ms[k].size \in Nat \ {0}
    BY MessageFacts
  <1>2. PICK p : PrefixSums(p, w, n)
    <2> HIDE DEF w, n
    <2> QED
      BY <1>1, PrefixSumsExist
  <1>3. \A k \in 0 .. n : Pre(ms, k) = p[k]
    BY <1>2, SizeIsPrefixSum DEF Pre
  <1>4. \A k \in 1 .. n : w[k] = ms[k].size
    BY DEF MessageSizes
  <1> HIDE DEF w
  <1>5. \A k \in 0 .. n : Pre(ms, k) \in Nat
    BY <1>2, <1>3 DEF PrefixSums
  <1>6. Pre(ms, 0) = 0
    BY <1>1, <1>2, <1>3 DEF PrefixSums
  <1>7. ASSUME NEW k \in 1 .. n PROVE Pre(ms, k) = Pre(ms, k - 1) + ms[k].size
    <2>1. k \in 0 .. n /\ k - 1 \in 0 .. n
      BY <1>1
    <2>2. p[k] = p[k - 1] + w[k]
      BY <1>2 DEF PrefixSums
    <2>3. QED
      BY <1>3, <1>4, <2>1, <2>2
  <1>8. ASSUME NEW j \in 0 .. n, NEW k \in 0 .. n, j < k
        PROVE  Pre(ms, j) + ms[k].size <= Pre(ms, k)
    <2>1. p[j] + w[k] <= p[k]
      BY <1>1, <1>2, <1>8, PrefixSumsGrow
    <2>2. k \in 1 .. n
      BY <1>1, <1>8
    <2>3. QED
      BY <1>3, <1>4, <2>1, <2>2
  <1>9. QED
    BY <1>1, <1>5, <1>6, <1>7, <1>8

\* No two messages start at the same byte.
LEMMA PreGrows ==
  ASSUME NEW ms \in Seq(Message), NEW j \in 0 .. Len(ms), NEW k \in 0 .. Len(ms)
  PROVE  (j < k <=> Pre(ms, j) < Pre(ms, k)) /\ (Pre(ms, j) = Pre(ms, k) => j = k)
  <1>1. ASSUME NEW i \in 0 .. Len(ms), NEW l \in 0 .. Len(ms), i < l
        PROVE  Pre(ms, i) < Pre(ms, l)
    <2>1. l \in 1 .. Len(ms)
      BY <1>1, PreFacts
    <2>2. PICK a \in Nat, b \in Nat, c \in Nat \ {0} :
            a = Pre(ms, i) /\ b = Pre(ms, l) /\ c = ms[l].size
      BY <2>1, PreFacts
    <2>3. a + c <= b
      BY <1>1, <2>2, PreFacts
    <2>4. a < b
      BY <2>3
    <2>5. QED
      BY <2>2, <2>4
  <1>2. PICK a \in Nat, b \in Nat : a = Pre(ms, j) /\ b = Pre(ms, k)
    BY PreFacts
  <1>3. j \in Nat /\ k \in Nat
    BY PreFacts
  <1>4. j < k => a < b
    BY <1>1, <1>2
  <1>5. k < j => b < a
    BY <1>1, <1>2
  <1>6. QED
    BY <1>2, <1>3, <1>4, <1>5

\* The whole buffer is its longest prefix.
LEMMA PreOfAll == ASSUME NEW ms \in Seq(Message) PROVE SizeOf(ms) = Pre(ms, Len(ms))
  <1>1. SubSeq(ms, 1, Len(ms)) = ms
    OBVIOUS
  <1>2. QED
    BY <1>1 DEF Pre

\* The message that starts behind the first n is the next one.
LEMMA MessageAt ==
  ASSUME NEW ms \in Seq(Message), NEW n \in 0 .. Len(ms), n < Len(ms), NEW at, at = Pre(ms, n)
  PROVE  /\ n + 1 \in 1 .. Len(ms)
         /\ (CHOOSE k \in DOMAIN ms : SizeOf(SubSeq(ms, 1, k - 1)) = at) = n + 1
  <1>1. Len(ms) \in Nat /\ DOMAIN ms = 1 .. Len(ms) /\ n \in Nat
    BY PreFacts
  <1>2. n + 1 \in 1 .. Len(ms) /\ n + 1 - 1 = n
    BY <1>1
  <1> DEFINE C(k) == k \in DOMAIN ms /\ SizeOf(SubSeq(ms, 1, k - 1)) = at
  <1>3. C(n + 1)
    BY <1>1, <1>2 DEF Pre
  <1>4. ASSUME NEW k, C(k) PROVE k = n + 1
    <2>1. k \in 1 .. Len(ms) /\ k - 1 \in 0 .. Len(ms) /\ Pre(ms, k - 1) = Pre(ms, n)
      BY <1>1, <1>4 DEF Pre
    <2>2. k - 1 = n
      BY <2>1, PreGrows
    <2>3. QED
      BY <1>1, <2>1, <2>2
  <1>5. (CHOOSE k \in DOMAIN ms : SizeOf(SubSeq(ms, 1, k - 1)) = at) = CHOOSE k : C(k)
    BY Zenon
  <1>6. QED
    <2>1. (CHOOSE k : C(k)) = n + 1
      <3> HIDE DEF C
      <3> QED
        BY <1>3, <1>4
    <2>2. QED
      BY <1>2, <1>5, <2>1

\* The events of the messages behind the first b up to the n-th.
EventsOf(ms, b, n) == [i \in 1 .. (n - b) |-> Decode(ms[b + i])]
Decodings == {Decode(m) : m \in Message}

\* They form a sequence, one event per message.
LEMMA EventsFacts ==
  ASSUME NEW ms \in Seq(Message), NEW n \in 0 .. Len(ms), NEW b \in 0 .. n
  PROVE  /\ EventsOf(ms, b, n) \in Seq(Decodings)
         /\ Len(EventsOf(ms, b, n)) = n - b
         /\ n - b \in Nat
         /\ \A i \in 1 .. (n - b) : EventsOf(ms, b, n)[i] = Decode(ms[b + i])
  <1>1. Len(ms) \in Nat /\ n - b \in Nat /\ b \in Nat
    BY PreFacts
  <1>2. \A i \in 1 .. (n - b) : b + i \in 1 .. Len(ms)
    BY <1>1
  <1>3. \A i \in 1 .. (n - b) : Decode(ms[b + i]) \in Decodings
    BY <1>2, PreFacts DEF Decodings
  <1>4. EventsOf(ms, b, n) \in [1 .. (n - b) -> Decodings]
    BY <1>3, Zenon DEF EventsOf
  <1>5. QED
    BY <1>1, <1>4 DEF EventsOf

\* One more message, one more event.
LEMMA EventsAppend ==
  ASSUME NEW ms \in Seq(Message), NEW n \in 0 .. Len(ms), NEW b \in 0 .. n, n < Len(ms),
         NEW m, m = n + 1
  PROVE  Append(EventsOf(ms, b, n), Decode(ms[m])) = EventsOf(ms, b, m)
  <1>1. /\ Len(ms) \in Nat /\ m \in 1 .. Len(ms) /\ m \in 0 .. Len(ms)
        /\ b \in 0 .. m /\ b \in Nat /\ n \in Nat
    BY PreFacts
  <1>2. PICK s \in Seq(Decodings), t \in Seq(Decodings) :
          s = EventsOf(ms, b, n) /\ t = EventsOf(ms, b, m)
    BY <1>1, EventsFacts
  <1>3. PICK e \in Decodings : e = Decode(ms[m])
    <2>1. ms[m] \in Message
      BY <1>1, PreFacts
    <2>2. QED
      BY <2>1, Zenon DEF Decodings
  <1>4. Len(s) = n - b /\ Len(t) = n - b + 1
    <2>1. Len(s) = n - b
      BY <1>2, EventsFacts
    <2>2. Len(t) = m - b
      BY <1>1, <1>2, EventsFacts
    <2>3. QED
      BY <1>1, <2>1, <2>2
  <1>5. \A i \in 1 .. (n - b) : s[i] = Decode(ms[b + i]) /\ t[i] = Decode(ms[b + i])
    <2>1. \A i \in 1 .. (n - b) : s[i] = Decode(ms[b + i])
      BY <1>2, EventsFacts
    <2>2. \A i \in 1 .. (m - b) : t[i] = Decode(ms[b + i])
      BY <1>1, <1>2, EventsFacts
    <2>3. \A i \in 1 .. (n - b) : i \in 1 .. (m - b)
      BY <1>1
    <2>4. QED
      BY <2>1, <2>2, <2>3
  <1>6. t[n - b + 1] = e
    <2>1. n - b + 1 \in 1 .. (m - b) /\ b + (n - b + 1) = m
      BY <1>1
    <2>2. QED
      BY <1>1, <1>2, <1>3, <2>1, EventsFacts
  <1>7. Append(s, e) \in Seq(Decodings) /\ Len(Append(s, e)) = Len(t)
    BY <1>1, <1>4
  <1>8. \A i \in 1 .. Len(Append(s, e)) : Append(s, e)[i] = t[i]
    BY <1>1, <1>4, <1>5, <1>6
  <1>9. Append(s, e) = t
    BY <1>7, <1>8, SeqEqual
  <1>10. QED
    BY <1>2, <1>3, <1>9

\* The events of two stretches next to each other.
LEMMA EventsConcat ==
  ASSUME NEW ms \in Seq(Message), NEW n \in 0 .. Len(ms), NEW b \in 0 .. n
  PROVE  EventsOf(ms, 0, b) \o EventsOf(ms, b, n) = EventsOf(ms, 0, n)
  <1>1. /\ Len(ms) \in Nat /\ b \in Nat /\ n \in Nat /\ b \in 0 .. Len(ms)
        /\ 0 \in 0 .. n /\ 0 \in 0 .. b
    BY PreFacts
  <1>2. PICK s \in Seq(Decodings), t \in Seq(Decodings), u \in Seq(Decodings) :
          s = EventsOf(ms, 0, b) /\ t = EventsOf(ms, b, n) /\ u = EventsOf(ms, 0, n)
    BY <1>1, EventsFacts
  <1>3. Len(s) = b /\ Len(t) = n - b /\ Len(u) = n
    <2>1. Len(s) = b - 0
      BY <1>1, <1>2, EventsFacts
    <2>2. Len(t) = n - b
      BY <1>2, EventsFacts
    <2>3. Len(u) = n - 0
      BY <1>1, <1>2, EventsFacts
    <2>4. QED
      BY <1>1, <2>1, <2>2, <2>3
  <1>4. \A i \in 1 .. b : s[i] = Decode(ms[i])
    <2>1. \A i \in 1 .. (b - 0) : s[i] = Decode(ms[0 + i])
      BY <1>1, <1>2, EventsFacts
    <2>2. QED
      BY <1>1, <2>1
  <1>5. \A i \in 1 .. n : u[i] = Decode(ms[i])
    <2>1. \A i \in 1 .. (n - 0) : u[i] = Decode(ms[0 + i])
      BY <1>1, <1>2, EventsFacts
    <2>2. QED
      BY <1>1, <2>1
  <1>6. \A i \in (b + 1) .. n : t[i - b] = Decode(ms[i])
    <2>1. \A i \in 1 .. (n - b) : t[i] = Decode(ms[b + i])
      BY <1>1, <1>2, EventsFacts
    <2>2. TAKE i \in (b + 1) .. n
    <2>3. i - b \in 1 .. (n - b) /\ b + (i - b) = i
      BY <1>1
    <2>4. QED
      BY <2>1, <2>3
  <1>7. /\ s \o t \in Seq(Decodings)
        /\ Len(s \o t) = Len(s) + Len(t)
        /\ \A i \in 1 .. Len(s) + Len(t) : (s \o t)[i] = IF i <= Len(s) THEN s[i] ELSE t[i - Len(s)]
    BY ConcatProperties
  <1>8. Len(s \o t) = Len(u)
    BY <1>1, <1>3, <1>7
  <1>9. \A i \in 1 .. Len(s \o t) : (s \o t)[i] = u[i]
    <2> TAKE i \in 1 .. Len(s \o t)
    <2>1. i \in 1 .. n
      BY <1>3, <1>8
    <2>2. CASE i <= b
      BY <1>1, <1>3, <1>4, <1>5, <1>7, <2>1, <2>2
    <2>3. CASE ~(i <= b)
      <3>1. i \in (b + 1) .. n
        BY <1>1, <2>1, <2>3
      <3>2. (s \o t)[i] = t[i - b]
        BY <1>1, <1>3, <1>7, <2>1, <2>3
      <3>3. QED
        BY <1>5, <1>6, <2>1, <3>1, <3>2
    <2>4. QED
      BY <2>2, <2>3
  <1>10. s \o t = u
    BY <1>7, <1>8, <1>9, SeqEqual
  <1>11. QED
    BY <1>2, <1>10

\* The events of a shorter stretch are a prefix of those of a longer one.
LEMMA EventsPrefix ==
  ASSUME NEW ms \in Seq(Message), NEW n \in 0 .. Len(ms), NEW b \in 0 .. n
  PROVE  IsPrefix(EventsOf(ms, 0, b), EventsOf(ms, 0, n))
  <1>1. /\ Len(ms) \in Nat /\ b \in Nat /\ n \in Nat /\ b \in 0 .. Len(ms)
        /\ 0 \in 0 .. n /\ 0 \in 0 .. b
    BY PreFacts
  <1>2. PICK s \in Seq(Decodings), u \in Seq(Decodings) :
          s = EventsOf(ms, 0, b) /\ u = EventsOf(ms, 0, n)
    BY <1>1, EventsFacts
  <1>3. Len(s) = b /\ Len(u) = n
    BY <1>1, <1>2, EventsFacts
  <1>4. \A i \in 1 .. b : s[i] = u[i]
    <2>1. \A i \in 1 .. (b - 0) : s[i] = Decode(ms[0 + i])
      BY <1>1, <1>2, EventsFacts
    <2>2. \A i \in 1 .. (n - 0) : u[i] = Decode(ms[0 + i])
      BY <1>1, <1>2, EventsFacts
    <2>3. QED
      BY <1>1, <2>1, <2>2
  <1>5. SubSeq(s, 1, b) \in Seq(Decodings) /\ SubSeq(u, 1, b) \in Seq(Decodings)
    BY <1>1, <1>3
  <1>6. SubSeq(s, 1, b) = SubSeq(u, 1, b)
    <2>1. Len(SubSeq(s, 1, b)) = b /\ Len(SubSeq(u, 1, b)) = b
      BY <1>1, <1>3
    <2>2. \A i \in 1 .. b : SubSeq(s, 1, b)[i] = SubSeq(u, 1, b)[i]
      BY <1>1, <1>3, <1>4
    <2>3. QED
      BY <1>5, <2>1, <2>2, SeqEqual
  <1>7. b <= n
    BY <1>1
  <1>8. QED
    BY <1>2, <1>3, <1>6, <1>7 DEF IsPrefix

\* The first n messages are whole.
Done(ms, n) == n \in 0 .. Len(ms) /\ \A k \in 1 .. n : Whole(ms[k])

\* A call that started behind the first b messages and has taken those up to
\* the n-th.
Called(b, n) ==
  /\ Done(buffer, n) /\ b \in 0 .. n
  /\ b < Len(buffer) \/ b = 0
  /\ base = Pre(buffer, b)
  /\ offset = Pre(buffer, n) - Pre(buffer, b)
  /\ byteCount = Pre(buffer, Len(buffer)) - Pre(buffer, b)
  /\ events = EventsOf(buffer, b, n)
  /\ n - b <= MaxEvents

\* What the loop finds at the message m after c events.
Reason(c, m) ==
  IF c >= MaxEvents THEN "event_limit"
  ELSE IF LengthFor(m.type) = 0 THEN "unknown_type"
  ELSE IF ~Whole(m) THEN "truncated"
  ELSE "ok"

\* Where a call stands, in bytes and in messages.
LEMMA CalledFacts ==
  ASSUME BufferOk(buffer), NEW b, NEW n, Called(b, n)
  PROVE  /\ n \in 0 .. Len(buffer) /\ b \in 0 .. n /\ n - b \in Nat
         /\ Len(events) = n - b
         /\ base + offset = Pre(buffer, n)
         /\ offset < byteCount <=> n < Len(buffer)
         /\ offset = byteCount <=> n = Len(buffer)
         /\ byteCount \in Nat /\ offset \in Nat /\ base \in Nat
         /\ byteCount = 0 <=> b = Len(buffer)
  <1>1. buffer \in Seq(Message) /\ n \in 0 .. Len(buffer) /\ b \in 0 .. n
    BY DEF BufferOk, Called, Done
  <1>2. Len(buffer) \in Nat /\ b \in 0 .. Len(buffer) /\ Len(buffer) \in 0 .. Len(buffer) /\ b \in Nat /\ n \in Nat
    BY <1>1, PreFacts
  <1>3. Len(events) = n - b /\ n - b \in Nat
    BY <1>1, EventsFacts DEF Called
  <1>4. PICK x \in Nat, y \in Nat, z \in Nat :
          x = Pre(buffer, b) /\ y = Pre(buffer, n) /\ z = Pre(buffer, Len(buffer))
    BY <1>1, <1>2, PreFacts
  <1>5. base = x /\ offset = y - x /\ byteCount = z - x
    BY <1>4 DEF Called
  <1>6. (b < n <=> x < y) /\ (x = y => b = n)
    BY <1>1, <1>2, <1>4, PreGrows
  <1>7. (n < Len(buffer) <=> y < z) /\ (y = z => n = Len(buffer))
    BY <1>1, <1>2, <1>4, PreGrows
  <1>8. (b < Len(buffer) <=> x < z) /\ (x = z => b = Len(buffer))
    BY <1>1, <1>2, <1>4, PreGrows
  <1>9. x <= y /\ y <= z
    BY <1>1, <1>2, <1>4, <1>6, <1>7
  <1>10. n = Len(buffer) => y = z
    BY <1>4
  <1>11. b = Len(buffer) => x = z
    BY <1>4
  <1>12. base + offset = y
    BY <1>5
  <1>13. offset < byteCount <=> y < z
    BY <1>5
  <1>14. offset = byteCount <=> y = z
    BY <1>5
  <1>15. byteCount \in Nat /\ offset \in Nat /\ base \in Nat
    BY <1>5, <1>9
  <1>16. byteCount = 0 <=> x = z
    BY <1>5
  <1>17. QED
    BY <1>1, <1>3, <1>4, <1>7, <1>8, <1>10, <1>11, <1>12, <1>13, <1>14, <1>15, <1>16, Zenon

\* A message is cut off exactly when the bytes left are fewer than its type
\* asks for.
LEMMA CutOff ==
  ASSUME NEW ms, BufferOk(ms), NEW m \in 1 .. Len(ms), LengthFor(ms[m].type) # 0
  PROVE  /\ Pre(ms, Len(ms)) - Pre(ms, m - 1) < LengthFor(ms[m].type) <=> ~Whole(ms[m])
         /\ LengthFor(ms[m].type) \in Nat
  <1>1. ms \in Seq(Message) /\ Len(ms) \in Nat /\ DOMAIN ms = 1 .. Len(ms)
    BY PreFacts DEF BufferOk
  <1>2. m - 1 \in 0 .. Len(ms) /\ Len(ms) \in 0 .. Len(ms) /\ m \in Nat /\ m \in 0 .. Len(ms)
    BY <1>1
  <1>3. PICK x \in Nat, y \in Nat, z \in Nat, c \in Nat \ {0} :
          x = Pre(ms, m - 1) /\ y = Pre(ms, m) /\ z = Pre(ms, Len(ms)) /\ c = ms[m].size
    BY <1>1, <1>2, PreFacts
  <1>4. y = x + c
    BY <1>1, <1>3, PreFacts
  <1>5. PICK l \in Nat : l = LengthFor(ms[m].type) /\ l # 0
    BY DEF LengthFor, KnownLengths
  <1>6. Whole(ms[m]) => ~(z - x < l)
    <2>1. PICK L \in Nat : L = Len(ms)
      BY <1>1
    <2>2. y <= z
      <3>1. m < L => y < z
        BY <1>1, <1>2, <1>3, <2>1, PreGrows
      <3>2. m = L => y = z
        BY <1>3, <2>1
      <3>3. m \in 1 .. L
        BY <2>1
      <3>4. QED
        BY <3>1, <3>2, <3>3
    <2>3. Whole(ms[m]) => c = l
      BY <1>3, <1>5 DEF Whole
    <2>4. QED
      BY <1>4, <2>2, <2>3
  <1>7. ~Whole(ms[m]) => z - x < l
    <2>1. SUFFICES ASSUME ~Whole(ms[m]) PROVE z - x < l
      OBVIOUS
    <2>2. m = Len(ms) /\ ms[m].size < LengthFor(ms[m].type)
      BY <1>1, <2>1 DEF BufferOk
    <2>3. z = y /\ c < l
      BY <1>3, <1>5, <2>2
    <2>4. QED
      BY <1>4, <2>3
  <1>8. QED
    BY <1>3, <1>5, <1>6, <1>7

\* What the loop tests is what the next message is.
LEMMA StopIsReason ==
  ASSUME BufferOk(buffer), NEW b, NEW n, Called(b, n), n < Len(buffer), NEW m, m = n + 1
  PROVE  /\ m \in 1 .. Len(buffer)
         /\ Current = buffer[m]
         /\ StopReason = Reason(n - b, buffer[m])
  <1>1. /\ buffer \in Seq(Message) /\ n \in 0 .. Len(buffer) /\ n - b \in Nat
        /\ Len(events) = n - b /\ base + offset = Pre(buffer, n) /\ b \in 0 .. n
    BY CalledFacts DEF BufferOk
  <1>2. /\ Len(buffer) \in Nat /\ m \in 1 .. Len(buffer) /\ m - 1 = n /\ b \in Nat /\ n \in Nat
        /\ b \in 0 .. Len(buffer) /\ Len(buffer) \in 0 .. Len(buffer)
    BY <1>1, PreFacts
  <1>3. Current = buffer[m]
    <2>1. PICK at : at = base + offset
      OBVIOUS
    <2>2. (CHOOSE k \in DOMAIN buffer : SizeOf(SubSeq(buffer, 1, k - 1)) = at) = n + 1
      BY <1>1, <2>1, MessageAt
    <2>3. Current = buffer[CHOOSE k \in DOMAIN buffer : SizeOf(SubSeq(buffer, 1, k - 1)) = at]
      BY <2>1, Zenon DEF Current, StartOf
    <2>4. QED
      BY <2>2, <2>3
  <1>4. byteCount - offset = Pre(buffer, Len(buffer)) - Pre(buffer, n)
    <2>1. PICK x \in Nat, y \in Nat, z \in Nat :
            x = Pre(buffer, b) /\ y = Pre(buffer, n) /\ z = Pre(buffer, Len(buffer))
      BY <1>1, <1>2, PreFacts
    <2>2. offset = y - x /\ byteCount = z - x
      BY <2>1 DEF Called
    <2>3. QED
      BY <2>1, <2>2
  <1>5. LengthFor(buffer[m].type) # 0 =>
          (byteCount - offset < LengthFor(buffer[m].type) <=> ~Whole(buffer[m]))
    BY <1>2, <1>4, CutOff
  <1>6. QED
    BY <1>1, <1>2, <1>3, <1>5, Zenon DEF StopReason, Reason

\* Before the first call, and after a call on an empty buffer.
Idle ==
  /\ base = 0 /\ offset = 0 /\ byteCount = 0 /\ consumed = 0
  /\ status = "ok" /\ events = <<>> /\ delivered = <<>>

\* The loop has taken the messages up to the n-th since the call started
\* behind the b-th, and the calls before have delivered the first b.
Looping(b, n) ==
  Called(b, n) /\ status = "ok" /\ delivered = EventsOf(buffer, 0, b)

\* A call has returned; status names what stands behind the n-th message.
Stopped(b, n) ==
  /\ Called(b, n) /\ byteCount > 0
  /\ delivered = EventsOf(buffer, 0, n)
  /\ consumed = offset
  /\ IF n = Len(buffer) THEN status = "ok"
     ELSE status = Reason(n - b, buffer[n + 1]) /\ status # "ok"

\* The parser between any two steps of a call and between any two calls.
ParserInv ==
  /\ buffer \in Buffers
  /\ running \in BOOLEAN
  /\ running => \E b, n : Looping(b, n)
  /\ ~running => Idle \/ \E b, n : Stopped(b, n)

\* Every buffer is one BuffersAssumption describes.
LEMMA BufferIsOk == ParserInv => BufferOk(buffer)
  BY BuffersAssumption, Zenon DEF ParserInv, BufferOk

\* A call that starts has taken nothing yet.
LEMMA CallStarts ==
  ASSUME BufferOk(buffer), NEW n \in 0 .. Len(buffer), Done(buffer, n), n < Len(buffer) \/ n = 0,
         buffer' = buffer, base' = Pre(buffer, n), offset' = 0, events' = <<>>,
         byteCount' = SizeOf(buffer) - Pre(buffer, n)
  PROVE  Called(n, n)'
  <1>1. buffer \in Seq(Message) /\ Len(buffer) \in Nat
    BY PreFacts DEF BufferOk
  <1>2. n \in Nat /\ n \in 0 .. n /\ n - n = 0 /\ n - n <= MaxEvents
    BY <1>1, ParserAssumption
  <1>3. PICK x \in Nat : x = Pre(buffer, n)
    BY <1>1, PreFacts
  <1>4. x - x = 0
    OBVIOUS
  <1>5. EventsOf(buffer, n, n) = <<>>
    <2>1. EventsOf(buffer, n, n) \in Seq(Decodings) /\ Len(EventsOf(buffer, n, n)) = 0
      BY <1>1, <1>2, EventsFacts
    <2>2. QED
      BY <2>1
  <1>6. offset' = Pre(buffer, n) - Pre(buffer, n)
    BY <1>3, <1>4
  <1>7. byteCount' = Pre(buffer, Len(buffer)) - Pre(buffer, n)
    BY <1>1, PreOfAll
  <1>8. QED
    BY <1>2, <1>5, <1>6, <1>7, Zenon DEF Called

\* The invariant holds at the start.
LEMMA ParserInitInv == ParserInit => ParserInv
  BY Zenon DEF ParserInit, ParserInv, Idle

\* The first call, from the start of the buffer.
LEMMA ParseAllInv == ParserInv /\ ParseAll => ParserInv'
  <1> SUFFICES ASSUME ParserInv, ParseAll PROVE ParserInv'
    OBVIOUS
  <1>1. BufferOk(buffer) /\ buffer \in Seq(Message) /\ Len(buffer) \in Nat
    BY BufferIsOk, PreFacts DEF BufferOk
  <1>2. /\ ~running /\ running' = TRUE /\ base' = 0 /\ offset' = 0 /\ events' = <<>>
        /\ byteCount' = SizeOf(buffer) - 0 /\ status' = "ok" /\ buffer' = buffer
        /\ delivered' = delivered /\ byteCount = 0
    BY DEF ParseAll, ParseFrom
  <1>3. delivered = <<>>
    <2>1. ~(byteCount > 0)
      BY <1>2
    <2>2. Idle
      BY <1>2, <2>1, Zenon DEF ParserInv, Stopped
    <2>3. QED
      BY <2>2 DEF Idle
  <1>4. 0 \in 0 .. Len(buffer) /\ Done(buffer, 0) /\ Pre(buffer, 0) = 0
    BY <1>1, PreFacts DEF Done
  <1>5. Called(0, 0)'
    BY <1>1, <1>2, <1>4, CallStarts
  <1>6. EventsOf(buffer, 0, 0) = <<>>
    <2>1. EventsOf(buffer, 0, 0) \in Seq(Decodings) /\ Len(EventsOf(buffer, 0, 0)) = 0 - 0
      BY <1>1, <1>4, EventsFacts
    <2>2. QED
      BY <2>1
  <1>7. Looping(0, 0)'
    BY <1>2, <1>3, <1>5, <1>6, Zenon DEF Looping
  <1>8. QED
    BY <1>2, <1>7, Zenon DEF ParserInv

\* A call that goes on from the bytes consumed.
LEMMA ParseOnInv == ParserInv /\ ParseOn => ParserInv'
  <1> SUFFICES ASSUME ParserInv, ParseOn PROVE ParserInv'
    OBVIOUS
  <1>1. BufferOk(buffer) /\ buffer \in Seq(Message) /\ Len(buffer) \in Nat
    BY BufferIsOk, PreFacts DEF BufferOk
  <1>2. /\ ~running /\ running' = TRUE /\ base' = base + consumed /\ offset' = 0 /\ events' = <<>>
        /\ byteCount' = SizeOf(buffer) - (base + consumed) /\ status' = "ok" /\ buffer' = buffer
        /\ delivered' = delivered /\ status = "event_limit"
    BY DEF ParseOn, ParseFrom
  <1>3. PICK b, n : Stopped(b, n)
    BY <1>2, Zenon DEF ParserInv, Idle
  <1>4. n \in 0 .. Len(buffer) /\ n # Len(buffer) /\ base + consumed = Pre(buffer, n) /\ Done(buffer, n)
    <2>1. Called(b, n) /\ consumed = offset
      BY <1>3 DEF Stopped
    <2>2. n # Len(buffer)
      BY <1>2, <1>3, Zenon DEF Stopped
    <2>3. QED
      BY <1>1, <2>1, <2>2, CalledFacts DEF Called
  <1>5. n < Len(buffer)
    BY <1>1, <1>4
  <1>6. Called(n, n)'
    BY <1>1, <1>2, <1>4, <1>5, CallStarts
  <1>7. Looping(n, n)'
    BY <1>2, <1>3, <1>6, Zenon DEF Looping, Stopped
  <1>8. QED
    BY <1>2, <1>7, Zenon DEF ParserInv

\* One message taken.
LEMMA TakeMessageInv == ParserInv /\ TakeMessage => ParserInv'
  <1> SUFFICES ASSUME ParserInv, TakeMessage PROVE ParserInv'
    OBVIOUS
  <1>1. BufferOk(buffer) /\ buffer \in Seq(Message) /\ Len(buffer) \in Nat
    BY BufferIsOk, PreFacts DEF BufferOk
  <1>2. /\ running /\ offset < byteCount /\ StopReason = "ok"
        /\ events' = Append(events, Decode(Current))
        /\ offset' = offset + LengthFor(Current.type)
        /\ buffer' = buffer /\ base' = base /\ running' = running /\ byteCount' = byteCount
        /\ status' = status /\ delivered' = delivered
    BY DEF TakeMessage
  <1>3. PICK b, n : Looping(b, n)
    BY <1>2, Zenon DEF ParserInv
  <1>4. Called(b, n)
    BY <1>3 DEF Looping
  <1>5. n \in 0 .. Len(buffer) /\ b \in 0 .. n /\ n < Len(buffer) /\ n - b \in Nat
    BY <1>1, <1>2, <1>4, CalledFacts
  <1>6. PICK m : m = n + 1
    OBVIOUS
  <1>7. m \in 1 .. Len(buffer) /\ Current = buffer[m] /\ StopReason = Reason(n - b, buffer[m])
    BY <1>1, <1>4, <1>5, <1>6, StopIsReason
  <1>8. ~(n - b >= MaxEvents) /\ Whole(buffer[m])
    BY <1>2, <1>7, Zenon DEF Reason
  <1>9. m \in 0 .. Len(buffer) /\ b \in 0 .. m /\ m - b <= MaxEvents /\ m - 1 = n
    BY <1>1, <1>5, <1>6, <1>8, ParserAssumption
  <1>10. Done(buffer, m)
    <2>1. \A k \in 1 .. m : k \in 1 .. n \/ k = m
      BY <1>5, <1>6
    <2>2. QED
      BY <1>4, <1>8, <1>9, <2>1, Zenon DEF Done, Called
  <1>11. offset' = Pre(buffer, m) - Pre(buffer, b)
    <2>1. b \in 0 .. Len(buffer)
      BY <1>1, <1>5
    <2>2. PICK x \in Nat, y \in Nat, z \in Nat, c \in Nat :
            x = Pre(buffer, b) /\ y = Pre(buffer, n) /\ z = Pre(buffer, m) /\ c = buffer[m].size
      BY <1>1, <1>5, <1>7, <1>9, <2>1, PreFacts
    <2>3. z = y + c
      BY <1>1, <1>7, <1>9, <2>2, PreFacts
    <2>4. offset = y - x
      BY <1>4, <2>2 DEF Called
    <2>5. LengthFor(Current.type) = c
      BY <1>7, <1>8, <2>2 DEF Whole
    <2>6. offset' = z - x
      BY <1>2, <2>3, <2>4, <2>5
    <2>7. QED
      BY <2>2, <2>6
  <1>12. events' = EventsOf(buffer, b, m)
    <2>1. events = EventsOf(buffer, b, n)
      BY <1>4 DEF Called
    <2>2. Append(EventsOf(buffer, b, n), Decode(buffer[m])) = EventsOf(buffer, b, m)
      BY <1>1, <1>5, <1>6, EventsAppend
    <2>3. QED
      BY <1>2, <1>7, <2>1, <2>2, Zenon
  <1>13. Called(b, m)'
    BY <1>2, <1>4, <1>9, <1>10, <1>11, <1>12, Zenon DEF Called
  <1>14. Looping(b, m)'
    BY <1>2, <1>3, <1>13, Zenon DEF Looping
  <1>15. QED
    BY <1>2, <1>14, Zenon DEF ParserInv

\* The end of a call.
LEMMA ReturnInv == ParserInv /\ Return => ParserInv'
  <1> SUFFICES ASSUME ParserInv, Return PROVE ParserInv'
    OBVIOUS
  <1>1. BufferOk(buffer) /\ buffer \in Seq(Message) /\ Len(buffer) \in Nat
    BY BufferIsOk, PreFacts DEF BufferOk
  <1>2. /\ running /\ (offset < byteCount => StopReason # "ok")
        /\ status' = IF offset < byteCount THEN StopReason ELSE "ok"
        /\ consumed' = offset /\ running' = FALSE /\ delivered' = delivered \o events
        /\ buffer' = buffer /\ base' = base /\ offset' = offset /\ events' = events
        /\ byteCount' = byteCount
    BY DEF Return
  <1>3. PICK b, n : Looping(b, n)
    BY <1>2, Zenon DEF ParserInv
  <1>4. Called(b, n) /\ delivered = EventsOf(buffer, 0, b) /\ events = EventsOf(buffer, b, n)
    BY <1>3 DEF Looping, Called
  <1>5. /\ n \in 0 .. Len(buffer) /\ b \in 0 .. n /\ n - b \in Nat
        /\ offset < byteCount <=> n < Len(buffer)
        /\ byteCount \in Nat /\ offset \in Nat /\ base \in Nat
        /\ byteCount = 0 <=> b = Len(buffer)
        /\ offset = byteCount <=> n = Len(buffer)
    BY <1>1, <1>4, CalledFacts
  <1>6. delivered' = EventsOf(buffer, 0, n)
    <2>1. EventsOf(buffer, 0, b) \o EventsOf(buffer, b, n) = EventsOf(buffer, 0, n)
      BY <1>1, <1>5, EventsConcat
    <2>2. QED
      BY <1>2, <1>4, <2>1, Zenon
  <1>7. Called(b, n)'
    BY <1>2, <1>4, Zenon DEF Called
  <1>8. CASE byteCount = 0
    <2>1. b = 0 /\ n = 0 /\ Len(buffer) = 0
      BY <1>1, <1>4, <1>5, <1>8 DEF Called
    <2>2. base = 0 /\ offset = 0
      BY <1>1, <1>4, <1>5, <1>8, <2>1, PreFacts DEF Called
    <2>3. EventsOf(buffer, 0, 0) = <<>>
      <3>1. EventsOf(buffer, 0, 0) \in Seq(Decodings) /\ Len(EventsOf(buffer, 0, 0)) = 0 - 0
        BY <1>1, <1>5, <2>1, EventsFacts
      <3>2. QED
        BY <3>1
    <2>4. status' = "ok"
      BY <1>2, <1>8, <2>2
    <2>5. Idle'
      BY <1>2, <1>4, <1>6, <1>8, <2>1, <2>2, <2>3, <2>4, Zenon DEF Idle
    <2>6. QED
      BY <1>2, <2>5, Zenon DEF ParserInv
  <1>9. CASE byteCount # 0
    <2>1. byteCount > 0
      BY <1>5, <1>9
    <2>2. n = Len(buffer) => status' = "ok"
      BY <1>2, <1>5
    <2>3. n # Len(buffer) => status' = Reason(n - b, buffer[n + 1]) /\ status' # "ok"
      <3>1. SUFFICES ASSUME n # Len(buffer)
                     PROVE  status' = Reason(n - b, buffer[n + 1]) /\ status' # "ok"
        OBVIOUS
      <3>2. n < Len(buffer)
        BY <1>1, <1>5, <3>1
      <3>3. StopReason = Reason(n - b, buffer[n + 1])
        BY <1>1, <1>4, <3>2, StopIsReason
      <3>4. QED
        BY <1>2, <1>5, <3>2, <3>3, Zenon
    <2>4. Stopped(b, n)'
      BY <1>2, <1>6, <1>7, <2>1, <2>2, <2>3, Zenon DEF Stopped
    <2>5. QED
      BY <1>2, <2>4, Zenon DEF ParserInv
  <1>10. QED
    BY <1>8, <1>9

\* reset leaves the parser as it was made.
LEMMA ResetInv == ParserInv /\ Reset => ParserInv'
  <1> SUFFICES ASSUME ParserInv, Reset PROVE ParserInv'
    OBVIOUS
  <1>1. ~running /\ running' = running /\ buffer' = buffer /\ buffer \in Buffers
    BY DEF ParserInv, Reset
  <1>2. Idle'
    BY DEF Reset, Idle
  <1>3. QED
    BY <1>1, <1>2, Zenon DEF ParserInv

\* The invariant of the parser and its caller.
THEOREM ParserInvariant == ParserSpec => []ParserInv
  <1>1. ParserInv /\ [ParserNext]_parserVars => ParserInv'
    <2> SUFFICES ASSUME ParserInv, [ParserNext]_parserVars PROVE ParserInv'
      OBVIOUS
    <2>1. CASE UNCHANGED parserVars
      BY <2>1, Zenon DEF parserVars, ParserInv, Idle, Looping, Stopped, Called
    <2>2. QED
      BY <2>1, ParseAllInv, ParseOnInv, TakeMessageInv, ReturnInv, ResetInv DEF ParserNext
  <1>2. QED
    BY <1>1, ParserInitInv, PTL DEF ParserSpec

\* The type test of the property and that of the code.
LEMMA UnknownIsZero ==
  \A t : LengthFor(t) = 0 <=> t \notin DOMAIN KnownLengths
  <1>1. \A t \in DOMAIN KnownLengths : KnownLengths[t] # 0
    BY DEF KnownLengths
  <1>2. QED
    BY <1>1 DEF LengthFor

\* StatusExplainsStop, for every buffer and every event limit: whenever parse
\* has returned, status() is ok exactly when all was consumed, and otherwise
\* names the obstacle that stands where the consumed bytes end.
THEOREM StatusAlwaysExplains == ParserSpec => []StatusExplainsStop
  <1>1. ParserInv => StatusExplainsStop
    <2> SUFFICES ASSUME ParserInv, ~running, byteCount > 0
                 PROVE  /\ status = "ok" <=> consumed = byteCount
                        /\ status # "ok" =>
                             LET next == buffer[CHOOSE k \in DOMAIN buffer : StartOf(k) = base + consumed] IN
                             status = IF Len(events) = MaxEvents THEN "event_limit"
                                      ELSE IF next.type \notin DOMAIN KnownLengths THEN "unknown_type"
                                      ELSE "truncated"
      BY DEF StatusExplainsStop
    <2>1. PICK b, n : Stopped(b, n)
      <3>1. byteCount # 0
        OBVIOUS
      <3>2. QED
        BY <3>1, Zenon DEF ParserInv, Idle
    <2>2. BufferOk(buffer) /\ buffer \in Seq(Message) /\ Len(buffer) \in Nat
      BY BufferIsOk, PreFacts DEF BufferOk
    <2>3. Called(b, n) /\ consumed = offset
      BY <2>1 DEF Stopped
    <2>4. /\ n \in 0 .. Len(buffer) /\ n - b \in Nat /\ Len(events) = n - b
          /\ base + consumed = Pre(buffer, n)
          /\ consumed = byteCount <=> n = Len(buffer)
      BY <2>2, <2>3, CalledFacts
    <2>5. status = "ok" <=> n = Len(buffer)
      BY <2>1, Zenon DEF Stopped
    <2>6. ASSUME status # "ok"
          PROVE  LET next == buffer[CHOOSE k \in DOMAIN buffer : StartOf(k) = base + consumed] IN
                 status = IF Len(events) = MaxEvents THEN "event_limit"
                          ELSE IF next.type \notin DOMAIN KnownLengths THEN "unknown_type"
                          ELSE "truncated"
      <3>1. n < Len(buffer)
        BY <2>2, <2>4, <2>5, <2>6
      <3>2. PICK at : at = base + consumed
        OBVIOUS
      <3>3. (CHOOSE k \in DOMAIN buffer : SizeOf(SubSeq(buffer, 1, k - 1)) = at) = n + 1
        BY <2>2, <2>4, <3>1, <3>2, MessageAt
      <3>4. (CHOOSE k \in DOMAIN buffer : StartOf(k) = base + consumed) = n + 1
        <4>1. (CHOOSE k \in DOMAIN buffer : StartOf(k) = base + consumed)
                = CHOOSE k \in DOMAIN buffer : SizeOf(SubSeq(buffer, 1, k - 1)) = at
          BY <3>2, Zenon DEF StartOf
        <4>2. QED
          BY <3>3, <4>1
      <3>5. status = Reason(n - b, buffer[n + 1])
        BY <2>1, <2>5, <2>6, Zenon DEF Stopped
      <3>6. n - b >= MaxEvents <=> Len(events) = MaxEvents
        <4>1. n - b <= MaxEvents
          BY <2>3 DEF Called
        <4>2. QED
          BY <2>4, <4>1, ParserAssumption
      <3>7. status = IF Len(events) = MaxEvents THEN "event_limit"
                     ELSE IF buffer[n + 1].type \notin DOMAIN KnownLengths THEN "unknown_type"
                     ELSE "truncated"
        BY <2>6, <3>5, <3>6, UnknownIsZero, Zenon DEF Reason
      <3>8. QED
        BY <3>4, <3>7, Zenon
    <2>7. QED
      BY <2>4, <2>5, <2>6, Zenon
  <1>2. QED
    BY <1>1, ParserInvariant, PTL

\* The whole messages at the start are at least those a call has taken, and
\* just those when the next one is not whole.
LEMMA WholePartIs ==
  ASSUME NEW ms \in Seq(Message), NEW n, Done(ms, n)
  PROVE  \E w \in 0 .. Len(ms) :
           /\ w = Max({k \in 0 .. Len(ms) : \A i \in 1 .. k : Whole(ms[i])})
           /\ Done(ms, w) /\ n \in 0 .. w
           /\ (n = Len(ms) \/ ~Whole(ms[n + 1])) => w = n
  <1> DEFINE S == {k \in 0 .. Len(ms) : \A i \in 1 .. k : Whole(ms[i])}
  <1>1. Len(ms) \in Nat /\ n \in 0 .. Len(ms) /\ n \in S
    BY PreFacts DEF Done
  <1>2. S \subseteq 0 .. Len(ms) /\ S # {}
    BY <1>1
  <1>3. PICK L \in Nat : L = Len(ms)
    BY <1>1
  <1>4. Max(S) \in S /\ \A y \in S : y <= Max(S)
    <2> HIDE DEF S
    <2> QED
      BY <1>2, <1>3, MaxOfNats
  <1>5. PICK w \in S : w = Max(S)
    BY <1>4
  <1>6. w \in 0 .. Len(ms) /\ Done(ms, w)
    BY <1>5 DEF Done
  <1>7. n <= w
    BY <1>1, <1>4, <1>5
  <1>8. n \in 0 .. w
    BY <1>1, <1>6, <1>7
  <1>9. (n = Len(ms) \/ ~Whole(ms[n + 1])) => w = n
    <2>1. n < w => n + 1 \in 1 .. w
      BY <1>1, <1>6
    <2>2. n < w => Whole(ms[n + 1])
      BY <1>6, <2>1 DEF Done
    <2>3. n = Len(ms) => ~(n < w)
      BY <1>1, <1>6
    <2>4. ~(n < w) => w = n
      BY <1>1, <1>6, <1>7
    <2>5. QED
      BY <2>2, <2>3, <2>4, Zenon
  <1>10. QED
    BY <1>5, <1>6, <1>8, <1>9

\* NothingLostBetweenCalls, for every buffer and every event limit: however
\* the calls cut the buffer, what they deliver is a prefix of the events of its
\* whole messages, and all of them once a call stops for another reason than
\* the limit.
THEOREM NothingEverLost == ParserSpec => []NothingLostBetweenCalls
  <1>1. ParserInv => NothingLostBetweenCalls
    <2> SUFFICES ASSUME ParserInv PROVE NothingLostBetweenCalls
      OBVIOUS
    <2>1. BufferOk(buffer) /\ buffer \in Seq(Message) /\ Len(buffer) \in Nat
      BY BufferIsOk, PreFacts DEF BufferOk
    <2>2. ASSUME NEW d, Done(buffer, d), delivered = EventsOf(buffer, 0, d),
                 Finished => d = Len(buffer) \/ ~Whole(buffer[d + 1])
          PROVE  NothingLostBetweenCalls
      <3>1. PICK w \in 0 .. Len(buffer) :
              /\ w = Max({k \in 0 .. Len(buffer) : \A i \in 1 .. k : Whole(buffer[i])})
              /\ Done(buffer, w) /\ d \in 0 .. w
              /\ (d = Len(buffer) \/ ~Whole(buffer[d + 1])) => w = d
        BY <2>1, <2>2, WholePartIs
      <3>2. WholePart = SubSeq(buffer, 1, w)
        BY <3>1, Zenon DEF WholePart
      <3>3. w \in Nat /\ DOMAIN SubSeq(buffer, 1, w) = 1 .. w /\ \A i \in 1 .. w : SubSeq(buffer, 1, w)[i] = buffer[i]
        BY <2>1
      <3>4. [k \in DOMAIN WholePart |-> Decode(WholePart[k])] = [k \in 1 .. w |-> Decode(buffer[k])]
        BY <3>2, <3>3, Zenon
      <3>5. EventsOf(buffer, 0, w) = [k \in 1 .. w |-> Decode(buffer[k])]
        <4>1. w - 0 = w /\ \A i \in 1 .. w : 0 + i = i
          BY <3>3
        <4>2. QED
          BY <4>1, Zenon DEF EventsOf
      <3>6. IsPrefix(delivered, EventsOf(buffer, 0, w))
        BY <2>1, <2>2, <3>1, EventsPrefix
      <3>7. Finished => delivered = EventsOf(buffer, 0, w)
        BY <2>2, <3>1, Zenon
      <3>8. QED
        BY <3>4, <3>5, <3>6, <3>7, Zenon DEF NothingLostBetweenCalls
    <2>3. CASE running
      <3>1. PICK b, n : Looping(b, n)
        BY <2>3, Zenon DEF ParserInv
      <3>2. Called(b, n) /\ delivered = EventsOf(buffer, 0, b)
        BY <3>1 DEF Looping
      <3>3. n \in 0 .. Len(buffer) /\ b \in 0 .. n
        BY <2>1, <3>2, CalledFacts
      <3>4. Done(buffer, b)
        BY <2>1, <3>2, <3>3 DEF Done, Called
      <3>5. ~Finished
        BY <2>3 DEF Finished
      <3>6. QED
        BY <2>2, <3>2, <3>4, <3>5, Zenon
    <2>4. CASE ~running /\ Idle
      <3>1. 0 \in 0 .. Len(buffer) /\ Done(buffer, 0) /\ 0 \in 0 .. 0
        BY <2>1 DEF Done
      <3>2. EventsOf(buffer, 0, 0) \in Seq(Decodings) /\ Len(EventsOf(buffer, 0, 0)) = 0 - 0
        BY <2>1, <3>1, EventsFacts
      <3>3. delivered = EventsOf(buffer, 0, 0)
        BY <2>4, <3>2 DEF Idle
      <3>4. ~Finished
        BY <2>4 DEF Idle, Finished
      <3>5. QED
        BY <2>2, <3>1, <3>3, <3>4, Zenon
    <2>5. CASE ~running /\ \E b, n : Stopped(b, n)
      <3>1. PICK b, n : Stopped(b, n)
        BY <2>5
      <3>2. Called(b, n) /\ delivered = EventsOf(buffer, 0, n) /\ Done(buffer, n)
        BY <3>1 DEF Stopped, Called
      <3>3. Finished => n = Len(buffer) \/ ~Whole(buffer[n + 1])
        <4>1. LengthFor(buffer[n + 1].type) = 0 => ~Whole(buffer[n + 1])
          BY DEF Whole
        <4>2. QED
          BY <3>1, <4>1, Zenon DEF Finished, Stopped, Reason
      <3>4. QED
        BY <2>2, <3>2, <3>3, Zenon
    <2>6. QED
      BY <2>3, <2>4, <2>5, Zenon DEF ParserInv
  <1>2. QED
    BY <1>1, ParserInvariant, PTL

(***************************************************************************)
(* The latency report.  Number, UpTo and the bins are sums of the samples  *)
(* over sets of latencies.                                                 *)
(***************************************************************************)
\* The samples of the latencies in T.
Total(s, T) == MapThenSumSet(LAMBDA v : s[v], T)

\* The library's sum is the sum.
LEMMA TotalIsSum ==
  ASSUME NEW D, IsFiniteSet(D), NEW s \in [D -> Nat], NEW sum, Sums(sum, s, D), NEW T \in SUBSET D
  PROVE  Total(s, T) = sum[T]
  <1> DEFINE Q(h) == h = [t \in SUBSET T |->
                            IF t = {} THEN 0
                              ELSE s[CHOOSE x \in t : TRUE] + h[t \ {CHOOSE x \in t : TRUE}]]
             e == [t \in SUBSET T |-> sum[t]]
  <1>1. Total(s, T) = (CHOOSE h : Q(h))[T]
    BY Zenon DEF Total, MapThenSumSet, MapThenFoldSet
  <1>2. Q(e)
    <2>1. ASSUME NEW t \in SUBSET T, t # {}, NEW x, x = CHOOSE y \in t : TRUE
          PROVE  e[t] = s[x] + e[t \ {x}]
      <3>1. x \in t
        BY <2>1
      <3>2. sum[t] = s[x] + sum[t \ {x}]
        BY <3>1 DEF Sums
      <3>3. QED
        BY <3>1, <3>2
    <2>2. \A t \in SUBSET T : t # {} =>
            e[t] = s[CHOOSE x \in t : TRUE] + e[t \ {CHOOSE x \in t : TRUE}]
      <3> HIDE DEF e
      <3> QED
        BY <2>1
    <2>3. e[{}] = 0
      BY DEF Sums
    <2>4. e = [t \in SUBSET T |-> e[t]]
      OBVIOUS
    <2> HIDE DEF e
    <2>5. QED
      BY <2>2, <2>3, <2>4
  <1>3. PICK h : Q(h) /\ h = CHOOSE g : Q(g)
    <2> HIDE DEF Q
    <2> QED
      BY <1>2
  <1>4. FoldOf(h, s, T)
    BY <1>3 DEF FoldOf
  <1>5. h[T] = sum[T]
    BY <1>4, FoldIsSum
  <1>6. QED
    <2> HIDE DEF Q
    <2> QED
      BY <1>1, <1>3, <1>5

\* T and U share nothing and make up W.
Parts(W, T, U) == W = T \cup U /\ T \cap U = {}

\* The sum over two sets that share nothing.
LEMMA SumsSplit ==
  ASSUME NEW D, IsFiniteSet(D), NEW s \in [D -> Nat], NEW sum, Sums(sum, s, D),
         NEW T \in SUBSET D, NEW U \in SUBSET D, NEW W, Parts(W, T, U)
  PROVE  sum[W] = sum[T] + sum[U]
  <1> DEFINE G == {u \in SUBSET U : sum[T \cup u] = sum[T] + sum[u]}
  <1>1. IsFiniteSet(U)
    BY FS_Subset
  <1>2. {} \in G
    <2>1. T \cup {} = T /\ sum[{}] = 0 /\ sum[T] \in Nat
      BY DEF Sums
    <2>2. QED
      BY <2>1
  <1>3. ASSUME NEW u \in SUBSET U, NEW x \in U \ u, u \in G PROVE u \cup {x} \in G
    <2>0. x \notin T
      BY DEF Parts
    <2>1. PICK A \in SUBSET D : A = T \cup (u \cup {x})
      OBVIOUS
    <2>2. x \in A /\ A \ {x} = T \cup u
      BY <2>0, <2>1
    <2>3. sum[A] = s[x] + sum[T \cup u]
      BY <2>2 DEF Sums
    <2>4. PICK E : E = u \cup {x} /\ E \in SUBSET D /\ x \in E /\ E \ {x} = u
      <3>1. u \cup {x} \in SUBSET D /\ (u \cup {x}) \ {x} = u
        OBVIOUS
      <3>2. QED
        BY <3>1, Zenon
    <2>5. sum[E] = s[x] + sum[u]
      BY <2>4 DEF Sums
    <2>6. PICK a \in Nat, b \in Nat, c \in Nat : a = s[x] /\ b = sum[T] /\ c = sum[u]
      BY DEF Sums
    <2>7. sum[T \cup u] = b + c
      BY <1>3, <2>6
    <2>8. sum[A] = b + (a + c)
      BY <2>3, <2>6, <2>7
    <2>9. QED
      BY <2>1, <2>4, <2>5, <2>6, <2>8
  <1>4. U \in G
    <2> HIDE DEF G
    <2>1. \A u \in SUBSET U : u \in G
      BY <1>1, <1>2, <1>3, SubsetInduction
    <2>2. QED
      BY <2>1
  <1>5. QED
    BY <1>4 DEF Parts

\* The sum over a part is no larger than over the whole.
LEMMA SumsGrow ==
  ASSUME NEW D, IsFiniteSet(D), NEW s \in [D -> Nat], NEW sum, Sums(sum, s, D),
         NEW U \in SUBSET D, NEW T \in SUBSET U
  PROVE  sum[T] <= sum[U] /\ sum[T] \in Nat /\ sum[U] \in Nat
  <1>1. PICK R : R = U \ T
    OBVIOUS
  <1>2. R \in SUBSET D /\ T \in SUBSET D /\ Parts(U, T, R)
    BY <1>1 DEF Parts
  <1>3. sum[U] = sum[T] + sum[R]
    BY <1>2, SumsSplit
  <1>4. sum[T] \in Nat /\ sum[R] \in Nat /\ sum[U] \in Nat
    BY <1>2 DEF Sums
  <1>5. QED
    BY <1>3, <1>4

\* A finite set of latencies has a largest one.
LEMMA LargestLatency ==
  ASSUME NEW D, IsFiniteSet(D), D \subseteq Nat, D # {}
  PROVE  \E m \in D : \A v \in D : v <= m
  <1> DEFINE w == [v \in D |-> v]
  <1>1. w \in [D -> Nat] /\ \A v \in D : w[v] = v
    OBVIOUS
  <1> HIDE DEF w
  <1>2. PICK sum : Sums(sum, w, D)
    BY <1>1, SumsExist
  <1>3. PICK n \in Nat : n = sum[D]
    BY <1>2 DEF Sums
  <1>4. ASSUME NEW v \in D PROVE v \in 0 .. n
    <2>1. sum[D] = w[v] + sum[D \ {v}] /\ sum[D \ {v}] \in Nat
      BY <1>2 DEF Sums
    <2>2. v \in Nat /\ w[v] = v
      BY <1>1
    <2>3. QED
      BY <1>3, <2>1, <2>2
  <1>5. Max(D) \in D /\ \A v \in D : v <= Max(D)
    BY <1>3, <1>4, MaxOfNats
  <1>6. QED
    BY <1>5

\* The latencies of D up to v, and those below it.
AtMost(D, v) == {w \in D : w <= v}
Below(D, v) == {w \in D : w < v}

\* The counts of the report are sums.
LEMMA CountsAreSums ==
  ASSUME NEW D, IsFiniteSet(D), NEW s \in [D -> Nat], NEW sum, Sums(sum, s, D)
  PROVE  /\ Number(s) = sum[D]
         /\ \A v : UpTo(s, v) = sum[AtMost(D, v)] /\ AtMost(D, v) \in SUBSET D
  <1>1. DOMAIN s = D
    OBVIOUS
  <1>2. Number(s) = Total(s, D)
    BY <1>1, Zenon DEF Number, Total
  <1>3. \A v : UpTo(s, v) = Total(s, AtMost(D, v)) /\ AtMost(D, v) \in SUBSET D
    BY <1>1, Zenon DEF UpTo, Total, AtMost
  <1>4. D \in SUBSET D
    OBVIOUS
  <1>5. QED
    BY <1>2, <1>3, <1>4, TotalIsSum

\* The latencies below v that are counted are those up to the one before it.
LEMMA BelowIsUpTo ==
  ASSUME NEW D, D \subseteq Nat, NEW v \in D, NEW B, B = Below(D, v), B # {}
  PROVE  \E u \in D : u < v /\ AtMost(D, u) = B
  <1>0. v \in Nat
    OBVIOUS
  <1>1. B \subseteq 0 .. v
    <2>1. \A w \in Nat : w < v => w \in 0 .. v
      BY <1>0
    <2>2. QED
      BY <2>1 DEF Below
  <1>2. Max(B) \in B /\ \A y \in B : y <= Max(B)
    BY <1>0, <1>1, MaxOfNats
  <1>3. PICK u \in B : u = Max(B)
    BY <1>2
  <1>4. u \in D /\ u < v /\ \A y \in B : y <= u
    BY <1>2, <1>3 DEF Below
  <1>5. AtMost(D, u) = B
    <2>1. ASSUME NEW w \in D, w <= u PROVE w < v
      <3>1. w \in Nat /\ u \in Nat /\ v \in Nat
        BY <1>4
      <3>2. QED
        BY <1>4, <2>1, <3>1
    <2>2. QED
      BY <1>4, <2>1 DEF AtMost, Below
  <1>6. QED
    BY <1>4, <1>5

\* What the samples up to v are: those below v and those of v.
LEMMA UpToStep ==
  ASSUME NEW D, IsFiniteSet(D), D \subseteq Nat, NEW s \in [D -> Nat], NEW sum, Sums(sum, s, D),
         NEW v \in D
  PROVE  sum[AtMost(D, v)] = s[v] + sum[Below(D, v)] /\ Below(D, v) \in SUBSET D
  <1>0. PICK B : B = Below(D, v)
    OBVIOUS
  <1>1. PICK A : A = AtMost(D, v)
    OBVIOUS
  <1>2. A \in SUBSET D /\ v \in A
    BY <1>1 DEF AtMost
  <1>3. A \ {v} = B
    <2>1. \A w \in D : (w <= v /\ w # v) <=> w < v
      OBVIOUS
    <2>2. QED
      BY <1>0, <1>1, <2>1 DEF AtMost, Below
  <1>4. sum[A] = s[v] + sum[A \ {v}]
    BY <1>2 DEF Sums
  <1>5. B \in SUBSET D
    BY <1>0 DEF Below
  <1>6. QED
    BY <1>0, <1>1, <1>3, <1>4, <1>5

\* The k-th of the sorted samples: the least latency that k samples do not
\* exceed, and one that occurred.
LEMMA SortedIs ==
  ASSUME NEW D, IsFiniteSet(D), D \subseteq Nat, NEW s \in [D -> Nat], NEW sum, Sums(sum, s, D),
         NEW k \in Nat \ {0}, k <= Number(s)
  PROVE  \E v \in D : /\ v = Sorted(s, k)
                      /\ s[v] > 0
                      /\ sum[AtMost(D, v)] \in Nat /\ sum[AtMost(D, v)] >= k
                      /\ \A w \in D : w < v => sum[AtMost(D, w)] < k
  <1> DEFINE S == {v \in D : sum[AtMost(D, v)] >= k}
  <1>1. Sorted(s, k) = Min(S)
    <2>1. DOMAIN s = D
      OBVIOUS
    <2>2. \A v : UpTo(s, v) = sum[AtMost(D, v)]
      BY CountsAreSums
    <2>3. QED
      BY <2>1, <2>2, Zenon DEF Sorted
  <1>2. \A v : sum[AtMost(D, v)] \in Nat
    <2>1. \A v : AtMost(D, v) \in SUBSET D
      BY CountsAreSums
    <2>2. QED
      BY <2>1 DEF Sums
  <1>3. D # {} /\ sum[D] >= k
    <2>1. sum[D] >= k
      BY CountsAreSums
    <2>2. sum[{}] = 0
      BY DEF Sums
    <2>3. QED
      BY <2>1, <2>2
  <1>4. S # {}
    <2>1. PICK m \in D : \A v \in D : v <= m
      BY <1>3, LargestLatency
    <2>2. AtMost(D, m) = D
      BY <2>1 DEF AtMost
    <2>3. QED
      BY <1>3, <2>1, <2>2
  <1>5. S \subseteq Nat
    OBVIOUS
  <1>6. Min(S) \in S /\ \A y \in S : Min(S) <= y
    <2> HIDE DEF S
    <2> QED
      BY <1>4, <1>5, MinOfNats
  <1>7. PICK v \in S : v = Min(S)
    BY <1>6
  <1>8. v \in D /\ v \in Nat /\ sum[AtMost(D, v)] >= k
    BY <1>5, <1>7
  <1>9. ASSUME NEW w \in D, w < v PROVE sum[AtMost(D, w)] < k
    <2>1. w \notin S
      <3>1. w \in Nat
        OBVIOUS
      <3>2. ~(v <= w)
        BY <1>8, <1>9, <3>1
      <3>3. QED
        BY <1>6, <1>7, <3>2
    <2>2. ~(sum[AtMost(D, w)] >= k)
      BY <2>1
    <2>3. PICK a \in Nat : a = sum[AtMost(D, w)]
      BY <1>2
    <2>4. QED
      BY <2>2, <2>3
  <1>10. s[v] > 0
    <2>1. PICK B : B = Below(D, v)
      OBVIOUS
    <2>2. sum[AtMost(D, v)] = s[v] + sum[B] /\ B \in SUBSET D
      <3>1. sum[AtMost(D, v)] = s[v] + sum[Below(D, v)] /\ Below(D, v) \in SUBSET D
        <4> HIDE DEF S
        <4> QED
          BY <1>8, UpToStep
      <3>2. QED
        BY <2>1, <3>1, Zenon
    <2>3. PICK a \in Nat, b \in Nat, c \in Nat : a = s[v] /\ b = sum[B] /\ c = sum[AtMost(D, v)]
      BY <1>2, <1>8, <2>2 DEF Sums
    <2>4. b < k
      <3>1. CASE B = {}
        BY <2>3, <3>1 DEF Sums
      <3>2. CASE B # {}
        <4>1. PICK u \in D : u < v /\ AtMost(D, u) = B
          BY <1>8, <2>1, <3>2, BelowIsUpTo
        <4>2. QED
          BY <1>9, <2>3, <4>1
      <3>3. QED
        BY <3>1, <3>2
    <2>5. c >= k /\ c = a + b
      BY <1>8, <2>2, <2>3
    <2>6. a > 0
      BY <2>4, <2>5
    <2>7. QED
      BY <2>3, <2>6
  <1>11. QED
    BY <1>1, <1>2, <1>7, <1>8, <1>9, <1>10

\* The rank of a percentile of n samples: the least number of samples that is
\* p of a hundred.
RankOf(k, p, n) ==
  /\ k \in Nat \ {0} /\ k <= n
  /\ \A x \in Nat : (x >= k => 100 * x >= p * n) /\ (x < k => 100 * x < p * n)

\* That is the one compute_with and the tool take.
LEMMA RankIs ==
  ASSUME NEW n \in Nat \ {0}
  PROVE  \A p \in {50, 99} : RankOf(Rank(p, n), p, n)
  <1>1. \A k \in Int : k = (50 * n + 99) \div 100 => 100 * k <= 50 * n + 99 /\ 50 * n + 99 < 100 * k + 100
    OBVIOUS
  <1>2. \A k \in Int : k = (99 * n + 99) \div 100 => 100 * k <= 99 * n + 99 /\ 99 * n + 99 < 100 * k + 100
    OBVIOUS
  <1>3. RankOf(Rank(50, n), 50, n)
    <2>1. PICK k \in Int : k = (50 * n + 99) \div 100
      OBVIOUS
    <2>2. 100 * k <= 50 * n + 99 /\ 50 * n + 99 < 100 * k + 100
      BY <1>1, <2>1
    <2>3. k \in Nat \ {0} /\ k <= n
      BY <2>2
    <2>4. \A x \in Nat : (x >= k => 100 * x >= 50 * n) /\ (x < k => 100 * x < 50 * n)
      BY <2>2
    <2>5. QED
      BY <2>1, <2>3, <2>4 DEF RankOf, Rank
  <1>4. RankOf(Rank(99, n), 99, n)
    <2>1. PICK k \in Int : k = (99 * n + 99) \div 100
      OBVIOUS
    <2>2. 100 * k <= 99 * n + 99 /\ 99 * n + 99 < 100 * k + 100
      BY <1>2, <2>1
    <2>3. k \in Nat \ {0} /\ k <= n
      BY <2>2
    <2>4. \A x \in Nat : (x >= k => 100 * x >= 99 * n) /\ (x < k => 100 * x < 99 * n)
      BY <2>2
    <2>5. QED
      BY <2>1, <2>3, <2>4 DEF RankOf, Rank
  <1>5. QED
    BY <1>3, <1>4, Zenon

\* The samples are counts of latencies.
StatsInv == samples \in [Latencies -> Nat]

\* What the report rests on: the sums exist.
LEMMA StatsFacts ==
  ASSUME StatsInv
  PROVE  /\ IsFiniteSet(Latencies) /\ Latencies \subseteq Nat
         /\ samples \in [Latencies -> Nat] /\ DOMAIN samples = Latencies
         /\ Number(samples) \in Nat
         /\ \E sum : Sums(sum, samples, Latencies)
  <1>1. IsFiniteSet(Latencies) /\ Latencies \subseteq Nat /\ samples \in [Latencies -> Nat]
    BY StatsAssumption DEF StatsInv
  <1>2. PICK sum : Sums(sum, samples, Latencies)
    BY <1>1, SumsExist
  <1>3. Number(samples) = sum[Latencies]
    BY <1>1, <1>2, CountsAreSums
  <1>4. sum[Latencies] \in Nat
    BY <1>2 DEF Sums
  <1>5. QED
    BY <1>1, <1>2, <1>3, <1>4

\* The sample at the rank is the nearest-rank percentile.
LEMMA NearestRank ==
  ASSUME StatsInv, Number(samples) # 0, NEW p \in {50, 99}
  PROVE  IsNearestRank(Sorted(samples, Rank(p, Number(samples))), p)
  <1>1. PICK sum : Sums(sum, samples, Latencies)
    BY StatsFacts
  <1>2. PICK n \in Nat \ {0} : n = Number(samples)
    BY StatsFacts
  <1>3. PICK k : k = Rank(p, n) /\ RankOf(k, p, n)
    BY RankIs
  <1>4. k \in Nat \ {0} /\ k <= Number(samples)
    BY <1>2, <1>3 DEF RankOf
  <1>5. PICK v \in Latencies : /\ v = Sorted(samples, k)
                               /\ samples[v] > 0
                               /\ sum[AtMost(Latencies, v)] \in Nat /\ sum[AtMost(Latencies, v)] >= k
                               /\ \A w \in Latencies : w < v => sum[AtMost(Latencies, w)] < k
    BY <1>1, <1>4, StatsFacts, SortedIs
  <1>6. \A w : UpTo(samples, w) = sum[AtMost(Latencies, w)] /\ sum[AtMost(Latencies, w)] \in Nat
    <2>1. \A w : UpTo(samples, w) = sum[AtMost(Latencies, w)] /\ AtMost(Latencies, w) \in SUBSET Latencies
      BY <1>1, StatsFacts, CountsAreSums
    <2>2. QED
      BY <1>1, <2>1 DEF Sums
  <1>7. 100 * UpTo(samples, v) >= p * n
    BY <1>3, <1>5, <1>6 DEF RankOf
  <1>8. \A w \in Latencies : w < v => 100 * UpTo(samples, w) < p * n
    BY <1>3, <1>5, <1>6 DEF RankOf
  <1>9. IsNearestRank(v, p)
    BY <1>2, <1>5, <1>7, <1>8 DEF IsNearestRank
  <1>10. QED
    BY <1>2, <1>3, <1>5, <1>9

\* The least and the largest sample.
LEMMA Extremes ==
  ASSUME StatsInv, NEW n \in Nat \ {0}, n = Number(samples)
  PROVE  /\ samples[Sorted(samples, 1)] > 0
         /\ UpTo(samples, Sorted(samples, 1)) = samples[Sorted(samples, 1)]
         /\ UpTo(samples, Sorted(samples, n)) = n
  <1>1. PICK sum : Sums(sum, samples, Latencies)
    BY StatsFacts
  <1>2. \A w : UpTo(samples, w) = sum[AtMost(Latencies, w)] /\ AtMost(Latencies, w) \in SUBSET Latencies
    BY <1>1, StatsFacts, CountsAreSums
  <1>3. PICK v \in Latencies : /\ v = Sorted(samples, 1)
                               /\ samples[v] > 0
                               /\ \A w \in Latencies : w < v => sum[AtMost(Latencies, w)] < 1
    <2>1. 1 \in Nat \ {0} /\ 1 <= Number(samples)
      OBVIOUS
    <2>2. QED
      BY <1>1, <2>1, StatsFacts, SortedIs
  <1>4. sum[AtMost(Latencies, v)] = samples[v]
    <2>1. sum[AtMost(Latencies, v)] = samples[v] + sum[Below(Latencies, v)] /\ Below(Latencies, v) \in SUBSET Latencies
      BY <1>1, <1>3, StatsFacts, UpToStep
    <2>2. sum[Below(Latencies, v)] = 0
      <3>1. CASE Below(Latencies, v) = {}
        BY <1>1, <3>1 DEF Sums
      <3>2. CASE Below(Latencies, v) # {}
        <4>1. PICK u \in Latencies : u < v /\ AtMost(Latencies, u) = Below(Latencies, v)
          BY <1>3, <3>2, StatsFacts, BelowIsUpTo
        <4>2. sum[Below(Latencies, v)] \in Nat
          BY <1>1, <2>1 DEF Sums
        <4>3. sum[Below(Latencies, v)] < 1
          BY <1>3, <4>1
        <4>4. QED
          BY <4>2, <4>3
      <3>3. QED
        BY <3>1, <3>2
    <2>3. samples[v] \in Nat
      BY <1>3, StatsFacts
    <2>4. QED
      BY <2>1, <2>2, <2>3
  <1>5. PICK m \in Latencies : m = Sorted(samples, n) /\ sum[AtMost(Latencies, m)] >= n
    <2>1. n \in Nat \ {0} /\ n <= Number(samples)
      OBVIOUS
    <2>2. QED
      BY <1>1, <2>1, StatsFacts, SortedIs
  <1>6. sum[AtMost(Latencies, m)] = n
    <2>1. n = sum[Latencies]
      BY <1>1, StatsFacts, CountsAreSums
    <2>2. PICK A \in SUBSET Latencies : A = AtMost(Latencies, m)
      BY <1>2
    <2>3. Latencies \in SUBSET Latencies
      OBVIOUS
    <2>4. sum[A] <= sum[Latencies] /\ sum[A] \in Nat
      BY <1>1, <2>2, <2>3, StatsFacts, SumsGrow
    <2>5. PICK a \in Nat : a = sum[A]
      BY <2>4
    <2>6. a <= n
      BY <2>1, <2>4, <2>5
    <2>7. a >= n
      BY <1>5, <2>2, <2>5
    <2>8. a = n
      BY <2>6, <2>7
    <2>9. QED
      BY <2>2, <2>5, <2>8
  <1>7. QED
    BY <1>2, <1>3, <1>4, <1>5, <1>6

\* The percentiles of the report.
LEMMA Percentiles == StatsInv => PercentilesAreNearestRank
  <1> SUFFICES ASSUME StatsInv PROVE PercentilesAreNearestRank
    OBVIOUS
  <1>1. PICK n \in Nat : n = Number(samples)
    BY StatsFacts
  <1>2. StackRoom \in Nat
    BY StatsAssumption
  <1>3. CASE n \in 1 .. StackRoom
    <2>1. n \in Nat \ {0} /\ ~(n > StackRoom)
      BY <1>2, <1>3
    <2>2. Compute(samples) = ComputeWith(samples) /\ n # 0
      BY <1>1, <2>1 DEF Compute
    <2>3. PICK stats : stats = Compute(samples)
      OBVIOUS
    <2>4. /\ stats.min = Sorted(samples, 1) /\ stats.max = Sorted(samples, n)
          /\ stats.median = Sorted(samples, Rank(50, n)) /\ stats.p99 = Sorted(samples, Rank(99, n))
      BY <1>1, <2>2, <2>3 DEF ComputeWith
    <2>5. IsNearestRank(stats.median, 50) /\ IsNearestRank(stats.p99, 99)
      BY <1>1, <2>2, <2>4, NearestRank
    <2>6. /\ samples[stats.min] > 0 /\ UpTo(samples, stats.min) = samples[stats.min]
          /\ UpTo(samples, stats.max) = n
      BY <1>1, <2>1, <2>4, Extremes
    <2>7. QED
      BY <1>1, <1>3, <2>3, <2>5, <2>6, Zenon DEF PercentilesAreNearestRank
  <1>4. CASE n \notin 1 .. StackRoom
    <2>1. n = 0 \/ n > StackRoom
      BY <1>1, <1>2, <1>4
    <2>2. Compute(samples) = NoStats
      BY <1>1, <2>1 DEF Compute, ComputeWith
    <2>3. n > 0 => \A p \in {50, 99} : IsNearestRank(Percentile(samples, p), p)
      <3>1. SUFFICES ASSUME n > 0, NEW p \in {50, 99}
                     PROVE  IsNearestRank(Percentile(samples, p), p)
        OBVIOUS
      <3>2. Number(samples) # 0
        BY <1>1, <3>1
      <3>3. Percentile(samples, p) = Sorted(samples, Rank(p, Number(samples)))
        BY <3>2 DEF Percentile
      <3>4. QED
        BY <3>2, <3>3, NearestRank
    <2>4. QED
      BY <1>1, <1>4, <2>2, <2>3, Zenon DEF PercentilesAreNearestRank
  <1>5. QED
    BY <1>3, <1>4

\* The bin of a latency is the one whose printed range it lies in.
LEMMA BinRange ==
  ASSUME NEW v \in Nat
  PROVE  /\ Bin(v) \in 0 .. HistogramBins - 1
         /\ \A b \in 0 .. HistogramBins - 1 :
              Bin(v) = b <=> v >= b * BinWidth /\ (b < HistogramBins - 1 => v < (b + 1) * BinWidth)
  BY DEF Bin, HistogramBins, BinWidth

\* The latencies of a bin, and those of the bins before the k-th.
InBin(b) == {v \in Latencies : Bin(v) = b}
InBins(k) == {v \in Latencies : Bin(v) < k}

\* One bin more.
LEMMA NextBin ==
  ASSUME Latencies \subseteq Nat, NEW k \in 0 .. HistogramBins - 1, NEW m, m = k + 1
  PROVE  Parts(InBins(m), InBins(k), InBin(k))
  <1>1. \A v \in Latencies : Bin(v) \in Nat
    BY BinRange DEF HistogramBins
  <1>2. k \in Nat
    BY DEF HistogramBins
  <1>3. \A x \in Nat : (x < m <=> x < k \/ x = k) /\ ~(x < k /\ x = k)
    BY <1>2
  <1>4. QED
    BY <1>1, <1>3, Zenon DEF Parts, InBins, InBin

\* The bins of the report are the sums over the latencies of each, without a
\* sample as well.
LEMMA BinsAreSums ==
  ASSUME StatsInv, NEW sum, Sums(sum, samples, Latencies),
         NEW h, h = ComputeWith(samples).histogram
  PROVE  /\ h \in [0 .. HistogramBins - 1 -> Nat]
         /\ \A b \in 0 .. HistogramBins - 1 : h[b] = sum[InBin(b)]
  <1>1. \A b : InBin(b) \in SUBSET Latencies
    BY DEF InBin
  <1>2. \A b : sum[InBin(b)] \in Nat
    BY <1>1 DEF Sums
  <1>3. Number(samples) \in Nat /\ Number(samples) = sum[Latencies] /\ DOMAIN samples = Latencies
    BY StatsFacts, CountsAreSums
  <1>4. CASE Number(samples) = 0
    <2>1. h = [b \in 0 .. HistogramBins - 1 |-> 0]
      BY <1>4 DEF ComputeWith, NoStats
    <2>2. ASSUME NEW b PROVE sum[InBin(b)] = 0
      <3>1. PICK B \in SUBSET Latencies : B = InBin(b)
        BY <1>1
      <3>2. Latencies \in SUBSET Latencies
        OBVIOUS
      <3>3. sum[B] <= sum[Latencies] /\ sum[B] \in Nat
        BY <3>1, <3>2, StatsFacts, SumsGrow
      <3>4. QED
        BY <1>3, <1>4, <3>1, <3>3
    <2>3. QED
      BY <2>1, <2>2
  <1>5. CASE Number(samples) # 0
    <2>1. h = Histogram(samples)
      BY <1>5 DEF ComputeWith
    <2>2. \A b : Total(samples, InBin(b)) = sum[InBin(b)]
      BY <1>1, StatsFacts, TotalIsSum
    <2>3. Histogram(samples) = [b \in 0 .. HistogramBins - 1 |-> Total(samples, InBin(b))]
      BY <1>3, Zenon DEF Histogram, Total, InBin
    <2>4. QED
      BY <1>2, <2>1, <2>2, <2>3
  <1>6. QED
    BY <1>4, <1>5

\* The bins together hold every sample.
LEMMA BinsHoldAll ==
  ASSUME StatsInv, NEW h, h = ComputeWith(samples).histogram
  PROVE  Total(h, DOMAIN h) = Number(samples)
  <1> DEFINE N == HistogramBins
  <1>0. N \in Nat /\ IsFiniteSet(0 .. N - 1)
    <2>1. N \in Nat /\ 0 \in Int /\ N - 1 \in Int
      BY DEF HistogramBins
    <2> HIDE DEF N
    <2>2. QED
      BY <2>1, FS_Interval
  <1>1. PICK sum : Sums(sum, samples, Latencies)
    BY StatsFacts
  <1>2. h \in [0 .. N - 1 -> Nat] /\ \A b \in 0 .. N - 1 : h[b] = sum[InBin(b)]
    BY <1>1, BinsAreSums
  <1> HIDE DEF N
  <1>3. PICK hs : Sums(hs, h, 0 .. N - 1)
    BY <1>0, <1>2, SumsExist
  <1>4. \A k : InBins(k) \in SUBSET Latencies /\ InBin(k) \in SUBSET Latencies
    BY DEF InBins, InBin
  <1> DEFINE Bad == {k \in 0 .. N : hs[0 .. k - 1] # sum[InBins(k)]}
  <1>5. Bad = {}
    <2> SUFFICES ASSUME Bad # {} PROVE FALSE
      OBVIOUS
    <2>1. Bad \subseteq Nat
      OBVIOUS
    <2>2. Min(Bad) \in Bad /\ \A k \in Bad : Min(Bad) <= k
      <3> HIDE DEF Bad
      <3> QED
        BY <2>1, MinOfNats
    <2>3. PICK m \in 0 .. N : m = Min(Bad) /\ hs[0 .. m - 1] # sum[InBins(m)]
      BY <2>2
    <2>4. m # 0
      <3>1. 0 .. 0 - 1 = {}
        OBVIOUS
      <3>2. InBins(0) = {}
        <4>1. \A v \in Latencies : Bin(v) \in 0 .. HistogramBins - 1
          BY StatsFacts, BinRange
        <4>2. \A x \in 0 .. HistogramBins - 1 : ~(x < 0)
          BY DEF HistogramBins
        <4>3. QED
          BY <4>1, <4>2, Zenon DEF InBins
      <3>3. hs[{}] = 0 /\ sum[{}] = 0
        BY <1>1, <1>3 DEF Sums
      <3>4. QED
        BY <2>3, <3>1, <3>2, <3>3
    <2>5. PICK k \in 0 .. N - 1 : m = k + 1 /\ k = m - 1
      BY <1>0, <2>4
    <2>6. hs[0 .. k - 1] = sum[InBins(k)]
      <3>1. k \in 0 .. N /\ ~(m <= k)
        BY <1>0, <2>5
      <3>2. k \notin Bad
        BY <2>2, <2>3, <3>1
      <3>3. QED
        BY <3>1, <3>2
    <2>7. hs[0 .. m - 1] = h[k] + hs[0 .. k - 1]
      <3>1. PICK K : K = 0 .. m - 1
        OBVIOUS
      <3>2. K \in SUBSET (0 .. N - 1) /\ k \in K /\ K \ {k} = 0 .. k - 1
        BY <1>0, <2>5, <3>1
      <3>3. hs[K] = h[k] + hs[K \ {k}]
        BY <1>3, <3>2 DEF Sums
      <3>4. QED
        BY <3>1, <3>2, <3>3
    <2>8. sum[InBins(m)] = sum[InBins(k)] + sum[InBin(k)]
      <3>1. Parts(InBins(m), InBins(k), InBin(k))
        BY <2>5, StatsFacts, NextBin DEF N
      <3>2. QED
        BY <1>1, <1>4, <3>1, StatsFacts, SumsSplit
    <2>9. PICK x \in Nat, y \in Nat : x = sum[InBins(k)] /\ y = sum[InBin(k)]
      BY <1>1, <1>4 DEF Sums
    <2>10. hs[0 .. m - 1] = y + x /\ sum[InBins(m)] = x + y
      BY <1>2, <2>5, <2>6, <2>7, <2>8, <2>9
    <2>11. QED
      BY <2>3, <2>9, <2>10
  <1>6. hs[0 .. N - 1] = sum[InBins(N)]
    <2>1. N \in 0 .. N
      BY <1>0
    <2>2. QED
      BY <1>5, <2>1
  <1>7. InBins(N) = Latencies
    <2>1. \A v \in Latencies : Bin(v) < N
      BY StatsFacts, BinRange DEF HistogramBins, N
    <2>2. QED
      BY <2>1 DEF InBins
  <1>8. Total(h, 0 .. N - 1) = hs[0 .. N - 1]
    <2>1. 0 .. N - 1 \in SUBSET (0 .. N - 1)
      OBVIOUS
    <2>2. QED
      BY <1>0, <1>2, <1>3, <2>1, TotalIsSum
  <1>9. DOMAIN h = 0 .. N - 1 /\ Number(samples) = sum[Latencies]
    BY <1>1, <1>2, StatsFacts, CountsAreSums
  <1>10. QED
    BY <1>6, <1>7, <1>8, <1>9

\* The histogram of the report.
LEMMA Histograms == StatsInv => HistogramComplete
  <1> SUFFICES ASSUME StatsInv PROVE HistogramComplete
    OBVIOUS
  <1> DEFINE low(b) == b * BinWidth
             within(b) == {v \in Latencies : v >= low(b)
                                               /\ (b < HistogramBins - 1 => v < low(b + 1))}
  <1>1. PICK h : h = ComputeWith(samples).histogram
    OBVIOUS
  <1>2. PICK sum : Sums(sum, samples, Latencies)
    BY StatsFacts
  <1>3. h \in [0 .. HistogramBins - 1 -> Nat] /\ \A b \in 0 .. HistogramBins - 1 : h[b] = sum[InBin(b)]
    BY <1>1, <1>2, BinsAreSums
  <1>4. \A b \in 0 .. HistogramBins - 1 : within(b) = InBin(b)
    BY StatsFacts, BinRange DEF InBin
  <1>5. \A b : InBin(b) \in SUBSET Latencies
    BY DEF InBin
  <1>6. \A b : Total(samples, InBin(b)) = sum[InBin(b)]
    BY <1>2, <1>5, StatsFacts, TotalIsSum
  <1>7. \A b \in DOMAIN h : h[b] = MapThenSumSet(LAMBDA v : samples[v], within(b))
    <2>1. \A b \in DOMAIN h : h[b] = Total(samples, within(b))
      <3> HIDE DEF within
      <3> QED
        BY <1>3, <1>4, <1>6
    <2>2. QED
      BY <2>1, Zenon DEF Total
  <1> DEFINE r == ComputeWith(samples).histogram
  <1>8. \A b \in DOMAIN r : r[b] = MapThenSumSet(LAMBDA v : samples[v], within(b))
    <2> HIDE DEF within
    <2> QED
      BY <1>1, <1>7, Zenon
  <1>9. MapThenSumSet(LAMBDA b : r[b], DOMAIN r) = Number(samples)
    <2>1. Total(r, DOMAIN r) = Number(samples)
      BY BinsHoldAll
    <2>2. QED
      BY <2>1, Zenon DEF Total
  <1>10. QED
    BY <1>8, <1>9 DEF HistogramComplete

\* cycles_to_ns_e4 rounds to the nearest.
LEMMA NsIsNearest ==
  ASSUME NEW c \in Nat
  PROVE  LET error == CyclesToNsE4(c) * 165 - c * 5120000
         IN  -165 <= 2 * error /\ 2 * error <= 165
  <1>1. c * 512 * 10000 = 5120000 * c /\ 165 \div 2 = 82
    BY SMT
  <1>2. PICK x \in Nat : x = 5120000 * c + 82
    BY SMT
  <1>3. PICK q \in Int : q = x \div 165
    BY SMT
  <1>4. 165 * q <= x /\ x < 165 * q + 165
    BY <1>3, SMT
  <1>5. CyclesToNsE4(c) = q
    BY <1>1, <1>2, <1>3, SMT DEF CyclesToNsE4
  <1>6. -165 <= 2 * (q * 165 - c * 5120000) /\ 2 * (q * 165 - c * 5120000) <= 165
    BY <1>2, <1>4, SMT
  <1>7. QED
    BY <1>5, <1>6, SMT

\* The nanoseconds of the report.
LEMMA Nanoseconds == StatsInv => NsRounded
  <1> SUFFICES ASSUME StatsInv PROVE NsRounded
    OBVIOUS
  <1>1. PICK stats : stats = ComputeWith(samples)
    OBVIOUS
  <1>2. \A c \in {stats.min, stats.median, stats.p99, stats.max} : c \in Nat
    <2>1. CASE Number(samples) = 0
      BY <1>1, <2>1 DEF ComputeWith, NoStats
    <2>2. CASE Number(samples) # 0
      <3>1. PICK n \in Nat \ {0} : n = Number(samples)
        BY <2>2, StatsFacts
      <3>2. PICK sum : Sums(sum, samples, Latencies)
        BY StatsFacts
      <3>3. ASSUME NEW k \in Nat \ {0}, k <= Number(samples) PROVE Sorted(samples, k) \in Nat
        <4>1. PICK v \in Latencies : v = Sorted(samples, k)
          BY <3>2, <3>3, StatsFacts, SortedIs
        <4>2. QED
          BY <4>1, StatsFacts
      <3>4. /\ stats.min = Sorted(samples, 1) /\ stats.max = Sorted(samples, n)
            /\ stats.median = Sorted(samples, Rank(50, n)) /\ stats.p99 = Sorted(samples, Rank(99, n))
        BY <1>1, <2>2, <3>1 DEF ComputeWith
      <3>5. \A p \in {50, 99} : Rank(p, n) \in Nat \ {0} /\ Rank(p, n) <= Number(samples)
        BY <3>1, RankIs DEF RankOf
      <3>6. 1 <= Number(samples) /\ n <= Number(samples)
        BY <3>1
      <3>7. QED
        BY <3>3, <3>4, <3>5, <3>6
    <2>3. QED
      BY <2>1, <2>2
  <1>3. QED
    BY <1>1, <1>2, NsIsNearest, SMT DEF NsRounded

\* The counts stay counts.
THEOREM StatsInvariant == StatsSpec => []StatsInv
  <1>1. StatsInit => StatsInv
    BY DEF StatsInit, StatsInv
  <1>2. StatsInv /\ [StatsNext]_samples => StatsInv'
    BY DEF StatsInv, StatsNext, RecordLatency
  <1>3. QED
    BY <1>1, <1>2, PTL DEF StatsSpec

\* ReportIsExact, for every finite set of latencies and every number of
\* samples: the percentiles of compute, compute_with and the tool are the
\* nearest-rank ones, the histogram holds every sample in the bin printed for
\* it, and the nanoseconds are rounded to the nearest.
THEOREM ReportAlwaysExact == StatsSpec => []ReportIsExact
  <1>1. StatsInv => ReportIsExact
    BY Percentiles, Histograms, Nanoseconds DEF ReportIsExact
  <1>2. QED
    BY <1>1, StatsInvariant, PTL
==============================================================================
