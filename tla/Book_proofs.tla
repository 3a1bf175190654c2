---------------------------- MODULE Book_proofs ------------------------------
(***************************************************************************)
(* The book stage under the events of BookBench and under the messages of  *)
(* the synthetic stream.                                                   *)
(*                                                                         *)
(* In the bench it keeps its book backed by the orders in its table and    *)
(* its quote the best of them, for every capacity, number of levels and    *)
(* set of references, prices and shares and any number of dropped adds.    *)
(*                                                                         *)
(* For every number of messages, levels, lots and live orders that         *)
(* SyntheticAssumption allows, the generator's own bookkeeping (the list   *)
(* live_ and the quantities per level) stays in step with the order table  *)
(* and the book that apply its messages.  The invariant InStep relates the *)
(* two: the orders of the list are the orders of the table, the quantities *)
(* are the sums of their shares, every reference is below the next one,    *)
(* and the book is well formed, backed by the orders and has dropped       *)
(* nothing.  That no add is dropped follows by counting: every level in    *)
(* use has one of the side's prices, and a side has as many levels as      *)
(* prices; that every add finds a slot follows from the threshold on the   *)
(* length of the list.                                                     *)
(***************************************************************************)
EXTENDS BookBench, SyntheticStream, BookStage_proofs, SequenceTheorems

(***************************************************************************)
(* The bench.                                                              *)
(***************************************************************************)
\* The largest order there is.
MaxShares == IF Shares = {} THEN 0 ELSE Max(Shares)

\* No order of the bench is larger.
LEMMA SharesFit == MaxShares \in Nat /\ Shares \subseteq 1 .. MaxShares
  <1>1. CASE Shares = {}
    BY <1>1 DEF MaxShares
  <1>2. CASE Shares # {}
    <2>1. Shares \subseteq 0 .. IntMax
      BY BenchAssumption, IntMaxAssumption
    <2>2. Max(Shares) \in Shares /\ \A y \in Shares : y <= Max(Shares)
      BY <1>2, <2>1, IntMaxAssumption, MaxOfNats
    <2>3. PICK k \in Nat : k = Max(Shares)
      <3>1. Max(Shares) \in 0 .. IntMax
        BY <2>1, <2>2
      <3>2. Max(Shares) \in Nat
        BY <3>1
      <3>3. QED
        BY <3>2
    <2>4. \A y \in Shares : y \in 1 .. k
      BY <2>2, <2>3, BenchAssumption, IntMaxAssumption
    <2>5. QED
      BY <1>2, <2>3, <2>4 DEF MaxShares
  <1>3. QED
    BY <1>1, <1>2

\* The inductive invariant: the table and the book are well formed even after
\* a fault, the book is backed by the orders until then, and the quote is the
\* one of the book.
BookInv ==
  /\ WellFormed(entries, book, References, Prices, MaxShares)
  /\ ~fault => Backed(entries, book, Prices)
  /\ quote = BestQuote(book)

\* The events of the bench are those of a feed.
LEMMA EventsWellFormed ==
  ASSUME NEW e \in Events
  PROVE  WellFormedEvent(e, References, Prices, MaxShares)
  <1> DEFINE A == {Event("A", r, 0, b, p, q) :
                     r \in References, b \in BOOLEAN, p \in Prices, q \in Shares}
             X == {Event("X", r, 0, FALSE, 0, q) : r \in References, q \in Shares}
             D == {Event("D", r, 0, FALSE, 0, 0) : r \in References}
             U == {Event("U", r, n, FALSE, p, q) :
                     r \in References, n \in References, p \in Prices, q \in Shares}
  <1>1. Shares \subseteq 1 .. MaxShares /\ Shares \subseteq Nat
    BY SharesFit
  <1>2. CASE e \in A
    BY <1>1, <1>2 DEF Event, WellFormedEvent, Adds, Reductions
  <1>3. CASE e \in X
    BY <1>1, <1>3 DEF Event, WellFormedEvent, Adds, Reductions
  <1>4. CASE e \in D
    BY <1>4 DEF Event, WellFormedEvent, Adds, Reductions
  <1>5. CASE e \in U
    BY <1>1, <1>5 DEF Event, WellFormedEvent, Adds, Reductions
  <1>6. CASE e = Event("?", 0, 0, FALSE, 0, 0)
    BY <1>6 DEF Event, WellFormedEvent, Adds, Reductions
  <1>7. Events = A \cup X \cup D \cup U \cup {Event("?", 0, 0, FALSE, 0, 0)}
    BY DEF Events
  <1>8. QED
    <2> HIDE DEF A, X, D, U
    <2> QED
      BY <1>2, <1>3, <1>4, <1>5, <1>6, <1>7

\* apply_to_book and reset keep the table, the book and the quote together.
THEOREM BookInvariant == StageSpec => []BookInv
  <1>1. StageInit => BookInv
    BY EmptyStage, SharesFit DEF StageInit, TableInit, BookInit, BookInv
  <1>2. BookInv /\ [StageNext]_stageVars => BookInv'
    <2> SUFFICES ASSUME BookInv, [StageNext]_stageVars PROVE BookInv'
      OBVIOUS
    <2>1. CASE ResetStep
      <3>1. /\ entries' = [i \in Slots |-> NoEntry] /\ book' = EmptyBook
            /\ quote' = EmptyQuote /\ fault' = FALSE
        BY <2>1 DEF ResetStep, TableReset, BookReset
      <3>2. QED
        BY <3>1, EmptyStage, SharesFit DEF BookInv
    <2>2. ASSUME NEW e \in Events, ApplyStep(e) PROVE BookInv'
      <3>1. /\ ~fault /\ apply_to_book(e) /\ (fault' <=> ApplyFails(e))
            /\ quote' = BestQuote(book')
        BY <2>2 DEF ApplyStep
      <3>2. /\ WellFormed(entries', book', References, Prices, MaxShares)
            /\ ~ApplyFails(e) => Backed(entries', book', Prices)
        BY <3>1, EventsWellFormed, SharesFit, ApplyKeeps DEF BookInv
      <3>3. QED
        BY <3>1, <3>2 DEF BookInv
    <2>3. CASE UNCHANGED stageVars
      BY <2>3 DEF BookInv, stageVars
    <2>4. QED
      BY <2>1, <2>2, <2>3 DEF StageNext
  <1>3. QED
    BY <1>1, <1>2, PTL DEF StageSpec

\* The shares of the properties are those of the lemmas.
LEMMA LiveSharesAre ==
  ASSUME NEW c, NEW v
  PROVE  Resting(c, v) = RestingIn(entries, c, v) /\ LiveShares(c, v) = SharesAt(entries, c, v)
  BY Zenon DEF Resting, RestingIn, LiveShares, SharesAt, SharesIn

\* The shares shown at a price, added up over its rows, are those of its row.
LEMMA ShownSharesAre ==
  ASSUME NEW side \in SideArrays(Prices), OnePrice(side), NEW v
  PROVE  MapThenSumSet(LAMBDA i : side[i].quantity, AtPrice(side, v)) = ShownAt(side, v)
  <1> DEFINE S == AtPrice(side, v)
             Q(h) == h = [s \in SUBSET S |->
                            IF s = {} THEN 0
                              ELSE side[CHOOSE x \in s : TRUE].quantity
                                     + h[s \ {CHOOSE x \in s : TRUE}]]
  <1>1. MapThenSumSet(LAMBDA i : side[i].quantity, S) = (CHOOSE h : Q(h))[S]
    BY Zenon DEF MapThenSumSet, MapThenFoldSet
  <1>2. CASE S = {}
    <2> DEFINE e == [s \in SUBSET {} |-> 0]
    <2>1. Q(e)
      BY <1>2
    <2>2. PICK h : Q(h) /\ h = CHOOSE g : Q(g)
      <3> HIDE DEF Q
      <3> QED
        BY <2>1
    <2>3. h[S] = 0
      BY <1>2, <2>2
    <2>4. ShownAt(side, v) = 0
      BY <1>2 DEF ShownAt
    <2>5. QED
      BY <1>1, <2>2, <2>3, <2>4
  <1>3. CASE S # {}
    <2>1. PICK x : x \in S
      BY <1>3
    <2>2. S = {x} /\ ShownAt(side, v) = side[x].quantity
      BY <2>1, RowOfPrice
    <2>3. PICK k \in Nat : k = side[x].quantity
      BY <2>1, RowCases DEF AtPrice
    <2>4. SUBSET S = {{}, {x}} /\ (CHOOSE y \in {x} : TRUE) = x /\ {x} \ {x} = {}
      BY <2>2
    <2> DEFINE e == [s \in SUBSET S |-> IF s = {} THEN 0 ELSE k]
    <2>5. Q(e)
      BY <2>2, <2>3, <2>4
    <2>6. PICK h : Q(h) /\ h = CHOOSE g : Q(g)
      <3> HIDE DEF Q
      <3> QED
        BY <2>5
    <2>7. h[{}] = 0 /\ h[{x}] = side[x].quantity + h[{}]
      <3>1. \A s \in SUBSET S :
              h[s] = IF s = {} THEN 0
                       ELSE side[CHOOSE y \in s : TRUE].quantity
                              + h[s \ {CHOOSE y \in s : TRUE}]
        BY <2>6
      <3>2. {} \in SUBSET S /\ {x} \in SUBSET S /\ {x} # {}
        BY <2>2
      <3>3. h[{x}] = side[CHOOSE y \in {x} : TRUE].quantity
                       + h[{x} \ {CHOOSE y \in {x} : TRUE}]
        BY <3>1, <3>2
      <3>4. QED
        BY <2>4, <3>1, <3>2, <3>3
    <2>8. h[S] = k
      BY <2>2, <2>3, <2>7
    <2>9. QED
      BY <1>1, <2>2, <2>3, <2>6, <2>8
  <1>4. QED
    BY <1>2, <1>3

\* No phantom liquidity, no reference or price twice and no overflow, for
\* every capacity, number of levels and sets of prices and shares.
THEOREM BookLevelsBacked == StageSpec => []LevelsBacked
  <1>1. BookInv => LevelsBacked
    <2> SUFFICES ASSUME BookInv PROVE LevelsBacked
      OBVIOUS
    <2>1. WellFormed(entries, book, References, Prices, MaxShares) /\ MaxShares \in Nat
      BY SharesFit DEF BookInv
    <2>2. /\ entries \in Tables(References, Prices, MaxShares) /\ LiveOnce(entries)
          /\ book \in Books(Prices) /\ OnePriceBook(book)
      BY <2>1 DEF WellFormed
    <2>3. NoDuplicates
      BY <2>2 DEF NoDuplicates, LiveOnce, OnePriceBook, OnePrice
    <2>4. ASSUME ~fault, NEW c \in BOOLEAN, NEW i \in Rows,
                 NEW level, level = book[SideOf(c)][i], level.valid
          PROVE  level.quantity \in 1 .. LiveShares(c, level.price)
      <3>1. Backed(entries, book, Prices)
        BY <2>4 DEF BookInv
      <3>2. level.quantity \in 1 .. SharesAt(entries, c, level.price)
        BY <2>1, <2>4, <3>1, LevelBacked
      <3>3. QED
        BY <3>2, LiveSharesAre
    <2>5. QuantitiesFit
      <3> SUFFICES ASSUME ~fault, Capacity * Max(Shares) <= IntMax,
                          NEW s \in {"bids", "asks"}, NEW i \in Rows
                   PROVE  book[s][i].quantity \in 0 .. IntMax
        BY DEF QuantitiesFit
      <3>1. PICK c \in BOOLEAN : SideOf(c) = s
        BY DEF SideOf
      <3>2. book[s] \in SideArrays(Prices)
        BY <2>2 DEF Books
      <3>3. CASE ~book[s][i].valid
        BY <3>2, <3>3, RowCases, IntMaxAssumption DEF NoLevel
      <3>4. CASE book[s][i].valid
        <4>1. PICK level : level = book[s][i]
          OBVIOUS
        <4>2. level.quantity \in 1 .. SharesAt(entries, c, level.price)
          BY <2>4, <3>1, <3>4, <4>1, LiveSharesAre
        <4>3. PICK k \in Nat : k = SharesAt(entries, c, level.price) /\ k <= Capacity * MaxShares
          BY <2>1, <2>2, SharesAreNat, SharesBound
        <4>4. Capacity * MaxShares <= IntMax
          <5>1. CASE Shares = {}
            BY <5>1, CapacityAssumption, IntMaxAssumption DEF MaxShares
          <5>2. CASE Shares # {}
            BY <5>2 DEF MaxShares
          <5>3. QED
            BY <5>1, <5>2
        <4>5. level.quantity \in 0 .. IntMax
          BY <2>1, <4>2, <4>3, <4>4, CapacityAssumption, IntMaxAssumption
        <4>6. QED
          BY <4>1, <4>5
      <3>5. QED
        BY <3>3, <3>4
    <2>6. QED
      BY <2>3, <2>4, <2>5 DEF LevelsBacked
  <1>2. QED
    BY <1>1, BookInvariant, PTL

\* As long as nothing was dropped the book shows exactly the resting shares.
THEOREM BookMatchesOrders == StageSpec => []LevelsMatchOrders
  <1>1. BookInv => LevelsMatchOrders
    <2> SUFFICES ASSUME BookInv, ~fault, book.overflow = 0,
                        NEW c \in BOOLEAN, NEW v \in Prices
                 PROVE  ShownShares(c, v) = LiveShares(c, v)
      BY DEF LevelsMatchOrders
    <2>1. PICK side \in SideArrays(Prices) : side = book[SideOf(c)] /\ OnePrice(side)
      BY DEF BookInv, WellFormed, Books, OnePriceBook, SideOf
    <2>2. ShownShares(c, v) = ShownAt(side, v)
      BY <2>1, ShownSharesAre DEF ShownShares
    <2>3. ShownAt(side, v) = SharesAt(entries, c, v)
      BY <2>1 DEF BookInv, Backed
    <2>4. QED
      BY <2>2, <2>3, LiveSharesAre
  <1>2. QED
    BY <1>1, BookInvariant, PTL

\* The levels of a side are those of the resting orders.
LevelsAre(side, c) ==
  LET held == {p \in Prices : Resting(c, p) # {}} IN
  /\ \A i \in Occupied(side) :
       side[i].price \in held /\ side[i].quantity = LiveShares(c, side[i].price)
  /\ \A p \in held : \E i \in Occupied(side) : side[i].price = p

\* While nothing has been dropped, the prices with a level are those at which
\* an order rests.
LEMMA OccupiedPrices ==
  ASSUME BookInv, ~fault, book.overflow = 0, NEW c \in BOOLEAN
  PROVE  LevelsAre(book[SideOf(c)], c)
  <1> DEFINE side == book[SideOf(c)]
             held == {p \in Prices : Resting(c, p) # {}}
  <1>1. side \in SideArrays(Prices) /\ OnePrice(side)
    BY DEF BookInv, WellFormed, Books, OnePriceBook, SideOf
  <1>2. entries \in Tables(References, Prices, MaxShares) /\ MaxShares \in Nat
    BY SharesFit DEF BookInv, WellFormed
  <1>3. \A v \in Prices : ShownAt(side, v) = SharesAt(entries, c, v)
    BY DEF BookInv, Backed
  <1>4. \A v : /\ Resting(c, v) # {} <=> SharesAt(entries, c, v) # 0
               /\ LiveShares(c, v) = SharesAt(entries, c, v)
    BY <1>2, LiveSharesAre, RestingHolds
  <1>5. ASSUME NEW i \in Occupied(side)
        PROVE  side[i].price \in held /\ side[i].quantity = LiveShares(c, side[i].price)
    <2>1. i \in Rows /\ side[i].valid
      BY DEF Occupied, Unused
    <2>2. side[i].price \in Prices /\ side[i].quantity # 0
      BY <1>1, <2>1, RowCases
    <2>3. i \in AtPrice(side, side[i].price)
      BY <2>1 DEF AtPrice
    <2>4. ShownAt(side, side[i].price) = side[i].quantity
      BY <1>1, <2>3, RowOfPrice
    <2>5. QED
      BY <1>3, <1>4, <2>2, <2>4
  <1>6. ASSUME NEW p \in held PROVE \E i \in Occupied(side) : side[i].price = p
    <2>1. ShownAt(side, p) # 0
      BY <1>3, <1>4
    <2>2. AtPrice(side, p) # {}
      BY <2>1 DEF ShownAt
    <2>3. QED
      BY <2>2 DEF AtPrice, Occupied, Unused
  <1>7. QED
    BY <1>5, <1>6 DEF LevelsAre

\* The quote is the best of all resting orders, on both sides, although the
\* rows of the book are in no order.
THEOREM BookQuoteIsBest == StageSpec => []QuoteIsBest
  <1>1. BookInv => QuoteIsBest
    <2> SUFFICES ASSUME BookInv, ~fault, book.overflow = 0 PROVE QuoteIsBest
      BY DEF QuoteIsBest
    <2> DEFINE held(c) == {p \in Prices : Resting(c, p) # {}}
    <2>1. book \in Books(Prices) /\ Prices \subseteq 0 .. IntMax
      BY BenchAssumption, IntMaxAssumption DEF BookInv, WellFormed
    <2>2. SideOf(TRUE) = "bids" /\ SideOf(FALSE) = "asks"
      BY DEF SideOf
    <2>3. /\ \A i \in Occupied(book.bids) :
               /\ book.bids[i].price \in held(TRUE)
               /\ book.bids[i].quantity = LiveShares(TRUE, book.bids[i].price)
          /\ \A p \in held(TRUE) : \E i \in Occupied(book.bids) : book.bids[i].price = p
      <3>1. LevelsAre(book.bids, TRUE)
        <4>1. LevelsAre(book[SideOf(TRUE)], TRUE)
          BY OccupiedPrices, Zenon
        <4>2. QED
          BY <2>2, <4>1
      <3>2. QED
        BY <3>1, Zenon DEF LevelsAre
    <2>4. /\ \A i \in Occupied(book.asks) :
               /\ book.asks[i].price \in held(FALSE)
               /\ book.asks[i].quantity = LiveShares(FALSE, book.asks[i].price)
          /\ \A p \in held(FALSE) : \E i \in Occupied(book.asks) : book.asks[i].price = p
      <3>1. LevelsAre(book.asks, FALSE)
        <4>1. LevelsAre(book[SideOf(FALSE)], FALSE)
          BY OccupiedPrices, Zenon
        <4>2. QED
          BY <2>2, <4>1
      <3>2. QED
        BY <3>1, Zenon DEF LevelsAre
    <2>5. quote = BestQuote(book)
      BY DEF BookInv
    <2>6. ASSUME NEW c \in BOOLEAN, NEW v, v \notin Prices PROVE LiveShares(c, v) = 0
      <3>1. entries \in Tables(References, Prices, MaxShares) /\ MaxShares \in Nat
        BY SharesFit DEF BookInv, WellFormed
      <3>2. RestingIn(entries, c, v) = {}
        BY <2>6, <3>1, SlotCases DEF RestingIn
      <3>3. QED
        BY <3>1, <3>2, LiveSharesAre, RestingHolds
    <2>7. /\ quote.bidPrice = (IF held(TRUE) = {} THEN 0 ELSE Max(held(TRUE)))
          /\ quote.bidQty = LiveShares(TRUE, quote.bidPrice)
      <3>1. CASE Occupied(book.bids) = {}
        <4>1. held(TRUE) = {} /\ best_bid(book) = NoLevel
          BY <2>1, <2>3, <3>1, BestRows
        <4>2. quote.bidPrice = 0 /\ quote.bidQty = 0
          BY <2>5, <4>1 DEF BestQuote, NoLevel, Quote
        <4>3. 0 \notin Prices
          BY BenchAssumption, IntMaxAssumption
        <4>4. QED
          BY <2>6, <4>1, <4>2, <4>3
      <3>2. CASE Occupied(book.bids) # {}
        <4>1. PICK x \in Occupied(book.bids) :
                /\ best_bid(book) = book.bids[x]
                /\ \A j \in Occupied(book.bids) : book.bids[j].price <= book.bids[x].price
          BY <2>1, <3>2, BestRows
        <4>2. PICK p \in held(TRUE) : /\ p = book.bids[x].price
                                      /\ book.bids[x].quantity = LiveShares(TRUE, p)
          BY <2>3, <4>1
        <4>3. \A y \in held(TRUE) : y <= p
          BY <2>3, <4>1, <4>2
        <4>4. Max(held(TRUE)) \in held(TRUE) /\ \A y \in held(TRUE) : y <= Max(held(TRUE))
          BY <2>1, <4>2, IntMaxAssumption, MaxOfNats
        <4>5. p = Max(held(TRUE))
          <5>1. PICK z \in held(TRUE) : z = Max(held(TRUE))
            BY <4>4
          <5>2. z <= p /\ p <= z /\ z \in 0 .. IntMax /\ p \in 0 .. IntMax
            BY <2>1, <4>2, <4>3, <4>4, <5>1
          <5>3. QED
            BY <5>1, <5>2
        <4>6. book.bids[x].valid
          BY <4>1 DEF Occupied, Unused
        <4>7. quote.bidPrice = p /\ quote.bidQty = LiveShares(TRUE, p)
          BY <2>5, <4>1, <4>2, <4>6 DEF BestQuote, Quote
        <4>8. QED
          BY <4>2, <4>5, <4>7
      <3>3. QED
        BY <3>1, <3>2
    <2>8. /\ quote.askPrice = (IF held(FALSE) = {} THEN IntMax ELSE Min(held(FALSE)))
          /\ quote.askQty = LiveShares(FALSE, quote.askPrice)
      <3>1. CASE Occupied(book.asks) = {}
        <4>1. held(FALSE) = {} /\ best_ask(book) = NoLevel
          BY <2>1, <2>4, <3>1, BestRows
        <4>2. quote.askPrice = IntMax /\ quote.askQty = 0
          BY <2>5, <4>1 DEF BestQuote, NoLevel, Quote
        <4>3. IntMax \notin Prices
          BY BenchAssumption, IntMaxAssumption
        <4>4. QED
          BY <2>6, <4>1, <4>2, <4>3
      <3>2. CASE Occupied(book.asks) # {}
        <4>1. PICK x \in Occupied(book.asks) :
                /\ best_ask(book) = book.asks[x]
                /\ \A j \in Occupied(book.asks) : book.asks[j].price >= book.asks[x].price
          BY <2>1, <3>2, BestRows
        <4>2. PICK p \in held(FALSE) : /\ p = book.asks[x].price
                                       /\ book.asks[x].quantity = LiveShares(FALSE, p)
          BY <2>4, <4>1
        <4>3. \A y \in held(FALSE) : y >= p
          BY <2>4, <4>1, <4>2
        <4>4. held(FALSE) \subseteq Nat
          <5>1. \A y \in 0 .. IntMax : y \in Nat
            BY IntMaxAssumption
          <5>2. QED
            BY <2>1, <5>1
        <4>5. Min(held(FALSE)) \in held(FALSE) /\ \A y \in held(FALSE) : Min(held(FALSE)) <= y
          BY <4>2, <4>4, MinOfNats
        <4>6. p = Min(held(FALSE))
          <5>1. PICK z \in held(FALSE) : z = Min(held(FALSE))
            BY <4>5
          <5>2. z >= p /\ z <= p /\ z \in Nat /\ p \in Nat
            BY <4>2, <4>3, <4>4, <4>5, <5>1
          <5>3. QED
            BY <5>1, <5>2
        <4>7. book.asks[x].valid
          BY <4>1 DEF Occupied, Unused
        <4>8. quote.askPrice = p /\ quote.askQty = LiveShares(FALSE, p)
          BY <2>5, <4>1, <4>2, <4>7 DEF BestQuote, Quote
        <4>9. QED
          BY <4>2, <4>6, <4>8
      <3>3. QED
        BY <3>1, <3>2
    <2>9. QED
      BY <2>7, <2>8 DEF QuoteIsBest
  <1>2. QED
    BY <1>1, BookInvariant, PTL

------------------------------------------------------------------------------
(***************************************************************************)
(* The synthetic stream.                                                   *)
(***************************************************************************)
(***************************************************************************)
(* Prices and the list of live orders.                                     *)
(***************************************************************************)
SidePrices(c) == {level_price(c, l) : l \in Level}
PriceSet == SidePrices(TRUE) \cup SidePrices(FALSE)

\* The order of the table an item of the list stands for.
OrderOf(o) ==
  [reference |-> o.reference, bid |-> o.bid, price |-> level_price(o.bid, o.level),
   remaining |-> o.remaining, live |-> TRUE]

\* Items with up to MaxLots lots; one that is used up has none for a moment.
Items == [reference : Nat, remaining : 0 .. MaxLots, level : Level, bid : BOOLEAN]
Lists == {list \in Seq(Items) : \A k \in DOMAIN list : list[k].remaining # 0}

DistinctRefs(list) ==
  \A j, k \in DOMAIN list : list[j].reference = list[k].reference => j = k
OrdersOf(list) == {OrderOf(list[k]) : k \in DOMAIN list}

\* The levels of a side have different prices, all of them between the price
\* of no bid and the price of no ask.
LEMMA PriceFacts ==
  /\ \A c \in BOOLEAN, l \in Level : level_price(c, l) \in 1 .. IntMax - 1
  /\ \A c \in BOOLEAN : \A l, n \in Level : level_price(c, l) = level_price(c, n) => l = n
  /\ \A l, n \in Level : l < n => level_price(TRUE, l) > level_price(TRUE, n)
                                 /\ level_price(FALSE, l) < level_price(FALSE, n)
  BY SyntheticAssumption, IntMaxAssumption DEF level_price, Level

\* The prices of both sides.
LEMMA PriceSetFacts ==
  /\ \A c \in BOOLEAN, l \in Level : level_price(c, l) \in PriceSet
  /\ PriceSet \subseteq 0 .. IntMax
  <1>1. \A c \in BOOLEAN, l \in Level : level_price(c, l) \in PriceSet
    BY DEF PriceSet, SidePrices
  <1>2. \A v \in 1 .. IntMax - 1 : v \in 0 .. IntMax
    BY IntMaxAssumption
  <1>3. QED
    BY <1>1, <1>2, PriceFacts DEF PriceSet, SidePrices

\* An item of a list is an order of the table.
LEMMA ItemOrder ==
  ASSUME NEW list \in Lists, NEW k \in DOMAIN list
  PROVE  /\ list[k] \in Items /\ list[k].remaining \in 1 .. MaxLots
         /\ list[k].reference \in Nat /\ list[k].level \in Level /\ list[k].bid \in BOOLEAN
         /\ OrderOf(list[k]) \in Orders(Nat, PriceSet, MaxLots)
  <1>1. list[k] \in Items /\ list[k].remaining # 0
    BY DEF Lists
  <1>2. /\ list[k].remaining \in 1 .. MaxLots /\ list[k].reference \in Nat
        /\ list[k].level \in Level /\ list[k].bid \in BOOLEAN
    BY <1>1, SyntheticAssumption DEF Items
  <1>3. level_price(list[k].bid, list[k].level) \in PriceSet
    BY <1>2, PriceSetFacts
  <1>4. QED
    BY <1>1, <1>2, <1>3 DEF OrderOf, Orders

\* Every level of a side of the book is one of the side's price levels.
LEMMA RowPrices ==
  ASSUME NEW t, NEW b, WellFormed(t, b, Nat, PriceSet, MaxLots), Backed(t, b, PriceSet),
         NEW list \in Lists, OrdersOf(list) = OrdersIn(t), NEW c \in BOOLEAN,
         NEW i \in Rows, b[SideOf(c)][i].valid
  PROVE  b[SideOf(c)][i].price \in SidePrices(c)
  <1>1. MaxLots \in Nat /\ t \in Tables(Nat, PriceSet, MaxLots)
    BY SyntheticAssumption DEF WellFormed
  <1>2. PICK level : level = b[SideOf(c)][i] /\ level.valid
    OBVIOUS
  <1>3. level.quantity \in 1 .. SharesAt(t, c, level.price)
    BY <1>1, <1>2, LevelBacked
  <1>4. SharesAt(t, c, level.price) # 0
    <2>1. PICK n \in Nat : n = SharesAt(t, c, level.price)
      BY <1>1, SharesAreNat
    <2>2. QED
      BY <1>3, <2>1
  <1>5. PICK x \in Slots : t[x].live /\ t[x].bid = c /\ t[x].price = level.price
    BY <1>1, <1>4, RestingHolds DEF RestingIn
  <1>6. t[x] \in OrdersIn(t)
    BY <1>5 DEF OrdersIn, Vacant
  <1>7. PICK k \in DOMAIN list : t[x] = OrderOf(list[k])
    BY <1>6 DEF OrdersOf
  <1>8. level.price = level_price(c, list[k].level) /\ list[k].level \in Level
    BY <1>5, <1>7, ItemOrder DEF OrderOf
  <1>9. QED
    BY <1>2, <1>8 DEF SidePrices

\* The book has as many levels as a side has prices, so an add at one of them
\* finds its level or a free one.
LEMMA NoDrop ==
  ASSUME NEW t, NEW b, WellFormed(t, b, Nat, PriceSet, MaxLots), Backed(t, b, PriceSet),
         NEW list \in Lists, OrdersOf(list) = OrdersIn(t), NEW c \in BOOLEAN,
         NEW p \in SidePrices(c), AtPrice(b[SideOf(c)], p) = {}
  PROVE  Unused(b[SideOf(c)]) # {}
  <1> SUFFICES ASSUME Unused(b[SideOf(c)]) = {} PROVE FALSE
    OBVIOUS
  <1>1. PICK side \in SideArrays(PriceSet) : side = b[SideOf(c)] /\ OnePrice(side)
    BY DEF WellFormed, Books, OnePriceBook, SideOf
  <1>2. \A i \in Rows : side[i].valid /\ side[i].price # p
    BY <1>1 DEF Unused, AtPrice
  <1>3. \A i \in Rows : \E l \in Level : side[i].price = level_price(c, l)
    <2> SUFFICES ASSUME NEW i \in Rows
                 PROVE  \E l \in Level : side[i].price = level_price(c, l)
      OBVIOUS
    <2>1. b[SideOf(c)][i].valid
      BY <1>1, <1>2
    <2>2. b[SideOf(c)][i].price \in SidePrices(c)
      BY <2>1, RowPrices
    <2>3. PICK v : v = b[SideOf(c)][i].price /\ v = side[i].price
      BY <1>1
    <2>4. v \in SidePrices(c)
      BY <2>2, <2>3
    <2>5. \E l \in Level : v = level_price(c, l)
      BY <2>4 DEF SidePrices
    <2>6. QED
      BY <2>3, <2>5
  <1> DEFINE f == [i \in Rows |-> CHOOSE l \in Level : side[i].price = level_price(c, l)]
  <1>4. \A i \in Rows : f[i] \in Level /\ side[i].price = level_price(c, f[i])
    BY <1>3
  <1>5. f \in [Rows -> Level]
    BY <1>4
  <1> HIDE DEF f
  <1>6. \A i, j \in Rows : f[i] = f[j] => i = j
    BY <1>1, <1>2, <1>4 DEF OnePrice
  <1>7. f \in Injection(Rows, Level)
    BY <1>5, <1>6 DEF Injection, IsInjective
  <1>8. IsFiniteSet(Level) /\ Cardinality(Level) = PriceLevels
    <2>1. PICK n \in Nat : n = PriceLevels - 1 /\ n + 1 = PriceLevels
      BY SyntheticAssumption
    <2>2. IsFiniteSet(0 .. n) /\ Cardinality(0 .. n) = n + 1
      BY <2>1, FS_Interval
    <2>3. QED
      BY <2>1, <2>2 DEF Level
  <1>9. IsFiniteSet(Rows) /\ Cardinality(Rows) = Levels
    BY FS_Interval, LevelsAssumption DEF Rows
  <1>10. /\ Cardinality(Rows) <= Cardinality(Level)
         /\ Cardinality(Rows) = Cardinality(Level) <=> f \in Surjection(Rows, Level)
    BY <1>7, <1>8, FS_Injection
  <1>11. f \in Surjection(Rows, Level)
    BY <1>8, <1>9, <1>10, SyntheticAssumption, LevelsAssumption
  <1>12. PICK l \in Level : p = level_price(c, l)
    BY DEF SidePrices
  <1>13. PICK i \in Rows : f[i] = l
    BY <1>11 DEF Surjection
  <1>14. QED
    BY <1>2, <1>4, <1>12, <1>13

\* A list shorter than the table leaves a slot free.
LEMMA SlotLeft ==
  ASSUME NEW t \in Tables(Nat, PriceSet, MaxLots), LiveOnce(t),
         NEW list \in Lists, OrdersOf(list) = OrdersIn(t), Len(list) < Capacity
  PROVE  Vacant(t) # {}
  <1> SUFFICES ASSUME Vacant(t) = {} PROVE FALSE
    OBVIOUS
  <1>1. list \in Seq(Items) /\ Len(list) \in Nat /\ DOMAIN list = 1 .. Len(list)
    BY DEF Lists
  <1>2. \A i \in Slots : t[i].live /\ \E k \in DOMAIN list : t[i] = OrderOf(list[k])
    BY DEF OrdersIn, OrdersOf, Vacant
  <1> DEFINE g == [i \in Slots |-> CHOOSE k \in DOMAIN list : t[i] = OrderOf(list[k])]
  <1>3. \A i \in Slots : g[i] \in DOMAIN list /\ t[i] = OrderOf(list[g[i]])
    BY <1>2
  <1>4. g \in [Slots -> DOMAIN list]
    BY <1>3
  <1> HIDE DEF g
  <1>5. \A i, j \in Slots : g[i] = g[j] => i = j
    BY <1>2, <1>3 DEF LiveOnce
  <1>6. g \in Injection(Slots, DOMAIN list)
    BY <1>4, <1>5 DEF Injection, IsInjective
  <1>7. IsFiniteSet(DOMAIN list) /\ Cardinality(DOMAIN list) = Len(list)
    BY <1>1, FS_Interval
  <1>8. Cardinality(Slots) <= Cardinality(DOMAIN list)
    BY <1>6, <1>7, FS_Injection
  <1>9. QED
    BY <1>1, <1>7, <1>8, SlotsFinite, CapacityAssumption

(***************************************************************************)
(* The list after an add, a partial reduction and a removal.               *)
(***************************************************************************)

\* A list has a length and its items are those up to it.
LEMMA ListShape ==
  ASSUME NEW list \in Lists
  PROVE  /\ list \in Seq(Items) /\ Len(list) \in Nat /\ DOMAIN list = 1 .. Len(list)
         /\ list \in [1 .. Len(list) -> Items]
  BY DEF Lists

\* The references of a list are below n.
Below(list, n) == \A k \in DOMAIN list : list[k].reference < n

\* new is list with the order o, whose reference is n.
Appended(new, list, n, o) ==
  /\ new \in Lists /\ DistinctRefs(new) /\ Below(new, n + 1) /\ Len(new) = Len(list) + 1
  /\ OrdersOf(new) = OrdersOf(list) \cup {OrderOf(o)}

Appends(new, list, o) == new = Append(list, o)

\* add_order appends an item with a reference of its own.
LEMMA AppendItem ==
  ASSUME NEW list \in Lists, DistinctRefs(list), NEW n \in Nat, Below(list, n),
         NEW o \in Items, o.remaining # 0, o.reference = n,
         NEW new, Appends(new, list, o)
  PROVE  Appended(new, list, n, o)
  <1>1. PICK z \in Nat : z = Len(list) /\ DOMAIN list = 1 .. z
    BY ListShape
  <1>2. /\ new \in Seq(Items) /\ Len(new) = z + 1 /\ DOMAIN new = 1 .. z + 1
        /\ \A k \in 1 .. z : new[k] = list[k]
        /\ new[z + 1] = o
    <2>1. list \in Seq(Items)
      BY ListShape
    <2>2. QED
      BY <1>1, <2>1, AppendProperties, LenProperties DEF Appends
  <1>3. \A k \in 1 .. z : list[k].remaining # 0 /\ list[k].reference \in Nat
    BY <1>1, ItemOrder DEF Lists
  <1>4. \A k \in 1 .. z + 1 : k \in 1 .. z \/ k = z + 1
    OBVIOUS
  <1>5. new \in Lists
    BY <1>2, <1>3, <1>4 DEF Lists
  <1>6. \A k \in 1 .. z : list[k].reference < n /\ list[k].reference # n
    BY <1>1, <1>3 DEF Below
  <1>7. DistinctRefs(new)
    BY <1>1, <1>2, <1>4, <1>6 DEF DistinctRefs
  <1>8. Below(new, n + 1)
    BY <1>1, <1>2, <1>3, <1>4, <1>6 DEF Below
  <1>9. OrdersOf(new) = OrdersOf(list) \cup {OrderOf(o)}
    <2>1. ASSUME NEW x \in OrdersOf(new) PROVE x \in OrdersOf(list) \cup {OrderOf(o)}
      BY <1>1, <1>2, <1>4, <2>1 DEF OrdersOf
    <2>2. ASSUME NEW x \in OrdersOf(list) \cup {OrderOf(o)} PROVE x \in OrdersOf(new)
      <3>1. CASE x = OrderOf(o)
        <4>1. z + 1 \in 1 .. z + 1
          OBVIOUS
        <4>2. QED
          BY <1>2, <3>1, <4>1 DEF OrdersOf
      <3>2. CASE x \in OrdersOf(list)
        <4>1. PICK k \in 1 .. z : x = OrderOf(list[k])
          BY <1>1, <3>2 DEF OrdersOf
        <4>2. k \in 1 .. z + 1
          BY <4>1
        <4>3. QED
          BY <1>2, <4>1, <4>2 DEF OrdersOf
      <3>3. QED
        BY <2>2, <3>1, <3>2
    <2>3. QED
      BY <2>1, <2>2
  <1>10. QED
    BY <1>1, <1>2, <1>5, <1>7, <1>8, <1>9 DEF Appended

\* Items with different references are different orders.
LEMMA DistinctOrders ==
  ASSUME NEW list \in Lists, DistinctRefs(list), NEW j \in DOMAIN list, NEW k \in DOMAIN list,
         OrderOf(list[j]) = OrderOf(list[k])
  PROVE  j = k
  <1>1. list[j].reference = list[k].reference
    <2>1. OrderOf(list[j]).reference = list[j].reference
          /\ OrderOf(list[k]).reference = list[k].reference
      BY DEF OrderOf
    <2>2. QED
      BY <2>1
  <1>2. QED
    BY <1>1 DEF DistinctRefs

\* new is list with d lots left of its k-th order; dropped and kept: what the
\* list is then, w being that order.
SetRemaining(new, list, k, d) == new = [list EXCEPT ![k].remaining = d]
Removes(new, list, k, d) == new = remove_live([list EXCEPT ![k].remaining = d], k)

Kept(new, list, n, w, d) ==
  /\ new \in Lists /\ DistinctRefs(new) /\ Below(new, n) /\ Len(new) = Len(list)
  /\ OrdersOf(new) = (OrdersOf(list) \ {w}) \cup {[w EXCEPT !.remaining = d]}
Dropped(new, list, n, w) ==
  /\ new \in Lists /\ DistinctRefs(new) /\ Below(new, n) /\ Len(new) = Len(list) - 1
  /\ OrdersOf(new) = OrdersOf(list) \ {w}

\* reduce_order that leaves some of the order.
LEMMA ReduceItem ==
  ASSUME NEW list \in Lists, DistinctRefs(list), NEW n \in Nat, Below(list, n),
         NEW k \in DOMAIN list, NEW o, o = list[k], NEW d \in 1 .. MaxLots,
         NEW new, SetRemaining(new, list, k, d)
  PROVE  Kept(new, list, n, OrderOf(o), d)
  <1>1. PICK z \in Nat : z = Len(list) /\ DOMAIN list = 1 .. z /\ list \in [1 .. z -> Items]
    BY ListShape
  <1>2. PICK e : e = [o EXCEPT !.remaining = d]
    OBVIOUS
  <1>3. o \in Items
    BY ItemOrder
  <1>4. e \in Items /\ e.remaining # 0 /\ e.reference = o.reference
    BY <1>2, <1>3, SyntheticAssumption DEF Items
  <1>5. new = [list EXCEPT ![k] = e]
    BY <1>2 DEF SetRemaining
  <1>6. new \in [1 .. z -> Items] /\ \A j \in 1 .. z : new[j] = IF j = k THEN e ELSE list[j]
    BY <1>1, <1>4, <1>5
  <1>7. new \in Seq(Items) /\ Len(new) = z /\ DOMAIN new = 1 .. z
    BY <1>1, <1>6
  <1>8. new \in Lists
    BY <1>1, <1>4, <1>6, <1>7, ItemOrder DEF Lists
  <1>9. \A j \in 1 .. z : new[j].reference = list[j].reference
    BY <1>4, <1>6
  <1>10. DistinctRefs(new) /\ Below(new, n)
    BY <1>1, <1>7, <1>9 DEF DistinctRefs, Below
  <1>11. OrderOf(e) = [OrderOf(o) EXCEPT !.remaining = d]
    <2>1. e = [reference |-> o.reference, remaining |-> d, level |-> o.level, bid |-> o.bid]
      BY <1>2, <1>3 DEF Items
    <2>2. /\ e.reference = o.reference /\ e.remaining = d
          /\ e.level = o.level /\ e.bid = o.bid
      BY <2>1
    <2>3. [OrderOf(o) EXCEPT !.remaining = d]
            = [reference |-> o.reference, bid |-> o.bid,
               price |-> level_price(o.bid, o.level), remaining |-> d, live |-> TRUE]
      <3>1. PICK w \in Orders(Nat, PriceSet, MaxLots) : w = OrderOf(o)
        BY ItemOrder
      <3>2. [w EXCEPT !.remaining = d]
              = [reference |-> w.reference, bid |-> w.bid, price |-> w.price,
                 remaining |-> d, live |-> w.live]
        BY <3>1 DEF Orders
      <3>3. QED
        BY <3>1, <3>2 DEF OrderOf
    <2>4. OrderOf(e) = [reference |-> o.reference, bid |-> o.bid,
                        price |-> level_price(o.bid, o.level), remaining |-> d, live |-> TRUE]
      BY <2>2 DEF OrderOf
    <2>5. QED
      BY <2>3, <2>4, Zenon
  <1>12. \A j \in 1 .. z : j # k => OrderOf(list[j]) # OrderOf(o)
    BY <1>1, DistinctOrders
  <1>13. OrdersOf(new) = (OrdersOf(list) \ {OrderOf(o)}) \cup {OrderOf(e)}
    <2>1. ASSUME NEW x \in OrdersOf(new) PROVE x \in (OrdersOf(list) \ {OrderOf(o)}) \cup {OrderOf(e)}
      <3>1. PICK j \in 1 .. z : x = OrderOf(new[j])
        BY <1>7, <2>1 DEF OrdersOf
      <3>2. QED
        BY <1>1, <1>6, <1>12, <3>1 DEF OrdersOf
    <2>2. ASSUME NEW x \in (OrdersOf(list) \ {OrderOf(o)}) \cup {OrderOf(e)} PROVE x \in OrdersOf(new)
      <3>1. CASE x = OrderOf(e)
        BY <1>1, <1>6, <1>7, <3>1 DEF OrdersOf
      <3>2. CASE x \in OrdersOf(list) /\ x # OrderOf(o)
        <4>1. PICK j \in 1 .. z : x = OrderOf(list[j])
          BY <1>1, <3>2 DEF OrdersOf
        <4>2. j # k
          BY <3>2, <4>1
        <4>3. QED
          BY <1>6, <1>7, <4>1, <4>2 DEF OrdersOf
      <3>3. QED
        BY <2>2, <3>1, <3>2
    <2>3. QED
      BY <2>1, <2>2
  <1>14. QED
    BY <1>1, <1>7, <1>8, <1>10, <1>11, <1>13 DEF Kept

\* reduce_order that uses the order up: remove_live moves the last item into
\* its place.
LEMMA RemoveItem ==
  ASSUME NEW list \in Lists, DistinctRefs(list), NEW n \in Nat, Below(list, n),
         NEW k \in DOMAIN list, NEW o, o = list[k], NEW d,
         NEW new, Removes(new, list, k, d)
  PROVE  Dropped(new, list, n, OrderOf(o))
  <1>1. PICK z \in Nat : z = Len(list) /\ DOMAIN list = 1 .. z /\ list \in [1 .. z -> Items]
    BY ListShape
  <1>2. PICK y \in Nat : z = y + 1 /\ z - 1 = y /\ k \in 1 .. z
    <2>1. k \in 1 .. z /\ z - 1 \in Nat
      BY <1>1
    <2>2. QED
      BY <2>1
  <1> DEFINE reduced == [list EXCEPT ![k].remaining = d]
             e == [list[k] EXCEPT !.remaining = d]
             moved == [reduced EXCEPT ![k] = reduced[Len(reduced)]]
             last == list[z]
  <1>3. reduced = [list EXCEPT ![k] = e]
    OBVIOUS
  <1> HIDE DEF e
  <1>4. DOMAIN reduced = 1 .. z /\ \A j \in 1 .. z : reduced[j] = IF j = k THEN e ELSE list[j]
    BY <1>1, <1>3
  <1>5. Len(reduced) = z
    <2>1. reduced = [j \in 1 .. z |-> IF j = k THEN e ELSE list[j]]
      BY <1>1, <1>3
    <2> HIDE DEF reduced
    <2>2. QED
      BY <1>1, <2>1
  <1>6. new = SubSeq(moved, 1, y)
    BY <1>2, <1>5 DEF remove_live, Removes
  <1> HIDE DEF reduced
  <1>7. DOMAIN moved = 1 .. z /\ \A j \in 1 .. y : moved[j] = IF j = k THEN last ELSE list[j]
    <2>1. moved = [j \in 1 .. z |-> IF j = k THEN reduced[z] ELSE reduced[j]]
      BY <1>4, <1>5
    <2> HIDE DEF moved
    <2>2. ASSUME NEW j \in 1 .. y PROVE moved[j] = IF j = k THEN last ELSE list[j]
      <3>1. j \in 1 .. z /\ z \in 1 .. z /\ j # z
        BY <1>2
      <3>2. QED
        BY <1>4, <2>1, <3>1
    <2>3. QED
      BY <2>1, <2>2
  <1> HIDE DEF moved
  <1>8. DOMAIN new = 1 .. y /\ \A j \in 1 .. y : new[j] = IF j = k THEN last ELSE list[j]
    <2>1. SubSeq(moved, 1, y) = [j \in 1 .. y |-> moved[j]]
      BY <1>2
    <2>2. QED
      BY <1>6, <1>7, <2>1
  <1>9. new = [j \in 1 .. y |-> new[j]]
    <2>1. SubSeq(moved, 1, y) = [j \in 1 .. y |-> moved[j]]
      BY <1>2
    <2>2. QED
      BY <1>6, <2>1
  <1>10. \A j \in 1 .. y : \E i \in 1 .. z : i = (IF j = k THEN z ELSE j) /\ new[j] = list[i] /\ i # k
    <2> SUFFICES ASSUME NEW j \in 1 .. y
                 PROVE  \E i \in 1 .. z : i = (IF j = k THEN z ELSE j) /\ new[j] = list[i] /\ i # k
      OBVIOUS
    <2>1. PICK i : i = IF j = k THEN z ELSE j
      OBVIOUS
    <2>2. i \in 1 .. z /\ i # k
      BY <1>2, <2>1
    <2>3. new[j] = list[i]
      BY <1>8, <2>1
    <2>4. QED
      BY <2>1, <2>2, <2>3
  <1>11. \A i \in 1 .. z : i # k => \E j \in 1 .. y : new[j] = list[i]
    <2> SUFFICES ASSUME NEW i \in 1 .. z, i # k
                 PROVE  \E j \in 1 .. y : new[j] = list[i]
      OBVIOUS
    <2>1. PICK j : j = IF i = z THEN k ELSE i
      OBVIOUS
    <2>2. j \in 1 .. y
      BY <1>2, <2>1
    <2>3. new[j] = list[i]
      BY <1>8, <2>1, <2>2
    <2>4. QED
      BY <2>2, <2>3
  <1>12. new \in Seq(Items) /\ Len(new) = y
    <2>1. \A j \in 1 .. y : new[j] \in Items
      BY <1>1, <1>10
    <2>2. new \in [1 .. y -> Items]
      BY <1>9, <2>1
    <2>3. new \in Seq(Items)
      BY <2>2, SeqDef
    <2>4. QED
      BY <1>2, <1>8, <2>3, LenProperties
  <1>13. new \in Lists
    <2>1. \A i \in 1 .. z : list[i].remaining # 0
      BY <1>1 DEF Lists
    <2>2. \A j \in DOMAIN new : new[j].remaining # 0
      BY <1>8, <1>10, <2>1
    <2>3. QED
      BY <1>12, <2>2 DEF Lists
  <1>14. DistinctRefs(new)
    <2> SUFFICES ASSUME NEW a \in 1 .. y, NEW b \in 1 .. y, new[a].reference = new[b].reference
                 PROVE  a = b
      BY <1>8 DEF DistinctRefs
    <2>1. PICK i \in 1 .. z : i = (IF a = k THEN z ELSE a) /\ new[a] = list[i] /\ i # k
      BY <1>10
    <2>2. PICK j \in 1 .. z : j = (IF b = k THEN z ELSE b) /\ new[b] = list[j] /\ j # k
      BY <1>10
    <2>3. i = j
      BY <1>1, <2>1, <2>2 DEF DistinctRefs
    <2>4. a # z /\ b # z
      BY <1>2
    <2>5. QED
      BY <2>1, <2>2, <2>3, <2>4
  <1>15. Below(new, n)
    BY <1>1, <1>8, <1>10 DEF Below
  <1>16. \A j \in 1 .. z : j # k => OrderOf(list[j]) # OrderOf(o)
    BY <1>1, DistinctOrders
  <1>17. OrdersOf(new) = OrdersOf(list) \ {OrderOf(o)}
    <2>1. ASSUME NEW x \in OrdersOf(new) PROVE x \in OrdersOf(list) /\ x # OrderOf(o)
      <3>1. PICK j \in 1 .. y : x = OrderOf(new[j])
        BY <1>8, <2>1 DEF OrdersOf
      <3>2. PICK i \in 1 .. z : new[j] = list[i] /\ i # k
        BY <1>10, <3>1
      <3>3. QED
        BY <1>1, <1>16, <3>1, <3>2 DEF OrdersOf
    <2>2. ASSUME NEW x \in OrdersOf(list), x # OrderOf(o) PROVE x \in OrdersOf(new)
      <3>1. PICK i \in 1 .. z : x = OrderOf(list[i])
        BY <1>1, <2>2 DEF OrdersOf
      <3>2. i # k
        BY <2>2, <3>1
      <3>3. PICK j \in 1 .. y : new[j] = list[i]
        BY <1>11, <3>1, <3>2
      <3>4. QED
        BY <1>8, <3>1, <3>3 DEF OrdersOf
    <2>3. QED
      BY <2>1, <2>2
  <1>18. QED
    BY <1>1, <1>2, <1>12, <1>13, <1>14, <1>15, <1>17 DEF Dropped


(***************************************************************************)
(* The quantities per level, and the whole bookkeeping.                    *)
(***************************************************************************)
Quantities == [{"bids", "asks"} -> [Level -> Nat]]

\* bid_qty_ and ask_qty_ hold the shares of the table's orders.
QtyAre(qty, t) ==
  /\ qty \in Quantities
  /\ \A c \in BOOLEAN, l \in Level : qty[SideOf(c)][l] = SharesAt(t, c, level_price(c, l))

\* The generator after g messages, and the book stage that applied them.
InStep(t, b, list, g, qty) ==
  /\ WellFormed(t, b, Nat, PriceSet, MaxLots) /\ Backed(t, b, PriceSet) /\ b.overflow = 0
  /\ list \in Lists /\ DistinctRefs(list) /\ OrdersOf(list) = OrdersIn(t)
  /\ g \in Nat /\ Below(list, 1000 + g) /\ Len(list) <= g /\ Len(list) <= ReduceAt
  /\ QtyAre(qty, t)

\* new is qty with n at the level l of the side c, and u holds as many shares
\* as t except at the price p of that side.
LevelSet(new, qty, c, l, n) ==
  /\ new \in Quantities
  /\ \A a \in BOOLEAN, m \in Level :
       new[SideOf(a)][m] = IF a = c /\ m = l THEN n ELSE qty[SideOf(a)][m]
SameElse(t, u, c, p) ==
  \A a \in BOOLEAN, v \in PriceSet :
    ~(a = c /\ v = p) => SharesAt(u, a, v) = SharesAt(t, a, v)

SetLevel(new, qty, c, l, n) == new = [qty EXCEPT ![SideOf(c)][l] = n]

\* The new quantity of one level of one side.
LEMMA QtyUpdate ==
  ASSUME NEW qty \in Quantities, NEW c \in BOOLEAN, NEW l \in Level, NEW n \in Nat,
         NEW new, SetLevel(new, qty, c, l, n)
  PROVE  LevelSet(new, qty, c, l, n)
  <1>1. PICK s \in {"bids", "asks"} : s = SideOf(c)
    BY DEF SideOf
  <1>2. PICK r : r = [qty[s] EXCEPT ![l] = n]
    OBVIOUS
  <1>3. qty[s] \in [Level -> Nat]
    BY DEF Quantities
  <1>4. r \in [Level -> Nat] /\ \A m \in Level : r[m] = IF m = l THEN n ELSE qty[s][m]
    BY <1>2, <1>3
  <1>5. new = [qty EXCEPT ![s] = r]
    BY <1>1, <1>2 DEF SetLevel
  <1>6. new \in Quantities /\ \A x \in {"bids", "asks"} : new[x] = IF x = s THEN r ELSE qty[x]
    BY <1>4, <1>5 DEF Quantities
  <1>7. ASSUME NEW a \in BOOLEAN, NEW m \in Level
        PROVE  new[SideOf(a)][m] = IF a = c /\ m = l THEN n ELSE qty[SideOf(a)][m]
    <2>1. SideOf(a) \in {"bids", "asks"} /\ (SideOf(a) = s <=> a = c)
      BY <1>1 DEF SideOf
    <2>2. CASE a = c
      BY <1>4, <1>6, <2>1, <2>2
    <2>3. CASE a # c
      BY <1>6, <2>1, <2>3
    <2>4. QED
      BY <2>2, <2>3
  <1>8. QED
    BY <1>6, <1>7 DEF LevelSet

\* A message that changes the shares at one price changes one level.
LEMMA QtyFollows ==
  ASSUME NEW t \in Tables(Nat, PriceSet, MaxLots), NEW u \in Tables(Nat, PriceSet, MaxLots),
         NEW qty, QtyAre(qty, t), NEW c \in BOOLEAN, NEW l \in Level, NEW n \in Nat,
         NEW p, p = level_price(c, l),
         SharesAt(u, c, p) = n,
         SameElse(t, u, c, p),
         NEW new, SetLevel(new, qty, c, l, n)
  PROVE  QtyAre(new, u)
  <1>1. qty \in Quantities
    BY DEF QtyAre
  <1>2. LevelSet(new, qty, c, l, n)
    BY <1>1, QtyUpdate
  <1>3. ASSUME NEW a \in BOOLEAN, NEW m \in Level
        PROVE  new[SideOf(a)][m] = SharesAt(u, a, level_price(a, m))
    <2>1. CASE a = c /\ m = l
      BY <1>2, <2>1 DEF LevelSet
    <2>2. CASE ~(a = c /\ m = l)
      <3>1. PICK v \in PriceSet : v = level_price(a, m)
        BY PriceSetFacts
      <3>2. ~(a = c /\ v = p)
        BY <2>2, <3>1, PriceFacts
      <3>3. new[SideOf(a)][m] = SharesAt(t, a, v)
        BY <1>2, <2>2, <3>1 DEF QtyAre, LevelSet
      <3>4. QED
        BY <3>1, <3>2, <3>3 DEF SameElse
    <2>3. QED
      BY <2>1, <2>2
  <1>4. QED
    BY <1>2, <1>3 DEF QtyAre, LevelSet

\* An add at one of the levels is not dropped.
LEMMA AddFits ==
  ASSUME NEW t, NEW b, WellFormed(t, b, Nat, PriceSet, MaxLots), Backed(t, b, PriceSet),
         NEW list \in Lists, OrdersOf(list) = OrdersIn(t), NEW c \in BOOLEAN,
         NEW p \in SidePrices(c), NEW n \in 1 .. MaxLots, NEW d, d = AddTo(b, c, p, n)
  PROVE  d.overflow = b.overflow
  <1>1. b \in Books(PriceSet) /\ OnePriceBook(b) /\ n \in Nat \ {0}
    BY SyntheticAssumption DEF WellFormed
  <1>2. p \in PriceSet
    BY Zenon DEF PriceSet
  <1>3. AtPrice(b[SideOf(c)], p) # {} \/ Unused(b[SideOf(c)]) # {}
    BY NoDrop
  <1>4. PICK s \in {"bids", "asks"} : s = SideOf(c)
    BY DEF SideOf
  <1>5. \A x : [b EXCEPT ![s] = x].overflow = b.overflow
    BY <1>1, <1>4 DEF Books
  <1>6. \E x : d = [b EXCEPT ![s] = x]
    <2>1. CASE AtPrice(b[s], p) # {}
      BY <1>4, <2>1, Zenon DEF AddTo
    <2>2. CASE AtPrice(b[s], p) = {} /\ Unused(b[s]) # {}
      BY <1>4, <2>2, Zenon DEF AddTo
    <2>3. QED
      BY <1>3, <1>4, <2>1, <2>2
  <1>7. QED
    BY <1>5, <1>6

\* add_order: the table takes the order, and everything stays in step.
LEMMA AddStep ==
  ASSUME NEW t, NEW b, NEW list, NEW g, NEW qty, InStep(t, b, list, g, qty),
         Len(list) < ReduceAt,
         NEW r, r = 1000 + g, NEW c \in BOOLEAN, NEW l \in Level, NEW n \in 1 .. MaxLots,
         NEW p, p = level_price(c, l),
         NEW u, u = Insert(t, r, c, p, n), NEW d, d = AddTo(b, c, p, n),
         NEW o, o = [reference |-> r, remaining |-> n, level |-> l, bid |-> c],
         NEW new, Appends(new, list, o),
         NEW q, SetLevel(q, qty, c, l, qty[SideOf(c)][l] + n)
  PROVE  InsertOk(t, r) /\ InStep(u, d, new, g + 1, q)
  <1>1. /\ WellFormed(t, b, Nat, PriceSet, MaxLots) /\ Backed(t, b, PriceSet)
        /\ b.overflow = 0 /\ list \in Lists /\ DistinctRefs(list)
        /\ OrdersOf(list) = OrdersIn(t) /\ g \in Nat /\ Below(list, r)
        /\ Len(list) <= g /\ QtyAre(qty, t)
    BY DEF InStep
  <1>2. t \in Tables(Nat, PriceSet, MaxLots) /\ LiveOnce(t) /\ b \in Books(PriceSet)
        /\ OnePriceBook(b)
    BY <1>1 DEF WellFormed
  <1>3. PICK z \in Nat : z = Len(list)
    BY <1>1, ListShape
  <1>4. MaxLots \in Nat /\ r \in Nat /\ n \in Nat \ {0} /\ z < Capacity /\ g + 1 \in Nat
        /\ r + 1 = 1000 + (g + 1)
    <2>1. ReduceAt \in Nat /\ MaxLots \in Nat /\ ReduceAt <= Capacity
      BY SyntheticAssumption
    <2>2. QED
      BY <1>1, <1>3, <2>1, CapacityAssumption
  <1>5. p \in PriceSet /\ p \in SidePrices(c)
    BY PriceSetFacts DEF SidePrices
  <1>6. InsertOk(t, r)
    <2>1. Vacant(t) # {}
      BY <1>1, <1>2, <1>3, <1>4, SlotLeft
    <2>2. SUFFICES ASSUME Known(t, r) PROVE FALSE
      BY <2>1 DEF InsertOk
    <2>3. Entry(t, r) \in OrdersOf(list) /\ Entry(t, r).reference = r
      BY <1>1, <1>2, <1>4, <2>2, KnownOrders
    <2>4. PICK k \in DOMAIN list : Entry(t, r) = OrderOf(list[k])
      BY <2>3 DEF OrdersOf
    <2>5. list[k].reference = r
      BY <2>3, <2>4 DEF OrderOf
    <2>6. list[k].reference < r
      BY <1>1 DEF Below
    <2>7. QED
      BY <1>4, <2>5, <2>6
  <1>7. o \in Items /\ o.remaining # 0 /\ o.reference = r
    <2>1. n \in 0 .. MaxLots /\ n # 0
      BY <1>4
    <2>2. QED
      BY <1>4, <2>1 DEF Items
  <1>8. Appended(new, list, r, o)
    BY <1>1, <1>4, <1>7, AppendItem
  <1>9. OrdersOf(new) = OrdersIn(u)
    <2>1. PICK e : e = [reference |-> r, price |-> p, remaining |-> n, bid |-> c, live |-> TRUE]
      OBVIOUS
    <2>2. OrdersIn(u) = OrdersIn(t) \cup {e}
      BY <1>2, <1>4, <1>6, <2>1, InsertOrders
    <2>3. e = OrderOf(o)
      BY <2>1 DEF OrderOf
    <2>4. OrdersOf(new) = OrdersIn(t) \cup {e}
      BY <1>1, <1>8, <2>3 DEF Appended
    <2>5. QED
      BY <2>2, <2>4
  <1>10. /\ u \in Tables(Nat, PriceSet, MaxLots)
         /\ \A a \in BOOLEAN, v \in PriceSet :
              SharesAt(u, a, v) = SharesAt(t, a, v) + (IF a = c /\ v = p THEN n ELSE 0)
    BY <1>2, <1>4, <1>5, <1>6, InsertShares
  <1>11. QtyAre(q, u)
    <2>1. PICK f \in Nat : f = SharesAt(t, c, p)
      BY <1>2, <1>4, SharesAreNat
    <2>2. PICK h \in Nat : h = f + n
      BY <1>4, <2>1
    <2>3. qty[SideOf(c)][l] = f
      BY <1>1, <2>1 DEF QtyAre
    <2>4. SetLevel(q, qty, c, l, h)
      BY <2>2, <2>3
    <2>5. SharesAt(u, c, p) = h
      BY <1>5, <1>10, <2>1, <2>2
    <2>6. SameElse(t, u, c, p)
      <3> SUFFICES ASSUME NEW a \in BOOLEAN, NEW v \in PriceSet, ~(a = c /\ v = p)
                   PROVE  SharesAt(u, a, v) = SharesAt(t, a, v)
        BY DEF SameElse
      <3>1. PICK w \in Nat : w = SharesAt(t, a, v)
        BY <1>2, <1>4, SharesAreNat
      <3>2. SharesAt(u, a, v) = w + 0
        BY <1>10, <3>1
      <3>3. QED
        BY <3>1, <3>2
    <2>7. QED
      BY <1>1, <1>2, <1>10, <2>4, <2>5, <2>6, QtyFollows
  <1>12. WellFormed(u, d, Nat, PriceSet, MaxLots) /\ Backed(u, d, PriceSet)
    BY <1>1, <1>4, <1>5, <1>6, AddKeeps
  <1>13. d.overflow = 0
    BY <1>1, <1>5, AddFits
  <1>14. Len(new) <= g + 1 /\ Len(new) <= ReduceAt
    BY <1>1, <1>3, <1>8, SyntheticAssumption DEF Appended
  <1>15. QED
    BY <1>4, <1>6, <1>8, <1>9, <1>11, <1>12, <1>13, <1>14 DEF InStep, Appended


(***************************************************************************)
(* A reduction.                                                            *)
(***************************************************************************)
\* new is list after n lots of its k-th order left.
Reduces(new, list, k, n) ==
  LET reduced == [list EXCEPT ![k].remaining = list[k].remaining - n] IN
  new = IF list[k].remaining = n THEN remove_live(reduced, k) ELSE reduced

Shrunk(new, list, m, w, n) ==
  /\ new \in Lists /\ DistinctRefs(new) /\ Below(new, m) /\ Len(new) <= Len(list)
  /\ OrdersOf(new) =
       IF w.remaining = n THEN OrdersOf(list) \ {w}
         ELSE (OrdersOf(list) \ {w}) \cup {[w EXCEPT !.remaining = w.remaining - n]}

\* reduce_order on the list: the order leaves it or stays with the rest.
LEMMA ReduceList ==
  ASSUME NEW list \in Lists, DistinctRefs(list), NEW m \in Nat, Below(list, m),
         NEW k \in DOMAIN list, NEW n \in 1 .. MaxLots, n <= list[k].remaining,
         NEW w, w = OrderOf(list[k]),
         NEW new, Reduces(new, list, k, n)
  PROVE  Shrunk(new, list, m, w, n)
  <1>1. PICK o : o = list[k]
    OBVIOUS
  <1>2. PICK f \in 1 .. MaxLots : f = o.remaining
    BY <1>1, ItemOrder
  <1>3. w.remaining = f
    BY <1>1, <1>2 DEF OrderOf
  <1>4. PICK z \in Nat : z = Len(list)
    BY ListShape
  <1>5. PICK d : d = f - n
    OBVIOUS
  <1>6. MaxLots \in Nat
    BY SyntheticAssumption
  <1>7. CASE f = n
    <2>1. Removes(new, list, k, d)
      BY <1>1, <1>2, <1>5, <1>7 DEF Reduces, Removes
    <2>2. Dropped(new, list, m, w)
      BY <1>1, <2>1, RemoveItem
    <2>3. Len(new) <= Len(list)
      BY <1>4, <2>2 DEF Dropped
    <2>4. QED
      BY <1>3, <1>7, <2>2, <2>3 DEF Shrunk, Dropped
  <1>8. CASE f # n
    <2>1. d \in 1 .. MaxLots
      BY <1>1, <1>2, <1>5, <1>6, <1>8
    <2>2. SetRemaining(new, list, k, d)
      BY <1>1, <1>2, <1>5, <1>8 DEF Reduces, SetRemaining
    <2>3. Kept(new, list, m, w, d)
      BY <1>1, <2>1, <2>2, ReduceItem
    <2>4. Len(new) <= Len(list)
      BY <1>4, <2>3 DEF Kept
    <2>5. d = w.remaining - n
      BY <1>3, <1>5
    <2>6. QED
      BY <1>3, <1>8, <2>3, <2>4, <2>5 DEF Shrunk, Kept
  <1>9. QED
    BY <1>7, <1>8

\* A larger bound is a bound.
LEMMA BelowMore ==
  ASSUME NEW list \in Lists, NEW m \in Nat, Below(list, m)
  PROVE  Below(list, m + 1)
  BY ItemOrder DEF Below

\* u has n fewer shares than t at one price of one side.
SharesLess(t, u, c, p, n) ==
  /\ n <= SharesAt(t, c, p)
  /\ \A a \in BOOLEAN, v \in PriceSet :
       SharesAt(u, a, v) = SharesAt(t, a, v) - (IF a = c /\ v = p THEN n ELSE 0)
OrdersLess(t, u, w, n) ==
  OrdersIn(u) =
    IF w.remaining = n THEN OrdersIn(t) \ {w}
      ELSE (OrdersIn(t) \ {w}) \cup {[w EXCEPT !.remaining = w.remaining - n]}

\* The book stage takes n of the order w off both structures.
LEMMA StageReduced ==
  ASSUME NEW t, NEW b, WellFormed(t, b, Nat, PriceSet, MaxLots), Backed(t, b, PriceSet),
         NEW r, Known(t, r), NEW n \in Nat, NEW w, w = Entry(t, r), n <= w.remaining,
         NEW u, u = Reduce(t, r, n),
         NEW d, d = ExecuteIn(b, w.bid, w.price, Applied(t, r, n))
  PROVE  /\ WellFormed(u, d, Nat, PriceSet, MaxLots) /\ Backed(u, d, PriceSet)
         /\ d.overflow = b.overflow /\ SharesLess(t, u, w.bid, w.price, n)
         /\ OrdersLess(t, u, w, n)
  <1>1. t \in Tables(Nat, PriceSet, MaxLots) /\ LiveOnce(t) /\ MaxLots \in Nat
    BY SyntheticAssumption DEF WellFormed
  <1>2. w \in Orders(Nat, PriceSet, MaxLots)
    BY <1>1, KnownOrders
  <1>3. PICK f \in 1 .. MaxLots : f = w.remaining
    BY <1>2 DEF Orders
  <1>4. Applied(t, r, n) = n
    <2>1. Applied(t, r, n) = IF n < f THEN n ELSE f
      BY <1>3 DEF Applied
    <2>2. QED
      BY <1>1, <1>3, <2>1
  <1>5. /\ WellFormed(u, d, Nat, PriceSet, MaxLots) /\ Backed(u, d, PriceSet)
        /\ d.overflow = b.overflow
    BY <1>1, ReduceKeeps
  <1>6. SharesLess(t, u, w.bid, w.price, n)
    BY <1>1, <1>4, ReduceShares DEF SharesLess
  <1>7. OrdersLess(t, u, w, n)
    <2>1. OrdersIn(u) =
            IF w.remaining <= n THEN OrdersIn(t) \ {w}
              ELSE (OrdersIn(t) \ {w}) \cup {[w EXCEPT !.remaining = w.remaining - n]}
      BY <1>1, ReduceOrders
    <2>2. w.remaining <= n <=> w.remaining = n
      BY <1>1, <1>3
    <2>3. QED
      BY <2>1, <2>2 DEF OrdersLess
  <1>8. QED
    BY <1>5, <1>6, <1>7

\* The table, the book, the list and the quantities after n lots of the k-th
\* order of the list left.
Takes(t, b, list, qty, k, n, u, d, new, q) ==
  LET r == list[k].reference
      o == Entry(t, r)
      c == list[k].bid
      l == list[k].level IN
  /\ u = Reduce(t, r, n) /\ d = ExecuteIn(b, o.bid, o.price, Applied(t, r, n))
  /\ Reduces(new, list, k, n) /\ SetLevel(q, qty, c, l, qty[SideOf(c)][l] - n)

\* reduce_order: the table knows the order, and everything stays in step.
LEMMA ReduceStep ==
  ASSUME NEW t, NEW b, NEW list, NEW g, NEW qty, InStep(t, b, list, g, qty),
         NEW k \in DOMAIN list, NEW n \in 1 .. MaxLots, n <= list[k].remaining,
         NEW u, NEW d, NEW new, NEW q, Takes(t, b, list, qty, k, n, u, d, new, q)
  PROVE  Known(t, list[k].reference) /\ InStep(u, d, new, g + 1, q)
  <1>a. PICK r, o, c, l : /\ r = list[k].reference /\ o = Entry(t, r)
                          /\ c = list[k].bid /\ l = list[k].level
    OBVIOUS
  <1>b. /\ u = Reduce(t, r, n) /\ d = ExecuteIn(b, o.bid, o.price, Applied(t, r, n))
        /\ Reduces(new, list, k, n) /\ SetLevel(q, qty, c, l, qty[SideOf(c)][l] - n)
    BY <1>a DEF Takes
  <1>1. /\ WellFormed(t, b, Nat, PriceSet, MaxLots) /\ Backed(t, b, PriceSet)
        /\ b.overflow = 0 /\ list \in Lists /\ DistinctRefs(list)
        /\ OrdersOf(list) = OrdersIn(t) /\ g \in Nat /\ Below(list, 1000 + g)
        /\ Len(list) <= g /\ Len(list) <= ReduceAt /\ QtyAre(qty, t)
    BY DEF InStep
  <1>2. t \in Tables(Nat, PriceSet, MaxLots) /\ LiveOnce(t)
    BY <1>1 DEF WellFormed
  <1>3. PICK w : w = OrderOf(list[k])
    OBVIOUS
  <1>4. /\ w \in OrdersIn(t) /\ w.reference = r /\ w.bid = c /\ w.price = level_price(c, l)
        /\ w.remaining = list[k].remaining /\ w \in Orders(Nat, PriceSet, MaxLots)
    <2>1. w \in OrdersOf(list)
      BY <1>3 DEF OrdersOf
    <2>2. QED
      BY <1>1, <1>a, <1>3, <2>1, ItemOrder DEF OrderOf
  <1>5. MaxLots \in Nat /\ n \in Nat /\ c \in BOOLEAN /\ l \in Level
        /\ list[k].remaining \in 1 .. MaxLots /\ g + 1 \in Nat /\ 1000 + g \in Nat
        /\ (1000 + g) + 1 = 1000 + (g + 1)
    BY <1>1, <1>a, ItemOrder, SyntheticAssumption
  <1>6. Known(t, r) /\ o = w
    BY <1>1, <1>a, <1>2, <1>4, <1>5, KnownOrders
  <1>7. /\ WellFormed(u, d, Nat, PriceSet, MaxLots) /\ Backed(u, d, PriceSet)
        /\ d.overflow = b.overflow /\ SharesLess(t, u, w.bid, w.price, n)
        /\ OrdersLess(t, u, w, n)
    <2>1. /\ w = Entry(t, r) /\ n <= w.remaining
          /\ d = ExecuteIn(b, w.bid, w.price, Applied(t, r, n))
      BY <1>a, <1>b, <1>4, <1>6
    <2>2. QED
      BY <1>b, <1>1, <1>5, <1>6, <2>1, StageReduced
  <1>8. u \in Tables(Nat, PriceSet, MaxLots)
    BY <1>7 DEF WellFormed
  <1>9. Shrunk(new, list, 1000 + g, w, n)
    BY <1>1, <1>b, <1>3, <1>5, ReduceList
  <1>10. OrdersOf(new) = OrdersIn(u)
    BY <1>1, <1>7, <1>9 DEF Shrunk, OrdersLess
  <1>11. /\ n <= SharesAt(t, w.bid, w.price)
         /\ \A a \in BOOLEAN, v \in PriceSet :
              SharesAt(u, a, v) = SharesAt(t, a, v)
                                    - (IF a = w.bid /\ v = w.price THEN n ELSE 0)
    BY <1>7 DEF SharesLess
  <1>12. PICK p \in PriceSet : p = w.price /\ p = level_price(c, l)
    <2>1. level_price(c, l) \in PriceSet
      BY <1>5, PriceSetFacts
    <2>2. QED
      BY <1>4, <2>1
  <1>13. QtyAre(q, u)
    <2>1. PICK x \in Nat : x = SharesAt(t, c, p)
      BY <1>2, <1>5, SharesAreNat
    <2>2. PICK h \in Nat : h = x - n
      <3>1. n <= x
        BY <1>4, <1>11, <1>12, <2>1
      <3>2. QED
        BY <1>5, <2>1, <3>1
    <2>3. qty[SideOf(c)][l] = x
      BY <1>1, <1>5, <1>12, <2>1 DEF QtyAre
    <2>4. SetLevel(q, qty, c, l, h)
      BY <1>b, <2>2, <2>3
    <2>5. SharesAt(u, c, p) = h
      BY <1>4, <1>5, <1>11, <1>12, <2>1, <2>2
    <2>6. SameElse(t, u, c, p)
      <3> SUFFICES ASSUME NEW a \in BOOLEAN, NEW v \in PriceSet, ~(a = c /\ v = p)
                   PROVE  SharesAt(u, a, v) = SharesAt(t, a, v)
        BY DEF SameElse
      <3>1. PICK y \in Nat : y = SharesAt(t, a, v)
        BY <1>2, <1>5, SharesAreNat
      <3>2. SharesAt(u, a, v) = y - 0
        BY <1>4, <1>11, <1>12, <3>1
      <3>3. QED
        BY <3>1, <3>2
    <2>7. QED
      BY <1>1, <1>2, <1>5, <1>8, <1>12, <2>4, <2>5, <2>6, QtyFollows
  <1>14. Below(new, 1000 + (g + 1))
    BY <1>5, <1>9, BelowMore DEF Shrunk
  <1>15. Len(new) <= g + 1 /\ Len(new) <= ReduceAt
    <2>1. PICK x \in Nat, y \in Nat : x = Len(list) /\ y = Len(new)
      BY <1>1, <1>9, ListShape DEF Shrunk
    <2>2. ReduceAt \in Nat /\ y <= x
      BY <1>9, <2>1, SyntheticAssumption DEF Shrunk
    <2>3. QED
      BY <1>1, <2>1, <2>2
  <1>16. new \in Lists /\ DistinctRefs(new) /\ d.overflow = 0
    BY <1>1, <1>7, <1>9 DEF Shrunk
  <1>17. QED
    BY <1>a, <1>5, <1>6, <1>7, <1>10, <1>13, <1>14, <1>15, <1>16 DEF InStep


(***************************************************************************)
(* The quotes.                                                             *)
(***************************************************************************)
\* The levels of the generator that hold shares.
At(qty, s) == {l \in Level : qty[s][l] > 0}

\* The occupied rows of a side of the book are the levels that hold shares.
RowsAre(side, qty, c) ==
  /\ \A i \in Occupied(side) : \E l \in At(qty, SideOf(c)) :
       /\ side[i].price = level_price(c, l) /\ side[i].quantity = qty[SideOf(c)][l]
  /\ \A l \in At(qty, SideOf(c)) : \E i \in Occupied(side) : side[i].price = level_price(c, l)

\* The book shows exactly the generator's levels.
LEMMA RowsAreLevels ==
  ASSUME NEW t, NEW b, NEW list, NEW g, NEW qty, InStep(t, b, list, g, qty), NEW c \in BOOLEAN
  PROVE  RowsAre(b[SideOf(c)], qty, c)
  <1>1. /\ WellFormed(t, b, Nat, PriceSet, MaxLots) /\ Backed(t, b, PriceSet)
        /\ b.overflow = 0 /\ list \in Lists /\ OrdersOf(list) = OrdersIn(t) /\ QtyAre(qty, t)
    BY DEF InStep
  <1>2. PICK side \in SideArrays(PriceSet) : side = b[SideOf(c)] /\ OnePrice(side)
    BY <1>1 DEF WellFormed, Books, OnePriceBook, SideOf
  <1>3. ASSUME NEW l \in Level
        PROVE  /\ ShownAt(side, level_price(c, l)) = qty[SideOf(c)][l]
               /\ qty[SideOf(c)][l] \in Nat
    <2>1. level_price(c, l) \in PriceSet
      BY PriceSetFacts
    <2>2. ShownAt(side, level_price(c, l)) = SharesAt(t, c, level_price(c, l))
      BY <1>1, <1>2, <2>1 DEF Backed
    <2>3. SharesAt(t, c, level_price(c, l)) \in Nat
      BY <1>1, SharesAreNat, SyntheticAssumption DEF WellFormed
    <2>4. QED
      BY <1>1, <2>2, <2>3 DEF QtyAre
  <1>4. ASSUME NEW i \in Occupied(side)
        PROVE  \E l \in At(qty, SideOf(c)) :
                 /\ side[i].price = level_price(c, l)
                 /\ side[i].quantity = qty[SideOf(c)][l]
    <2>1. i \in Rows /\ side[i].valid
      BY DEF Occupied, Unused
    <2>2. side[i].price \in SidePrices(c)
      BY <1>1, <1>2, <2>1, RowPrices
    <2>3. PICK l \in Level : side[i].price = level_price(c, l)
      BY <2>2 DEF SidePrices
    <2>4. side[i].quantity \in Nat \ {0}
      BY <2>1, RowCases
    <2>5. i \in AtPrice(side, level_price(c, l))
      BY <2>1, <2>3 DEF AtPrice
    <2>6. side[i].quantity = qty[SideOf(c)][l]
      BY <1>2, <1>3, <2>5, RowOfPrice
    <2>7. l \in At(qty, SideOf(c))
      BY <2>4, <2>6 DEF At
    <2>8. QED
      BY <2>3, <2>6, <2>7
  <1>5. ASSUME NEW l \in At(qty, SideOf(c))
        PROVE  \E i \in Occupied(side) : side[i].price = level_price(c, l)
    <2>1. l \in Level /\ qty[SideOf(c)][l] > 0
      BY DEF At
    <2>2. ShownAt(side, level_price(c, l)) # 0
      BY <1>3, <2>1
    <2>3. AtPrice(side, level_price(c, l)) # {}
      BY <2>2 DEF ShownAt
    <2>4. PICK i \in Rows : side[i].valid /\ side[i].price = level_price(c, l)
      BY <2>3 DEF AtPrice
    <2>5. QED
      BY <2>4 DEF Occupied, Unused
  <1>6. QED
    BY <1>2, <1>4, <1>5 DEF RowsAre

\* The best row of a side is the first level that holds shares.
BestIs(row, qty, c) ==
  LET at == At(qty, SideOf(c)) IN
  IF at = {} THEN ~row.valid
    ELSE /\ row.valid /\ row.price = level_price(c, Min(at))
         /\ row.quantity = qty[SideOf(c)][Min(at)]

\* Prices get worse with the level, so a row with no better one is the first.
LEMMA FirstLevel ==
  ASSUME NEW qty, NEW c \in BOOLEAN, NEW side, RowsAre(side, qty, c), NEW x \in Occupied(side),
         \A j \in Occupied(side) : IF c THEN side[j].price <= side[x].price
                                        ELSE side[j].price >= side[x].price
  PROVE  BestIs(side[x], qty, c)
  <1> DEFINE at == At(qty, SideOf(c))
  <1>1. PICK l \in at : /\ side[x].price = level_price(c, l)
                       /\ side[x].quantity = qty[SideOf(c)][l]
    BY DEF RowsAre
  <1>2. at \subseteq Level /\ at \subseteq Nat /\ at # {}
    BY <1>1 DEF At, Level
  <1>3. Min(at) \in at /\ \A y \in at : Min(at) <= y
    BY <1>2, MinOfNats
  <1>4. PICK n \in at : n = Min(at)
    BY <1>3
  <1>5. PICK j \in Occupied(side) : side[j].price = level_price(c, n)
    BY <1>4 DEF RowsAre
  <1>6. n \in Nat /\ l \in Nat /\ n <= l /\ n \in Level /\ l \in Level
    BY <1>1, <1>2, <1>3, <1>4
  <1>7. ~(n < l)
    <2> SUFFICES ASSUME n < l PROVE FALSE
      OBVIOUS
    <2>1. PICK v \in 1 .. IntMax - 1, w \in 1 .. IntMax - 1 :
            v = level_price(c, n) /\ w = level_price(c, l)
      BY <1>6, PriceFacts
    <2>2. IF c THEN v <= w ELSE v >= w
      BY <1>1, <1>5, <2>1
    <2>3. IF c THEN v > w ELSE v < w
      BY <1>6, <2>1, PriceFacts
    <2>4. QED
      BY <2>1, <2>2, <2>3, IntMaxAssumption
  <1>8. n = l
    BY <1>6, <1>7
  <1>9. side[x].valid
    BY DEF Occupied, Unused
  <1>10. QED
    BY <1>1, <1>2, <1>4, <1>8, <1>9 DEF BestIs

\* The generator's quote is the book's.
LEMMA SameQuote ==
  ASSUME NEW t, NEW b, NEW list, NEW g, NEW qty, InStep(t, b, list, g, qty)
  PROVE  update_quote(qty) = BestQuote(b)
  <1>1. b \in Books(PriceSet)
    BY DEF InStep, WellFormed
  <1>2. PriceSet \subseteq 0 .. IntMax
    BY PriceSetFacts
  <1>3. RowsAre(b.bids, qty, TRUE)
    <2>1. RowsAre(b[SideOf(TRUE)], qty, TRUE)
      BY RowsAreLevels
    <2>2. QED
      BY <2>1 DEF SideOf
  <1>4. RowsAre(b.asks, qty, FALSE)
    <2>1. RowsAre(b[SideOf(FALSE)], qty, FALSE)
      BY RowsAreLevels
    <2>2. QED
      BY <2>1 DEF SideOf
  <1>5. BestIs(best_bid(b), qty, TRUE)
    <2>1. CASE Occupied(b.bids) = {}
      <3>1. best_bid(b) = NoLevel /\ At(qty, SideOf(TRUE)) = {}
        BY <1>3, <2>1 DEF RowsAre, best_bid
      <3>2. QED
        BY <3>1 DEF BestIs, NoLevel
    <2>2. CASE Occupied(b.bids) # {}
      <3>1. PICK x \in Occupied(b.bids) :
              /\ best_bid(b) = b.bids[x]
              /\ \A j \in Occupied(b.bids) : b.bids[j].price <= b.bids[x].price
        BY <1>1, <1>2, <2>2, BestRows
      <3>2. QED
        BY <1>3, <3>1, FirstLevel
    <2>3. QED
      BY <2>1, <2>2
  <1>6. BestIs(best_ask(b), qty, FALSE)
    <2>1. CASE Occupied(b.asks) = {}
      <3>1. best_ask(b) = NoLevel /\ At(qty, SideOf(FALSE)) = {}
        BY <1>4, <2>1 DEF RowsAre, best_ask
      <3>2. QED
        BY <3>1 DEF BestIs, NoLevel
    <2>2. CASE Occupied(b.asks) # {}
      <3>1. PICK x \in Occupied(b.asks) :
              /\ best_ask(b) = b.asks[x]
              /\ \A j \in Occupied(b.asks) : b.asks[j].price >= b.asks[x].price
        BY <1>1, <1>2, <2>2, BestRows
      <3>2. QED
        BY <1>4, <3>1, FirstLevel
    <2>3. QED
      BY <2>1, <2>2
  <1>7. PICK x, y : x = best_bid(b) /\ y = best_ask(b)
    OBVIOUS
  <1>8. SideOf(TRUE) = "bids" /\ SideOf(FALSE) = "asks"
    BY DEF SideOf
  <1>9. BestIs(x, qty, TRUE) /\ BestIs(y, qty, FALSE)
    BY <1>5, <1>6, <1>7
  <1>10. PICK x1, x2, y1, y2 :
           /\ x1 = (IF x.valid THEN x.price ELSE 0)
           /\ x2 = (IF x.valid THEN x.quantity ELSE 0)
           /\ y1 = (IF y.valid THEN y.price ELSE IntMax)
           /\ y2 = (IF y.valid THEN y.quantity ELSE 0)
    OBVIOUS
  <1>11. BestQuote(b) = Quote(x1, x2, y1, y2)
    BY <1>7, <1>10, Zenon DEF BestQuote
  <1> DEFINE m == Min(At(qty, "bids"))
             n == Min(At(qty, "asks"))
  <1>12. /\ At(qty, "bids") = {} => ~x.valid
         /\ At(qty, "bids") # {} => x.valid /\ x.price = level_price(TRUE, m)
                                    /\ x.quantity = qty["bids"][m]
         /\ At(qty, "asks") = {} => ~y.valid
         /\ At(qty, "asks") # {} => y.valid /\ y.price = level_price(FALSE, n)
                                    /\ y.quantity = qty["asks"][n]
    BY <1>8, <1>9, Zenon DEF BestIs
  <1> HIDE DEF m, n
  <1>13. /\ x1 = (IF At(qty, "bids") = {} THEN 0 ELSE level_price(TRUE, m))
         /\ x2 = (IF At(qty, "bids") = {} THEN 0 ELSE qty["bids"][m])
         /\ y1 = (IF At(qty, "asks") = {} THEN IntMax ELSE level_price(FALSE, n))
         /\ y2 = (IF At(qty, "asks") = {} THEN 0 ELSE qty["asks"][n])
    BY <1>10, <1>12
  <1>14. update_quote(qty) = Quote(x1, x2, y1, y2)
    BY <1>13, Zenon DEF update_quote, At, m, n
  <1>15. QED
    BY <1>11, <1>14


(***************************************************************************)
(* The invariant and the theorems.                                         *)
(***************************************************************************)
\* The generator and the book stage in step, no failure, and the oracle's
\* quote that of the quantities.
SynInv ==
  /\ InStep(entries, book, live, generated, levelQty)
  /\ refused = FALSE
  /\ expected = update_quote(levelQty)

\* An empty list and an empty book are in step.
LEMMA SynInitially == SyntheticInit => SynInv
  <1> SUFFICES ASSUME SyntheticInit PROVE SynInv
    OBVIOUS
  <1>1. /\ live = <<>> /\ generated = 0 /\ refused = FALSE /\ expected = EmptyQuote
        /\ levelQty = [s \in {"bids", "asks"} |-> [l \in Level |-> 0]]
        /\ entries = [i \in Slots |-> NoEntry] /\ book = EmptyBook
    BY DEF SyntheticInit, TableInit, BookInit
  <1>2. MaxLots \in Nat /\ ReduceAt \in Nat
    BY SyntheticAssumption
  <1>3. /\ WellFormed(entries, book, Nat, PriceSet, MaxLots)
        /\ Backed(entries, book, PriceSet) /\ BestQuote(book) = EmptyQuote
    BY <1>1, <1>2, EmptyStage, Zenon
  <1>4. book.overflow = 0
    BY <1>1 DEF EmptyBook
  <1>5. live \in Lists /\ DOMAIN live = {} /\ Len(live) = 0
    BY <1>1 DEF Lists
  <1>6. DistinctRefs(live) /\ Below(live, 1000 + generated) /\ OrdersOf(live) = {}
    BY <1>5 DEF DistinctRefs, Below, OrdersOf
  <1>7. \A i \in Slots : ~entries[i].live
    BY <1>1 DEF NoEntry
  <1>8. OrdersIn(entries) = {}
    BY <1>7 DEF OrdersIn, Vacant
  <1>9. entries \in Tables(Nat, PriceSet, MaxLots)
    BY <1>3 DEF WellFormed
  <1>10. QtyAre(levelQty, entries)
    <2>1. levelQty \in Quantities
      BY <1>1 DEF Quantities
    <2>2. ASSUME NEW c \in BOOLEAN, NEW l \in Level
          PROVE  levelQty[SideOf(c)][l] = SharesAt(entries, c, level_price(c, l))
      <3>1. levelQty[SideOf(c)][l] = 0
        BY <1>1 DEF SideOf
      <3>2. RestingIn(entries, c, level_price(c, l)) = {}
        BY <1>7 DEF RestingIn
      <3>3. QED
        BY <1>2, <1>9, <3>1, <3>2, RestingHolds
    <2>3. QED
      BY <2>1, <2>2 DEF QtyAre
  <1>11. InStep(entries, book, live, generated, levelQty)
    <2>1. generated \in Nat /\ Len(live) <= generated /\ Len(live) <= ReduceAt
      BY <1>1, <1>2, <1>5
    <2>2. QED
      BY <1>3, <1>4, <1>5, <1>6, <1>8, <1>10, <2>1 DEF InStep
  <1>12. expected = update_quote(levelQty)
    BY <1>1, <1>3, <1>11, SameQuote
  <1>13. QED
    BY <1>1, <1>11, <1>12 DEF SynInv

\* An add finds room in the list's threshold.
LEMMA AddKeepsStep ==
  ASSUME SynInv, NEW pick, GenerateAdd(pick)
  PROVE  SynInv'
  <1>1. InStep(entries, book, live, generated, levelQty) /\ refused = FALSE
    BY DEF SynInv
  <1>2. PICK c \in Sides, l \in Level, n \in 1 .. MaxLots : add_order(c, l, n)
    BY DEF GenerateAdd
  <1>3. c \in BOOLEAN
    BY <1>2 DEF Sides
  <1>4. Len(live) < ReduceAt
    <2>1. PICK z \in Nat, k \in Nat : z = Len(live) /\ k = generated /\ z <= k
      BY <1>1, ListShape DEF InStep
    <2>2. z <= ReduceAt /\ SeedMessages \in Nat /\ ReduceAt \in Nat \ {0}
          /\ SeedMessages <= ReduceAt
      BY <1>1, <2>1, SyntheticAssumption DEF InStep
    <2>3. MustAdd \/ ~MustReduce
      BY DEF GenerateAdd, Adding
    <2>4. CASE MustAdd
      BY <2>1, <2>2, <2>4 DEF MustAdd
    <2>5. CASE ~MustReduce
      BY <2>1, <2>2, <2>5 DEF MustReduce
    <2>6. QED
      BY <2>3, <2>4, <2>5
  <1>a. PICK r, p : r = 1000 + generated /\ p = level_price(c, l)
    OBVIOUS
  <1>b. PICK o : o = [reference |-> r, remaining |-> n, level |-> l, bid |-> c]
    OBVIOUS
  <1>5. PICK e : e = [type |-> "A", reference |-> r, newReference |-> 0,
                      bid |-> c, price |-> p, shares |-> n]
    OBVIOUS
  <1>6. /\ Appends(live', live, o)
        /\ SetLevel(levelQty', levelQty, c, l, levelQty[SideOf(c)][l] + n)
        /\ apply_to_book(e) /\ refused' = (refused \/ ApplyFails(e))
        /\ generated' = generated + 1 /\ expected' = update_quote(levelQty')
    BY <1>2, <1>a, <1>b, <1>5 DEF add_order, Emit, Appends, SetLevel
  <1>7. /\ e.type = "A" /\ e.reference = r /\ e.bid = c /\ e.price = p /\ e.shares = n
    BY <1>5
  <1>8. entries' = Insert(entries, r, c, p, n) /\ book' = AddTo(book, c, p, n)
    <2>1. ApplyAdd(e)
      BY <1>6, <1>7 DEF apply_to_book, ApplyReduction, ApplyReplace, ApplyNothing,
                        Adds, Reductions
    <2>2. QED
      BY <1>7, <2>1 DEF ApplyAdd
  <1>9. /\ InsertOk(entries, r)
        /\ InStep(entries', book', live', generated + 1, levelQty')
    BY <1>1, <1>2, <1>3, <1>4, <1>a, <1>b, <1>6, <1>8, AddStep
  <1>10. ~ApplyFails(e)
    BY <1>7, <1>9 DEF ApplyFails, Adds, Reductions, Removals
  <1>11. QED
    BY <1>1, <1>6, <1>9, <1>10 DEF SynInv

\* A reduction finds its order.
LEMMA ReductionKeepsStep ==
  ASSUME SynInv, NEW pick, GenerateReduction(pick)
  PROVE  SynInv'
  <1>1. InStep(entries, book, live, generated, levelQty) /\ refused = FALSE
    BY DEF SynInv
  <1>2. PICK k \in DOMAIN live, full \in BOOLEAN, type \in {"E", "X"} :
          reduce_order(type, k, full)
    <2>1. PICK k \in DOMAIN live, full \in BOOLEAN :
            reduce_order(IF pick < 80 THEN "E" ELSE "X", k, full)
      BY DEF GenerateReduction
    <2>2. QED
      BY <2>1, Zenon
  <1>3. PICK c, l, r, f : /\ c = live[k].bid /\ l = live[k].level
                          /\ r = live[k].reference /\ f = live[k].remaining
    OBVIOUS
  <1>4. f \in 1 .. MaxLots /\ MaxLots \in Nat
    BY <1>1, <1>2, <1>3, ItemOrder, SyntheticAssumption DEF InStep
  <1>5. PICK n : n = IF full \/ f <= 1 THEN f ELSE 1
    OBVIOUS
  <1>6. n \in 1 .. MaxLots /\ n <= f
    BY <1>4, <1>5
  <1>7. PICK e : e = [type |-> type, reference |-> r, newReference |-> 0,
                      bid |-> FALSE, price |-> 0, shares |-> n]
    OBVIOUS
  <1>8. /\ Reduces(live', live, k, n)
        /\ SetLevel(levelQty', levelQty, c, l, levelQty[SideOf(c)][l] - n)
        /\ apply_to_book(e) /\ refused' = (refused \/ ApplyFails(e))
        /\ generated' = generated + 1 /\ expected' = update_quote(levelQty')
    BY <1>2, <1>3, <1>5, <1>7 DEF reduce_order, Emit, Reduces, SetLevel
  <1>9. e.type = type /\ e.reference = r /\ e.shares = n
    BY <1>7
  <1>10. PICK o, u, d : /\ o = Entry(entries, r) /\ u = Reduce(entries, r, n)
                        /\ d = ExecuteIn(book, o.bid, o.price, Applied(entries, r, n))
    OBVIOUS
  <1>11. InStep(u, d, live', generated + 1, levelQty') /\ Known(entries, r)
    <2>1. n <= live[k].remaining /\ n \in 1 .. MaxLots /\ k \in DOMAIN live
      BY <1>2, <1>3, <1>6
    <2>2. PICK new, q : new = live' /\ q = levelQty'
      OBVIOUS
    <2>3. Takes(entries, book, live, levelQty, k, n, u, d, new, q)
      BY <1>3, <1>8, <1>10, <2>2 DEF Takes
    <2>4. Known(entries, live[k].reference) /\ InStep(u, d, new, generated + 1, q)
      BY <1>1, <2>1, <2>3, ReduceStep
    <2>5. QED
      BY <1>3, <2>2, <2>4
  <1>12. entries' = u /\ book' = d
    <2>1. e.type \in Reductions /\ e.type \notin Adds /\ e.type \notin Removals
      BY <1>2, <1>9 DEF Reductions, Adds, Removals
    <2>2. ApplyReduction(e)
      BY <1>8, <1>9, <1>11, <2>1 DEF apply_to_book, ApplyAdd, ApplyReplace, ApplyNothing,
                                    Removals
    <2>3. Taken(e) = n
      BY <1>9, <2>1 DEF Taken
    <2>4. QED
      BY <1>9, <1>10, <2>2, <2>3 DEF ApplyReduction, ReducedTable, ReducedBook
  <1>13. ~ApplyFails(e)
    BY <1>2, <1>9, <1>11 DEF ApplyFails, Adds, Reductions, Removals
  <1>14. QED
    BY <1>1, <1>8, <1>11, <1>12, <1>13 DEF SynInv

\* Every message keeps the generator and the book stage in step.
LEMMA SynInvariant == SyntheticSpec => []SynInv
  <1>1. SyntheticInit => SynInv
    BY SynInitially
  <1>2. SynInv /\ [SyntheticNext]_syntheticVars => SynInv'
    <2> SUFFICES ASSUME SynInv, [SyntheticNext]_syntheticVars PROVE SynInv'
      OBVIOUS
    <2>1. CASE SyntheticNext
      <3>1. PICK pick \in {0, 45, 80} : GenerateAdd(pick) \/ GenerateReduction(pick)
        BY <2>1 DEF SyntheticNext
      <3>2. QED
        BY <3>1, AddKeepsStep, ReductionKeepsStep
    <2>2. CASE UNCHANGED syntheticVars
      BY <2>2 DEF syntheticVars, SynInv
    <2>3. QED
      BY <2>1, <2>2
  <1>3. QED
    BY <1>1, <1>2, PTL DEF SyntheticSpec

\* Whatever the random numbers are, each reduction the generator makes finds
\* its order in the table, each add finds room there, and no add is dropped by
\* the book: apply_to_book never calls fail on the demo's stream.
THEOREM SyntheticApplies == SyntheticSpec => []EveryMessageApplies
  <1>1. SynInv => EveryMessageApplies
    BY DEF SynInv, InStep, EveryMessageApplies
  <1>2. QED
    BY <1>1, SynInvariant, PTL

\* The list with its swap on removal and the order table hold the same orders
\* with the same shares left, and the list never outgrows live_.
THEOREM SyntheticListMatches == SyntheticSpec => []ListMatchesTable
  <1>1. ASSUME SynInv PROVE ListMatchesTable
    <2>1. live \in Lists /\ Len(live) <= ReduceAt /\ OrdersOf(live) = OrdersIn(entries)
      BY <1>1 DEF SynInv, InStep
    <2>2. LiveFits
      <3>1. PICK z \in Nat : z = Len(live)
        BY <2>1, ListShape
      <3>2. QED
        BY <2>1, <3>1, SyntheticAssumption DEF LiveFits
    <2>3. QED
      BY <2>1, <2>2, Zenon DEF ListMatchesTable, OrdersOf, OrderOf, OrdersIn
  <1>2. QED
    BY <1>1, SynInvariant, PTL

\* The oracle of the tests is right: the quote kept beside the generator's
\* level quantities is the best quote of the book the messages build.
THEOREM SyntheticOracle == SyntheticSpec => []OracleAgrees
  <1>1. SynInv => OracleAgrees
    BY SameQuote DEF SynInv, OracleAgrees
  <1>2. QED
    BY <1>1, SynInvariant, PTL
==============================================================================
