--------------------------- MODULE SequentialTrader --------------------------
(***************************************************************************)
(* What the tick-to-trade pipeline computes, without any timing: messages  *)
(* are taken one at a time, in the order of the stream, each is applied to *)
(* the set of resting orders, and one decision record is issued for it,    *)
(* with the best bid and ask after it and the order-flow imbalance against *)
(* the best bid and ask before it.  Nothing is issued for the first        *)
(* message that cannot be applied, or after it.                            *)
(***************************************************************************)
EXTENDS BookQuotes, Sequences, FiniteSetsExt

CONSTANTS Streams,       \* the message streams
          Capacity       \* resting orders there is room for

VARIABLES stream, log    \* log: the decision records issued so far

\* Resting orders are a function from their references; shares s leave r.
Without(orders, r) == [x \in DOMAIN orders \ {r} |-> orders[x]]
With(orders, r, bid, price, shares) ==
  [x \in DOMAIN orders \cup {r} |->
     IF x = r THEN [bid |-> bid, price |-> price, shares |-> shares] ELSE orders[x]]
Less(orders, r, shares) ==
  IF shares >= orders[r].shares THEN Without(orders, r)
                                ELSE [orders EXCEPT ![r].shares = @ - shares]

\* Byte lengths of the message types the parser knows.
Lengths == [A |-> 36, F |-> 40, E |-> 31, C |-> 36, X |-> 23, D |-> 19, U |-> 35]

Room(orders, r) == r \notin DOMAIN orders /\ Cardinality(DOMAIN orders) < Capacity

Applicable(orders, m) ==
  /\ m.type \in DOMAIN Lengths /\ m.length = Lengths[m.type]
  /\ m.type \in {"A", "F"} => Room(orders, m.reference)
  /\ m.type \notin {"A", "F"} => m.reference \in DOMAIN orders
  /\ m.type = "U" => Room(Without(orders, m.reference), m.newReference)

Apply(orders, m) ==
  CASE m.type \in {"A", "F"} -> With(orders, m.reference, m.bid, m.price, m.shares)
    [] m.type \in {"E", "C", "X"} -> Less(orders, m.reference, m.shares)
    [] m.type = "D" -> Without(orders, m.reference)
    [] m.type = "U" -> With(Without(orders, m.reference), m.newReference,
                            orders[m.reference].bid, m.price, m.shares)

\* The resting orders after the first i messages, and how many messages can
\* be applied before one cannot.
After[i \in 0 .. Len(stream)] ==
  IF i = 0 THEN <<>>
    ELSE IF Applicable(After[i - 1], stream[i]) THEN Apply(After[i - 1], stream[i])
                                                ELSE After[i - 1]
GoodPrefix ==
  Max({n \in 0 .. Len(stream) : \A i \in 1 .. n : Applicable(After[i - 1], stream[i])})

\* The prices at which one side has resting orders.
Prices(orders, bid) == {orders[r].price : r \in {x \in DOMAIN orders : orders[x].bid = bid}}

\* Best bid and ask of a set of resting orders.
QuoteOf(orders) ==
  LET at(bid, p) == {r \in DOMAIN orders : orders[r].bid = bid /\ orders[r].price = p}
      depth(bid, p) == MapThenSumSet(LAMBDA r : orders[r].shares, at(bid, p))
      bids == Prices(orders, TRUE)
      asks == Prices(orders, FALSE)
      bestBid == IF bids = {} THEN 0 ELSE Max(bids)
      bestAsk == IF asks = {} THEN IntMax ELSE Min(asks)
  IN  Quote(bestBid, depth(TRUE, bestBid), bestAsk, depth(FALSE, bestAsk))

\* The messages that can be applied never leave a side with orders at more
\* than n prices.
AtMostPrices(n) ==
  \A i \in 0 .. GoodPrefix : \A bid \in BOOLEAN : Cardinality(Prices(After[i], bid)) <= n

\* The imbalance message i causes and the record issued for it.
Imbalance(i) == saturate(ContOfi(QuoteOf(After[i + 1]), QuoteOf(After[i])))
Decision(i) ==
  LET q == QuoteOf(After[i + 1]) IN
  [tag |-> i, ofi |-> Imbalance(i), bidPrice |-> q.bidPrice, askPrice |-> q.askPrice]

TraderInit == stream \in Streams /\ log = <<>>

Issue ==
  /\ Len(log) < GoodPrefix
  /\ log' = Append(log, Decision(Len(log)))
  /\ UNCHANGED stream

TraderSpec == TraderInit /\ [][Issue]_<<stream, log>>
==============================================================================
