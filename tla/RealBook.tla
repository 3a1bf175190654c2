------------------------------ MODULE RealBook -------------------------------
(***************************************************************************)
(* RealBook of tools/itch_analysis.hpp: the full-depth book of one stock   *)
(* that the replay tool keeps beside the five-level model, with every      *)
(* resting order and every price level in a map of its own.                *)
(***************************************************************************)
EXTENDS Integers

VARIABLE real            \* orders_, bids_, asks_ and unknown_refs_

NoMap == [k \in {} |-> 0]
NoRealBook == [orders |-> NoMap, bids |-> NoMap, asks |-> NoMap, unknown |-> 0]

RealInit == real = NoRealBook

MapSide(bid) == IF bid THEN "bids" ELSE "asks"
Put(map, key, v) == [k \in DOMAIN map \cup {key} |-> IF k = key THEN v ELSE map[k]]
Erase(map, key) == [k \in DOMAIN map \ {key} |-> map[k]]
QuantityAt(map, price) == IF price \in DOMAIN map THEN map[price] ELSE 0

\* add: a level that is not there yet starts from zero.
RealAdd(b, r, bid, price, shares) ==
  LET s == MapSide(bid) IN
  [b EXCEPT !.orders = Put(b.orders, r, [bid |-> bid, price |-> price, shares |-> shares]),
            ![s] = Put(b[s], price, QuantityAt(b[s], price) + shares)]

\* Mutant: a level that is used up stays in the map.
RealTakeKeepsLevel(b, o, n) ==
  LET s == MapSide(o.bid) IN
  IF o.price \notin DOMAIN b[s] THEN b
    ELSE [b EXCEPT ![s][o.price] = @ - n]

\* take: shares leave a level, and a level with none left leaves the map.
RealTake(b, o, n) ==
  LET s == MapSide(o.bid) IN
  IF o.price \notin DOMAIN b[s] THEN b
    ELSE IF b[s][o.price] - n <= 0 THEN [b EXCEPT ![s] = Erase(@, o.price)]
    ELSE [b EXCEPT ![s][o.price] = @ - n]

Unknown(b) == [b EXCEPT !.unknown = @ + 1]

\* reduce: no more than the order has.
RealReduce(b, r, shares) ==
  IF r \notin DOMAIN b.orders THEN Unknown(b)
    ELSE LET o == b.orders[r]
             n == IF shares < o.shares THEN shares ELSE o.shares
             taken == RealTake(b, o, n) IN
         IF o.shares - n <= 0
           THEN [taken EXCEPT !.orders = Erase(b.orders, r)]
           ELSE [taken EXCEPT !.orders[r].shares = o.shares - n]

\* remove
RealRemove(b, r) ==
  IF r \notin DOMAIN b.orders THEN Unknown(b)
    ELSE LET taken == RealTake(b, b.orders[r], b.orders[r].shares) IN
         [taken EXCEPT !.orders = Erase(b.orders, r)]

\* apply: a replacement keeps the side of the order it replaces.
RealReplace(b, r, newReference, price, shares) ==
  IF r \notin DOMAIN b.orders THEN Unknown(b)
    ELSE RealAdd(RealRemove(b, r), newReference, b.orders[r].bid, price, shares)

RealApply(b, e) ==
  IF e.type \in {"A", "F"} THEN RealAdd(b, e.reference, e.bid, e.price, e.shares)
  ELSE IF e.type \in {"E", "C", "X"} THEN RealReduce(b, e.reference, e.shares)
  ELSE IF e.type = "D" THEN RealRemove(b, e.reference)
  ELSE IF e.type = "U"
    THEN RealReplace(b, e.reference, e.newReference, e.price, e.shares)
  ELSE b
==============================================================================
