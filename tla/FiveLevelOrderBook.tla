-------------------------- MODULE FiveLevelOrderBook -------------------------
(***************************************************************************)
(* FiveLevelOrderBook of include/modules/order_book.hpp: per side a fixed  *)
(* array of price levels, unsorted, with holes.  An add at a new price is  *)
(* dropped and counted when every level of its side is occupied.           *)
(***************************************************************************)
EXTENDS FiniteSetsExt

CONSTANT Levels          \* levels per side; 5 in the code

ASSUME LevelsAssumption == Levels \in Nat \ {0}

VARIABLE book            \* bids_, asks_ and overflow_count_

Rows == 1 .. Levels

NoLevel == [price |-> 0, quantity |-> 0, valid |-> FALSE]
EmptySide == [i \in Rows |-> NoLevel]
EmptyBook == [bids |-> EmptySide, asks |-> EmptySide, overflow |-> 0]

BookInit == book = EmptyBook

SideOf(bid) == IF bid THEN "bids" ELSE "asks"

AtPrice(side, p) == {i \in Rows : side[i].valid /\ side[i].price = p}
Unused(side) == {i \in Rows : ~side[i].valid}

\* add: the book after it.
AddTo(b, bid, p, q) ==
  LET s == SideOf(bid) IN
  IF AtPrice(b[s], p) # {}
    THEN [b EXCEPT ![s][Min(AtPrice(b[s], p))].quantity = @ + q]
  ELSE IF Unused(b[s]) # {}
    THEN [b EXCEPT ![s][Min(Unused(b[s]))] =
            [price |-> p, quantity |-> q, valid |-> TRUE]]
  ELSE [b EXCEPT !.overflow = @ + 1]

\* Mutant: a level whose quantity reaches zero stays in the book.
ExecuteKeepsEmpty(b, bid, p, q) ==
  LET s == SideOf(bid) IN
  IF AtPrice(b[s], p) = {} THEN b
    ELSE [b EXCEPT ![s][Min(AtPrice(b[s], p))] =
            IF @.quantity - q < 0 THEN NoLevel
                                  ELSE [@ EXCEPT !.quantity = @ - q]]

\* Mutant: takes the whole level when one of its orders leaves.
ExecuteWholeLevel(b, bid, p, q) ==
  LET s == SideOf(bid) IN
  IF AtPrice(b[s], p) = {} THEN b
    ELSE [b EXCEPT ![s][Min(AtPrice(b[s], p))] = NoLevel]

\* execute: takes shares off a level and clears it when none are left.
ExecuteIn(b, bid, p, q) ==
  LET s == SideOf(bid)
      row == Min(AtPrice(b[s], p))
      left == b[s][row].quantity - q IN
  IF AtPrice(b[s], p) = {} THEN b
    ELSE [b EXCEPT ![s][row] =
            IF left <= 0 THEN NoLevel ELSE [@ EXCEPT !.quantity = left]]

\* best_bid and best_ask: an invalid level when the side is empty.
Occupied(side) == Rows \ Unused(side)
\* Mutant: takes the first occupied level, as if the levels were sorted.
BestBidFirstRow(b) ==
  IF Occupied(b.bids) = {} THEN NoLevel ELSE b.bids[Min(Occupied(b.bids))]

best_bid(b) ==
  IF Occupied(b.bids) = {} THEN NoLevel
    ELSE b.bids[Min({i \in Occupied(b.bids) :
                  \A j \in Occupied(b.bids) : b.bids[j].price <= b.bids[i].price})]
best_ask(b) ==
  IF Occupied(b.asks) = {} THEN NoLevel
    ELSE b.asks[Min({i \in Occupied(b.asks) :
                  \A j \in Occupied(b.asks) : b.asks[j].price >= b.asks[i].price})]

BookReset == book' = EmptyBook
==============================================================================
