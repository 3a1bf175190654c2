------------------------------ MODULE BookBench ------------------------------
(***************************************************************************)
(* The book stage driven by any sequence of events: adds and replaces with *)
(* live and fresh references, reductions of more shares than remain, of    *)
(* orders whose add the book dropped, and of orders nobody added.  As in   *)
(* the pipeline nothing is applied after a fault.                          *)
(***************************************************************************)
EXTENDS BookStage, TLC

CONSTANTS References, Prices, Shares,
          MaxOverflow    \* bound on the dropped adds a behaviour may count

ASSUME BenchAssumption ==
  /\ Prices \subseteq 1 .. IntMax - 1
  /\ Shares \subseteq 1 .. IntMax     \* ITCH orders have at least one share

\* References are only compared for equality, so they are interchangeable.
ReferenceSymmetry == Permutations(References)

VARIABLES fault,         \* error_, as apply_to_book sets it
          quote          \* the quote computed by the last event

stageVars == <<entries, book, fault, quote>>

Event(t, r, n, b, p, q) ==
  [type |-> t, reference |-> r, newReference |-> n, bid |-> b, price |-> p, shares |-> q]

Events ==
  {Event("A", r, 0, b, p, q) : r \in References, b \in BOOLEAN, p \in Prices, q \in Shares}
    \cup {Event("X", r, 0, FALSE, 0, q) : r \in References, q \in Shares}
    \cup {Event("D", r, 0, FALSE, 0, 0) : r \in References}
    \cup {Event("U", r, n, FALSE, p, q) :
            r \in References, n \in References, p \in Prices, q \in Shares}
    \cup {Event("?", 0, 0, FALSE, 0, 0)}

StageInit == TableInit /\ BookInit /\ fault = FALSE /\ quote = EmptyQuote

ApplyStep(e) ==
  /\ ~fault
  /\ apply_to_book(e)
  /\ book'.overflow <= MaxOverflow
  /\ fault' = ApplyFails(e)
  /\ quote' = BestQuote(book')

ResetStep ==
  /\ TableReset /\ BookReset
  /\ fault' = FALSE /\ quote' = EmptyQuote

StageNext == ResetStep \/ \E e \in Events : ApplyStep(e)

StageSpec == StageInit /\ [][StageNext]_stageVars

------------------------------------------------------------------------------
\* The resting orders on one side at one price, and the shares they hold.
Resting(bid, p) ==
  {i \in Slots : entries[i].live /\ entries[i].bid = bid /\ entries[i].price = p}
LiveShares(bid, p) == MapThenSumSet(LAMBDA i : entries[i].remaining, Resting(bid, p))

\* The shares the book shows on one side at one price.
ShownShares(bid, p) ==
  LET side == book[SideOf(bid)] IN
  MapThenSumSet(LAMBDA i : side[i].quantity, AtPrice(side, p))

\* Each reference is live at most once and each price has at most one level,
\* the two facts the linear searches of insert, reduce, add and execute rely
\* on when they stop at the first match.
NoDuplicates ==
  /\ \A i, j \in Slots : entries[i].live /\ entries[j].live /\ i # j
                           => entries[i].reference # entries[j].reference
  /\ \A s \in {"bids", "asks"} : \A i, j \in Rows :
       book[s][i].valid /\ book[s][j].valid /\ i # j
         => book[s][i].price # book[s][j].price

\* No level ever overflows int32 as long as a table full of the largest orders
\* would fit: the shares of orders gone from the table never pile up in a
\* level, however many orders come and go.
QuantitiesFit ==
  ~fault /\ Capacity * Max(Shares) <= IntMax =>
    \A s \in {"bids", "asks"} : \A i \in Rows : book[s][i].quantity \in 0 .. IntMax

\* No phantom liquidity: every level in the book shows at least one share and
\* no more than the resting orders at its price really hold, also after adds
\* have been dropped and those orders are executed, cancelled or replaced.
\* So no reference or price is ever doubled and no level overflows.
LevelsBacked ==
  /\ NoDuplicates /\ QuantitiesFit
  /\ ~fault => \A bid \in BOOLEAN : \A i \in Rows :
       LET level == book[SideOf(bid)][i] IN
       level.valid => level.quantity \in 1 .. LiveShares(bid, level.price)

\* As long as no add was dropped the book shows exactly the resting shares at
\* every price: the order table and the book, updated by separate calls,
\* never drift apart.
LevelsMatchOrders ==
  ~fault /\ book.overflow = 0 =>
    \A bid \in BOOLEAN, p \in Prices : ShownShares(bid, p) = LiveShares(bid, p)

\* The quote computed from the five unsorted levels is the best of all
\* resting orders: highest bid, lowest ask, with their total shares.
QuoteIsBest ==
  ~fault /\ book.overflow = 0 =>
    LET live(bid) == {p \in Prices : Resting(bid, p) # {}} IN
    /\ quote.bidPrice = (IF live(TRUE) = {} THEN 0 ELSE Max(live(TRUE)))
    /\ quote.askPrice = (IF live(FALSE) = {} THEN IntMax ELSE Min(live(FALSE)))
    /\ quote.bidQty = LiveShares(TRUE, quote.bidPrice)
    /\ quote.askQty = LiveShares(FALSE, quote.askPrice)
==============================================================================
