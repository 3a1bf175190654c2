----------------------------- MODULE BookQuotes ------------------------------
(***************************************************************************)
(* BookQuote of include/modules/ofi_dsp.hpp, the value that travels from   *)
(* the order book through the quote RAM to the OFI unit, and the imbalance *)
(* between two quotes as the header of that file defines it.               *)
(***************************************************************************)
EXTENDS Integers

CONSTANT IntMax          \* std::numeric_limits<std::int32_t>::max()

ASSUME IntMaxAssumption == IntMax \in Nat

IntMin == -IntMax - 1

Quote(bp, bq, ap, aq) ==
  [bidPrice |-> bp, bidQty |-> bq, askPrice |-> ap, askQty |-> aq]

\* The quote of an empty book: empty_ask_price is INT32_MAX.
EmptyQuote == Quote(0, 0, IntMax, 0)

saturate(v) == IF v > IntMax THEN IntMax ELSE IF v < IntMin THEN IntMin ELSE v

\* e_n = [Pb>=Pb'] qb - [Pb<=Pb'] qb' - [Pa<=Pa'] qa + [Pa>=Pa'] qa'
\* for a quote q that follows a quote p (Cont, Kukanov and Stoikov).
If(condition, qty) == IF condition THEN qty ELSE 0

ContOfi(q, p) ==
  If(q.bidPrice >= p.bidPrice, q.bidQty) - If(q.bidPrice <= p.bidPrice, p.bidQty)
    - If(q.askPrice <= p.askPrice, q.askQty) + If(q.askPrice >= p.askPrice, p.askQty)
==============================================================================
