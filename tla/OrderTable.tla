----------------------------- MODULE OrderTable ------------------------------
(***************************************************************************)
(* BasicOrderTable<Capacity> of include/modules/order_table.hpp: a fixed   *)
(* array searched linearly, mapping the reference of a resting order to    *)
(* its side, price and remaining shares.                                   *)
(***************************************************************************)
EXTENDS FiniteSetsExt

CONSTANT Capacity

ASSUME CapacityAssumption == Capacity \in Nat \ {0}

VARIABLE entries         \* entries_

Slots == 1 .. Capacity

NoEntry == [reference |-> 0, price |-> 0, remaining |-> 0,
            bid |-> FALSE, live |-> FALSE]

TableInit == entries = [i \in Slots |-> NoEntry]

\* Slots that hold the live order r, and slots that are free.
Holding(t, r) == {i \in Slots : t[i].live /\ t[i].reference = r}
Vacant(t) == {i \in Slots : ~t[i].live}

Known(t, r) == Holding(t, r) # {}
Entry(t, r) == t[Min(Holding(t, r))]

\* Mutant: stops at the first free slot, before it has seen the whole table.
InsertOkEarly(t, r) ==
  /\ Vacant(t) # {}
  /\ \A i \in Holding(t, r) : Min(Vacant(t)) < i

\* insert: refused if the reference is live anywhere in the table, also
\* behind the first free slot, or if there is no free slot.
InsertOk(t, r) == ~Known(t, r) /\ Vacant(t) # {}

Insert(t, r, bid, price, shares) ==
  IF InsertOk(t, r)
    THEN [t EXCEPT ![Min(Vacant(t))] =
            [reference |-> r, price |-> price, remaining |-> shares,
             bid |-> bid, live |-> TRUE]]
    ELSE t

\* reduce: the shares really removed, clamped to what remained, and the table
\* after it; an order with nothing left is erased.
Applied(t, r, shares) ==
  IF shares < Entry(t, r).remaining THEN shares ELSE Entry(t, r).remaining

Reduce(t, r, shares) ==
  IF Known(t, r)
    THEN LET left == Entry(t, r).remaining - Applied(t, r, shares) IN
         [t EXCEPT ![Min(Holding(t, r))] =
            IF left <= 0 THEN NoEntry ELSE [@ EXCEPT !.remaining = left]]
    ELSE t

TableReset == entries' = [i \in Slots |-> NoEntry]
==============================================================================
