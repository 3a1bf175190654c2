------------------------------ MODULE BookStage ------------------------------
(***************************************************************************)
(* apply_to_book of include/pipeline/tick_to_trade.hpp: one parsed event   *)
(* applied to the order table and to the book, and the best quote after    *)
(* it.  The two structures are updated by separate calls that do not know  *)
(* of each other; a call that fails does not undo the ones before it.      *)
(***************************************************************************)
EXTENDS OrderTable, FiveLevelOrderBook, BookQuotes

Adds == {"A", "F"}
Reductions == {"E", "C", "X"}
Removals == {"D", "U"}

\* The shares a reducing event takes: delete and replace take INT32_MAX.
Taken(e) == IF e.type \in Removals THEN IntMax ELSE e.shares

\* The table and the book after the order e.reference has been reduced.
ReducedTable(e) == Reduce(entries, e.reference, Taken(e))

\* Mutant: a replaced order leaves the table but not the book.
ReducedBookKeepsReplaced(e) ==
  LET o == Entry(entries, e.reference) IN
  IF e.type = "U" THEN book
    ELSE ExecuteIn(book, o.bid, o.price, Applied(entries, e.reference, Taken(e)))

ReducedBook(e) ==
  LET o == Entry(entries, e.reference) IN
  ExecuteIn(book, o.bid, o.price, Applied(entries, e.reference, Taken(e)))

\* Mutant: cancelling more than remains is an error instead of being clamped.
OvercancelFails(e) ==
  \/ e.type \notin Adds \cup Reductions \cup Removals
  \/ e.type \in Adds /\ ~InsertOk(entries, e.reference)
  \/ e.type \in Reductions \cup Removals /\ ~Known(entries, e.reference)
  \/ e.type \in Reductions /\ e.shares > Entry(entries, e.reference).remaining
  \/ e.type = "U" /\ ~InsertOk(ReducedTable(e), e.newReference)

\* Does applying e call fail()?
ApplyFails(e) ==
  \/ e.type \notin Adds \cup Reductions \cup Removals
  \/ e.type \in Adds /\ ~InsertOk(entries, e.reference)
  \/ e.type \in Reductions \cup Removals /\ ~Known(entries, e.reference)
  \/ e.type = "U" /\ ~InsertOk(ReducedTable(e), e.newReference)

\* An add reaches the book whether or not the table took the order.
ApplyAdd(e) ==
  /\ e.type \in Adds
  /\ entries' = Insert(entries, e.reference, e.bid, e.price, e.shares)
  /\ book' = AddTo(book, e.bid, e.price, e.shares)

ApplyReduction(e) ==
  /\ e.type \in Reductions \cup {"D"}
  /\ Known(entries, e.reference)
  /\ entries' = ReducedTable(e)
  /\ book' = ReducedBook(e)

\* Mutant: the replacement takes the side field of the event, which a replace
\* message does not carry.
ApplyReplaceEventSide(e) ==
  /\ e.type = "U"
  /\ Known(entries, e.reference)
  /\ entries' = Insert(ReducedTable(e), e.newReference, e.bid, e.price, e.shares)
  /\ book' = AddTo(ReducedBook(e), e.bid, e.price, e.shares)

\* The replacement keeps the side of the order it replaces.
ApplyReplace(e) ==
  LET bid == Entry(entries, e.reference).bid IN
  /\ e.type = "U"
  /\ Known(entries, e.reference)
  /\ entries' = Insert(ReducedTable(e), e.newReference, bid, e.price, e.shares)
  /\ book' = AddTo(ReducedBook(e), bid, e.price, e.shares)

\* An unknown reference or an unknown type changes nothing.
ApplyNothing(e) ==
  /\ e.type \notin Adds
  /\ e.type \in Reductions \cup Removals => ~Known(entries, e.reference)
  /\ UNCHANGED <<entries, book>>

apply_to_book(e) ==
  ApplyAdd(e) \/ ApplyReduction(e) \/ ApplyReplace(e) \/ ApplyNothing(e)

BestQuote(b) ==
  LET bb == best_bid(b)
      ba == best_ask(b) IN
  Quote(IF bb.valid THEN bb.price ELSE 0,      IF bb.valid THEN bb.quantity ELSE 0,
        IF ba.valid THEN ba.price ELSE IntMax, IF ba.valid THEN ba.quantity ELSE 0)
==============================================================================
