----------------------------- MODULE ReplayBooks -----------------------------
(***************************************************************************)
(* The replay tool's two books (tools/itch_replay.cpp): the messages of    *)
(* one stock go to the full-depth RealBook and, through the stream, to the *)
(* pipeline's order table and five-level book.  The pipeline applies them  *)
(* later but in the same order, so after each message the two can be       *)
(* compared.  An exchange never gives a live order's reference to another  *)
(* order; orders from before the slice are unknown to both books.  Once    *)
(* the pipeline has faulted it is frozen and there is nothing to compare.  *)
(***************************************************************************)
EXTENDS BookStage, RealBook, TLC

CONSTANTS References, Prices, Shares,
          MaxOverflow    \* bound on the dropped adds of a behaviour

ASSUME ReplayAssumption ==
  Prices \subseteq 1 .. IntMax - 1 /\ Shares \subseteq 1 .. IntMax

\* References are only compared for equality, so they are interchangeable.
ReferenceSymmetry == Permutations(References)

VARIABLE fault           \* error_ of the pipeline

replayVars == <<entries, book, real, fault>>

ReplayInit == TableInit /\ BookInit /\ RealInit /\ fault = FALSE

Live == DOMAIN real.orders

Event(t, r, n, b, p, q) ==
  [type |-> t, reference |-> r, newReference |-> n, bid |-> b, price |-> p, shares |-> q]

\* The messages book_type lets through that an exchange could send next.
Possible ==
  {Event("A", r, 0, b, p, q) :
      r \in References \ Live, b \in BOOLEAN, p \in Prices, q \in Shares}
    \cup {Event("X", r, 0, FALSE, 0, q) : r \in References, q \in Shares}
    \cup {Event("D", r, 0, FALSE, 0, 0) : r \in References}
    \cup {Event("U", r, n, FALSE, p, q) :
            r \in References, n \in References \ Live, p \in Prices, q \in Shares}

\* One turn of the loop of pass 2, and the same message in the book stage.
ReplayStep(e) ==
  /\ ~fault
  /\ real' = RealApply(real, e)
  /\ apply_to_book(e)
  /\ fault' = ApplyFails(e)
  /\ book'.overflow <= MaxOverflow

ReplayNext == \E e \in Possible : ReplayStep(e)

ReplaySpec == ReplayInit /\ [][ReplayNext]_replayVars

------------------------------------------------------------------------------
\* The level map of one side that the resting orders ask for.
Depth(bid) ==
  LET on == {r \in Live : real.orders[r].bid = bid}
      at(p) == {r \in on : real.orders[r].price = p} IN
  [p \in {real.orders[r].price : r \in on} |->
     MapThenSumSet(LAMBDA r : real.orders[r].shares, at(p))]

\* The reference book of the tool is itself right: each level of its two maps
\* holds exactly the shares of the orders resting there, and there is a level
\* only where an order rests, although orders_ and the level maps are
\* updated separately and reductions are clamped.
RealLevelsMatch == \A bid \in BOOLEAN : real[MapSide(bid)] = Depth(bid)

\* The levels the five-level book shows on one side.
Shown(bid) ==
  LET side == book[SideOf(bid)] IN
  [p \in {side[i].price : i \in Occupied(side)} |->
     side[Min(AtPrice(side, p))].quantity]

\* The full-depth book is right and, as long as the model has not stopped and
\* has dropped no add, the model's is the same, level by level, on both sides.
BooksAgree ==
  /\ RealLevelsMatch
  /\ ~fault /\ book.overflow = 0 => \A bid \in BOOLEAN : Shown(bid) = real[MapSide(bid)]

\* The report's two figures belong together: the model drops an add only on a
\* message after which the full-depth book has more levels on some side than
\* the model has (the over5 condition).
DropMeansDeeper ==
  [][book'.overflow > book.overflow =>
       \E s \in {"bids", "asks"} : Cardinality(DOMAIN real'[s]) > Levels]_replayVars
==============================================================================
