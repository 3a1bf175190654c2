--------------------------- MODULE SyntheticStream ---------------------------
(***************************************************************************)
(* SyntheticItchStream of include/pipeline/synthetic_itch.hpp, composed    *)
(* with the book stage that later applies its messages.  Each step         *)
(* generates one message and applies it; the pipeline applies messages in  *)
(* the order of the stream, so the book is the one it has after that       *)
(* message.                                                                *)
(*                                                                         *)
(* The pseudo-random number generator may return anything.  Shares are     *)
(* counted in lots of 100 and prices in ticks of 100, as all of the        *)
(* generator's are multiples of those.  Arrival times are left out: the    *)
(* pipeline takes any schedule.                                            *)
(***************************************************************************)
EXTENDS BookStage, Sequences

CONSTANTS MessageCount,  \* message_count; 256 in the code
          SeedMessages,  \* the first messages, which are adds; 4
          ReduceAt,      \* live orders at which only reductions are made; 100
          LiveSize,      \* slots of live_; 128
          PriceLevels,   \* price_levels: prices per side; 5
          MaxLots,       \* lots of the largest order; 5
          BaseBid, BaseAsk

ASSUME SyntheticAssumption ==
  /\ {MessageCount, SeedMessages, LiveSize, BaseBid, BaseAsk} \subseteq Nat
  /\ {ReduceAt, PriceLevels, MaxLots} \subseteq Nat \ {0}
  /\ SeedMessages <= ReduceAt /\ ReduceAt <= LiveSize /\ ReduceAt <= Capacity
  /\ PriceLevels <= Levels
  /\ PriceLevels <= BaseBid /\ BaseBid < BaseAsk /\ BaseAsk + PriceLevels <= IntMax

VARIABLES live,          \* live_[0 .. live_count_ - 1]
          levelQty,      \* bid_qty_ and ask_qty_
          expected,      \* quotes_: the generator's own best bid and ask
          generated,     \* messages generated so far
          counts,        \* adds_, executes_ and cancels_
          refused        \* the book stage could not apply a message

syntheticVars == <<live, levelQty, expected, generated, counts, refused, entries, book>>

Level == 0 .. PriceLevels - 1
level_price(bid, l) == IF bid THEN BaseBid - l ELSE BaseAsk + l

SyntheticInit ==
  /\ live = <<>> /\ generated = 0 /\ refused = FALSE
  /\ levelQty = [s \in {"bids", "asks"} |-> [l \in Level |-> 0]]
  /\ expected = EmptyQuote
  /\ counts = [A |-> 0, E |-> 0, X |-> 0]
  /\ TableInit /\ BookInit

\* Mutant: the last order leaves the list, whichever was used up.
RemoveLastLive(list, k) == SubSeq(list, 1, Len(list) - 1)

\* remove_live: the last order takes the place of the k-th.
remove_live(list, k) ==
  SubSeq([list EXCEPT ![k] = list[Len(list)]], 1, Len(list) - 1)

\* Mutant: the quantity of the best ask is that of the best bid's level.
UpdateQuoteMixed(qty) ==
  LET at(s) == {l \in Level : qty[s][l] > 0}
      b == Min(at("bids"))
      a == Min(at("asks")) IN
  Quote(IF at("bids") = {} THEN 0 ELSE level_price(TRUE, b),
        IF at("bids") = {} THEN 0 ELSE qty["bids"][b],
        IF at("asks") = {} THEN IntMax ELSE level_price(FALSE, a),
        IF at("asks") = {} \/ at("bids") = {} THEN 0 ELSE qty["asks"][b])

\* update_quote: level 0 is the best price of its side.
update_quote(qty) ==
  LET at(s) == {l \in Level : qty[s][l] > 0}
      b == Min(at("bids"))
      a == Min(at("asks")) IN
  Quote(IF at("bids") = {} THEN 0 ELSE level_price(TRUE, b),
        IF at("bids") = {} THEN 0 ELSE qty["bids"][b],
        IF at("asks") = {} THEN IntMax ELSE level_price(FALSE, a),
        IF at("asks") = {} THEN 0 ELSE qty["asks"][a])

\* The message as the parser decodes it, applied by the book stage.
Emit(type, reference, bid, price, shares) ==
  LET e == [type |-> type, reference |-> reference, newReference |-> 0,
            bid |-> bid, price |-> price, shares |-> shares] IN
  /\ apply_to_book(e)
  /\ refused' = (refused \/ ApplyFails(e))
  /\ counts' = [counts EXCEPT ![type] = @ + 1]
  /\ generated' = generated + 1
  /\ expected' = update_quote(levelQty')

add_order(bid, level, lots) ==
  /\ live' = Append(live, [reference |-> 1000 + generated, remaining |-> lots,
                           level |-> level, bid |-> bid])
  /\ levelQty' = [levelQty EXCEPT ![SideOf(bid)][level] = @ + lots]
  /\ Emit("A", 1000 + generated, bid, level_price(bid, level), lots)

reduce_order(type, k, full) ==
  LET o == live[k]
      lots == IF full \/ o.remaining <= 1 THEN o.remaining ELSE 1
      reduced == [live EXCEPT ![k].remaining = @ - lots] IN
  /\ levelQty' = [levelQty EXCEPT ![SideOf(o.bid)][o.level] = @ - lots]
  /\ live' = IF o.remaining = lots THEN remove_live(reduced, k) ELSE reduced
  /\ Emit(type, o.reference, FALSE, 0, lots)

------------------------------------------------------------------------------
(***************************************************************************)
(* generate: pick decides between add (below 45), execute (below 80) and   *)
(* cancel, unless only adds or only reductions are possible.               *)
(***************************************************************************)
MustAdd == generated < SeedMessages \/ Len(live) = 0

\* Mutant: reductions are forced one order too late.
MustReduceLate == Len(live) > ReduceAt

MustReduce == Len(live) >= ReduceAt

Adding(pick) == MustAdd \/ (~MustReduce /\ pick < 45)

\* The sides of the first messages alternate.
Sides == IF generated < SeedMessages THEN {generated % 2 = 0} ELSE BOOLEAN

GenerateAdd(pick) ==
  /\ generated < MessageCount /\ Adding(pick)
  /\ \E bid \in Sides, level \in Level, lots \in 1 .. MaxLots :
       add_order(bid, level, lots)

GenerateReduction(pick) ==
  /\ generated < MessageCount /\ ~Adding(pick)
  /\ \E k \in DOMAIN live, full \in BOOLEAN :
       reduce_order(IF pick < 80 THEN "E" ELSE "X", k, full)

SyntheticNext ==
  \E pick \in {0, 45, 80} : GenerateAdd(pick) \/ GenerateReduction(pick)

SyntheticSpec == SyntheticInit /\ [][SyntheticNext]_syntheticVars

------------------------------------------------------------------------------
\* Whatever the random numbers are, the pipeline can apply every message of
\* the stream: each reduction finds its order in the table and each add finds
\* room (apply_to_book never calls fail), and no side of the book ever needs
\* more levels than it has (the demo fails if an add is dropped).
EveryMessageApplies == ~refused /\ book.overflow = 0

\* The list of live orders never outgrows its array: only the threshold on
\* live_count_ in generate protects live_, which is written unchecked.
LiveFits == Len(live) <= LiveSize

\* The generator's list, with its swap on removal, and the pipeline's order
\* table always hold the same orders with the same remaining shares, and the
\* list stays inside its array.
ListMatchesTable ==
  /\ LiveFits
  /\ {[reference |-> live[k].reference, bid |-> live[k].bid,
       price |-> level_price(live[k].bid, live[k].level),
       remaining |-> live[k].remaining, live |-> TRUE] : k \in DOMAIN live}
       = {entries[i] : i \in Slots \ Vacant(entries)}

\* The oracle of the tests is right: the best bid and ask of the generator's
\* own bookkeeping are those of the book the messages build.
OracleAgrees == expected = BestQuote(book)
==============================================================================
