# A TLA+ model of fpga-sim-core

fpga-sim-core simulates, cycle by cycle, an FPGA that reads NASDAQ ITCH 5.0
messages from the wire and writes a trading decision to host memory: the
tick-to-trade path.  It is a single-threaded C++ program, but what it simulates
is concurrent: several messages are in flight at once, in different stages, and
every stage acts in every cycle.  This directory holds TLA+ modules that
model that program, the TLC runs that check them on small instances, and TLAPS
proofs of the results that can be had for every instance.

Paths such as `include/...` are relative to the repository root.

## 1. The system

```
 wire -> PCS -> MAC -> PARSE -> BOOK --(port A)--> quote RAM --(port B)--> OFI -> DMA -> host
          |      |       |        |                    |                    |      |
       66b blocks beats  ITCH   OrderTable         bram_ring_           ofi_ring_ dma_q_
       CRC-32    IPG     5.0    FiveLevelOrderBook
```

| Component | State | Operations | Correct when |
|---|---|---|---|
| `DiscreteEngine` (`core/discrete_engine.hpp`) | cycle counter, lists of posedge and negedge callbacks | `on_posedge`, `on_negedge`, `step`, `run`, `reset` | every accepted callback runs once per step, posedges before negedges, in the same cycle |
| `RingBuffer` (`core/aligned_slab.hpp`) | slots, head, tail, size | `push`, `pop` | it is a bounded FIFO queue |
| `DualPortBram` (`modules/bram_memory.hpp`) | memory, request pipeline, two responses, collision flag | `posedge`, `negedge`, `reset` | a read returns the last value written, after `Latency` cycles |
| `OfiDsp` (`modules/ofi_dsp.hpp`) | previous quote, three pipeline stages, output | `posedge`, `posedge_idle`, `negedge`, `reset` | outputs are the saturated imbalance of consecutive quotes, in order, three stages later |
| `OrderTable` (`modules/order_table.hpp`) | array of entries | `insert`, `reduce`, `reset` | it is a bounded map from live references to orders |
| `FiveLevelOrderBook` (`modules/order_book.hpp`) | two arrays of five levels, overflow count | `add`, `execute`, `best_bid`, `best_ask`, `reset` | levels agree with the resting orders |
| Book stage (`apply_to_book` in `pipeline/tick_to_trade.hpp`) | the table and the book | one handler per ITCH event type | table and book never drift apart |
| `MacFramer` (`modules/mac_framer.hpp`) | frame position, gap flag | `verify_ipg`, `accept`, `reset` | beats are refused only after a short gap |
| `Deserializer66b`, `Crc32` (`modules/phy_pcs.hpp`) | none worth keeping | `encode`, `decode` | decode inverts encode and accepts nothing else |
| `Itch50Parser` (`modules/parser_itch50.hpp`) | status, bytes consumed, events | `parse`, `reset` | delivers the whole messages of known types, once each, over any number of calls |
| `PcieGen4x16Dma` (`modules/pcie_dma.hpp`) | host ring, post count, MSI-X line | `post_write`, `consume`, `clear_msix`, `reset` | records reach the host once, in order |
| `TickToTradePipeline` (`pipeline/tick_to_trade.hpp`) | seven stage slots, three rings, per-message state, totals, `error_` | `posedge`, `negedge` | see section 4 |
| `LatencyStats` (`pipeline/tick_to_trade.hpp`) | none | `compute_with`, `compute` | nearest-rank percentiles, complete histogram |
| `MicroPriceLut` (`modules/ofi_dsp.hpp`) | a constant table | `lookup` | symmetric and monotone |
| `SyntheticItchStream`, `ReplayStream` (`pipeline/`) | a list of messages | construction, `push` | every generated message can be applied |
| `VcdLogger` (`trace/vcd_logger.hpp`) | a file | one record per cycle | time never runs backwards and values belong to their cycle |
| Replay tool (`tools/itch_replay.cpp`, `tools/itch_analysis.hpp`) | a full-depth book, framing position, arrival schedule | walk a file twice, choose a stock, replay it up to a cycle limit | its book is the reference for the five-level one; the model gets every message of the stock, at times that do not distort latencies |

**How they interact.**  The engine calls the pipeline's `posedge` and `negedge`
callbacks.  One `posedge` runs all stages *downstream first*, so that a slot
freed in this cycle can be refilled in the same cycle, and passes the collected
requests to the RAM at the end.  `negedge` clocks the RAM and the OFI unit and
attaches what they put out to messages *by position*: the oldest id in
`bram_ring_` owns the RAM's answer, the oldest id in `ofi_ring_` owns the OFI
output.  A stage's fault only sets `error_`; the rest of the edge still runs, and
every later edge returns early.

The demo (`src/main.cpp`) registers a logger behind the pipeline; the replay tool
builds a stream from a file and steps the engine up to a limit.

**What is hard here.**  There are no threads and nothing is persisted; the only
thing that can be lost or damaged is a block on the wire.  The hard part is everything that depends on several
messages being under way together: the order of the stages inside one edge,
back-pressure, results matched by position, values that cross the RAM and the
OFI pipeline while the book moves on, faults half way through an edge, rings at
their limits, arrays with holes searched linearly, saturation at the int32
limits, calls that stop half way through a buffer and are continued, slices cut
anywhere, and a time-out that is not told apart from a fault.  `PROJECT.json` lists these hazards with the line each one bites at.

## 2. Modules

Components:

* `BoundedFifo`: what a ring promises, a queue with refused calls.
  `RingBuffer`: the ring itself, its four fields and `push`/`pop` split into the
  refused and the successful call.
* `DualPortBram`: the RAM for any `Depth` and `Latency`, in the Release build,
  where `assert` does nothing.  The in-place upward copy of `pending_` is the
  recursive function in `BramPosedge`.  `BramBench` drives it with every pair of
  requests and remembers which answers are due.
* `BookQuotes`: quotes, `saturate`, and the imbalance formula `ContOfi` of the
  comment at the head of `OfiDsp`.  `OfiDsp`: the unit.  `OfiBench` drives it with
  quotes and idle cycles.
* `OrderTable` and `FiveLevelOrderBook`: a loop that stops at the first match is the
  least matching index; the operators give the table or book *after* a call,
  because the book stage makes several calls in one step.  `OrderMap` is
  the abstract map the table implements, `OrderTableBench` its driver.
* `BookStage`: `apply_to_book`, one action per kind of event, with the partial
  updates a failing add or replace leaves behind.  `BookBench` drives it with any
  event sequence.
* `SyntheticStream`: the generator of the demo and the golden tests with its
  random numbers left open, composed with `BookStage`: each step makes one message
  and applies it.
* `RealBook`: the replay tool's full-depth book.  `ReplayBooks` gives the messages
  of one stock to it and to `BookStage`, as pass 2 of the tool and the pipeline do.
* `ItchEvents`: the lengths and fields of the message types.  `ItchParser`: `parse`
  as a loop, one message a step, `reset`, and a caller that parses on from
  `bytes_consumed()`.
* `Pcs`: CRC, `encode` and `decode` on words that are sets of bit positions.
  `PcsLink` sends a payload over a wire that inverts bits.  The pipeline uses the same block count and length conditions.
* `DiscreteEngine`: both callback arrays, registration, `reset`, and a step whose
  callbacks are steps of their own, for the clients to act in.  `EngineBench` has
  clients that register at any time.  `EngineClock` is the clock one client sees.
* `VcdLogger`: the file as the sequence of its lines.  `TraceRig` is the demo
  driver: engine, logger and a pipeline of which only what the logger and the loop
  look at is kept, with arbitrary values.
* `ReplaySchedule`: cycles from time stamps, with the cap.  `ReplayDriver`: the
  framing walker, both passes, the choice of the stock, and `push` of
  `ReplayStream`; `MCReplayDriver` makes the slices.
* `ReplayTiming`: the schedule and the limit of the replay loop for streams of any
  length.  It does not step through cycles: it takes from `LatencyLaw` that a
  message waits for the wire, takes one cycle per block and is posted
  `StageCycles` later, and runs beside the tool's schedule the one without a cap.
* `LatencyStats`: percentiles, histogram and ns conversion on a bag of samples.
  `MicroPriceLut`: the table and its lookup.
* `MCUnits` and `MCAlgorithms` are the TLC instances of the units above that share no
  state with each other.  A behaviour drives one unit, chosen at its start, so the
  state space is the sum of the units' and not their product.
* `PcieDma`, `MacFramer`: the parts of the DMA engine and the framer that the
  pipeline uses.

The pipeline:

* `TickToTrade` composes all of these.  `Posedge` and `Negedge` are each one
  action, as they are one call in the code; inside, one operator per stage.  A
  stage that the code runs *after* another sees its effects: `BookFires` says
  `Free(rd) \/ Reads` because the read-back ran before, `ParseFires` says
  `Free(bookSlot) \/ BookFires`, and so on up to the wire.  `ResourceFault` and
  `ContentFault` together are all the calls of `fail()` in a posedge.
* `SequentialTrader` is the abstract specification: messages one at a time on a
  *set of orders*, with no slots, rings, RAM, levels or clock.
* `PipelineProperties` states the properties, `MCTickToTrade` the streams.

Proofs (section 6): `BookStage_proofs` (lemmas on sums, table, book and
`apply_to_book` that most of the others use), `Units_proofs` (ring, order table, RAM,
engine, the demo's clock), `Algorithms_proofs` (OFI, micro-price, parser, latency
report), `Book_proofs` (book stage and synthetic stream), `Replay_proofs` (schedule,
limit, the two books and both passes), `Pipeline_proofs` (where each message is) and
`Trader_proofs` (what the pipeline computes).

Correspondence of names: a variable is the C++ member without its underscore
(`bramRing` for `bram_ring_`, `dmaQ` for `dma_q_`); operators keep the function's
name where it is one operation (`apply_to_book`, `best_bid`, `side_ask`,
`post_decision`).  History variables, which the code does not have, are `host`
(the records the host drained), `result` in `RingBuffer`, `mirror` and `due` in the
benches, `calls` and `owed` in `EngineBench`, `delivered` in `ItchParser`, `shown` in `TraceRig`, and `exact`, `exactFree`
and `cutBacklog` in `ReplayTiming`.  `PROJECT.json` maps each definition to its lines.  Operators marked
"Mutant" are deliberately wrong variants of the operator that follows them; they
are used to confirm that a property can fail and are not part of the model.

**Abstractions.**  Message bytes do not change between the wire and the parser,
so a message is its index in the stream; its length decides blocks, beats and
whether the parser takes it.  Inside the pipeline the rings are sequences, which
`RingImplementsFifo` justifies.  The four big-endian words of the decision record
are a record with four fields.  `IntMax` stands for the largest int32; saturation
and the "no ask" price use it.  The shares and the price of one order are below it,
so the casts from uint32 to int32 in `apply_to_book` are exact (section 7); that
sums of orders stay below it too is `QuantitiesFit`.

## 3. Runs

| Run | Instance | Shows |
|---|---|---|
| `storage_units`: ring | 3 slots, 3 values | `RingInv`: the three separately updated fields stay in step.  `ImplementsFifo`: refinement of `BoundedFifo`, the returned values included. |
| `storage_units`: quote RAM | 2 words, 2 values, `Latency` 1 | `AnswersAfterLatency`: each read, on either port, is answered with the last value written up to its own cycle, and only then; requests outside the memory and resets included. |
| `storage_units`: order table | 3 slots, 4 references | `TableInv` and `ImplementsOrderMap`: insert and reduce behave as a bounded map, with reference 0, which an empty slot also holds, among the references. |
| `storage_units`: engine | 2 clients, 2 slots per edge, 3 steps | `AcceptedCallbacksRun`: exactly what was accepted runs, once per step. |
| `bram_latency_2` | the quote RAM with `Latency` 2 | **Violated.**  Section 5. |
| `computing_units`: OFI | 2 prices, quantities {0, 1, 3}, `IntMax` 3 | `OutputIsContOfi`: each output is the saturated formula, three stages later, a bubble for each idle cycle, across resets. |
| `computing_units`: micro-price | imbalances -20 to 20, spreads 0 to 10 | `SymmetricAndMonotone`. |
| `computing_units`: PCS | payloads of 0 to 11 bytes, 2 blocks of room to encode and 11 bytes to decode, up to 2 inverted bits | `CrcIsRemainder`: the shift register computes the polynomial remainder.  `AcceptedIsSent`: nothing but what was sent is accepted, and (`CleanWireDecodes`) which payloads come back over a clean wire. |
| `computing_units`: parser | up to 5 whole messages of 3 types and every kind of end; 2 events per call | `StatusExplainsStop`, `NothingLostBetweenCalls`, `ParsingEnds`. |
| `computing_units`: statistics | up to 103 samples of 3 latencies, one past the last bin | `ReportIsExact`: `PercentilesAreNearestRank`, `HistogramComplete` and `NsRounded`. |
| `book_consistency` | 3 orders, 3 prices, 2 levels per side, at most one dropped add | `LevelsMatchOrders`, `QuoteIsBest`: table, levels and quote agree while no add was dropped.  `LevelsBacked`: also after a dropped add no level ever shows shares that no resting order holds; its parts are `NoDuplicates` and `QuantitiesFit`: with `IntMax` 6, just enough for three orders of two shares, no level overflows, whatever comes and goes. |
| `demo_trace` | 3 cycles, a 3-bit signal | `TraceShowsCycle`, with `StampsIncrease`: the trace has increasing time stamps and shows each cycle as the pipeline left it.  `PipelineClock`: the engine with two clients refines `EngineClock`. |
| `replay_driver` | slices of up to 3 frames of 2 stocks, cut in the last body or header | `RejectedForFraming`; `StreamIsSlice`, with `FollowsBusiest`: the right stock, and its messages without a hole; `ArrivalsFollowTime`; `DriverEnds`. |
| `replay_timing` | 5 messages of 4 or 7 blocks, gaps 0 to 20, cap 12, slack 32 | `LimitSuffices`: three messages always fit before the limit.  `CapHidesNothing`: capping gaps only lengthens waits, and changes none unless it cuts a gap the wire needed. |
| `replay_limit` | the tool's constants, gap cap 0 | **Violated.**  Section 5. |
| `synthetic_stream` | 7 messages, 2 of them seeds, 3 live orders, 2 prices per side, orders of 1 to 3 lots | `EveryMessageApplies`: no random sequence makes a message the pipeline cannot apply or the book drops.  `ListMatchesTable`, with `LiveFits`, and `OracleAgrees`: the generator's own bookkeeping, the oracle of the golden test, is the book's. |
| `replay_books` | 4 references, 3 orders, 3 prices, 2 levels per side | `BooksAgree`: the full-depth book is the sum of its orders (`RealLevelsMatch`) and equals the five-level book until an add is dropped.  `DropMeansDeeper`: an add is dropped only when the full book is deeper than the model's. |
| `pipeline_timing` | all mixes of 4 messages of 4 to 7 blocks with gaps 0, 4, 7; every ring and the RAM of depth 1 | `PipeTypeOK`; `InFlightInOrder`, with `OfiRingMatchesPipe`; `LatencyLaw`, `ResourcesSuffice`, `EventuallyDone`. |
| `pipeline_decisions` | 4 messages of every type, good and bad; 2 orders | `ImplementsTrader`: the host receives exactly the records of `SequentialTrader`.  `FaultsAreContent`: only a bad message can stop the run.  `FrozenAfterError`, `TotalsAgree`, `GoodStreamsComplete`. |

**Why the bounds are enough.**

* A ring of three slots wraps while empty, partly filled and full; the proof
  removes the bound.
* For the OFI unit the quantity 3 equals `IntMax`, so sums and differences exceed
  the limit in both directions and saturation happens.
* Two levels and three prices make a side overflow with three orders, which is the
  only way to drop an add; three orders let two share a price while the third is
  elsewhere.  References are only compared for equality, so `BookBench` and
  `ReplayBooks` declare them symmetric.  `MaxOverflow` bounds the counter of dropped adds, which only
  grows.
* In `synthetic_stream` the thresholds are equal to the array sizes (in the code 100
  against 128), so an order too many would show at once; seven messages fill the
  list, force a reduction and refill it.  The stream is finite, so the run may stop.
* In `replay_books` a fourth reference over a table of three lets the table be full
  and lets replaces use a fresh reference.  The run stops at the first fault, when
  the model's book is frozen and there is nothing left to compare.
* For the parser two events per call cut five messages into up to three calls, the
  last of them full, partly full or empty.
* The PCS takes lengths for which payload and CRC end below, at and above a block
  boundary and at and above either buffer; two inverted bits can hit two blocks,
  their markers included.  Every byte of a payload is one of a few patterns: the
  CRC is linear, so the patterns matter less than the positions.
* In `replay_driver` three frames make ties and majorities of adds, two gaps in one
  stream, a model limit that is reached, time going back, and a gap that is capped.
* In `replay_timing` five messages outgrow the slack, and three of seven blocks put
  the wire further behind than the cap, so both premises also fail; the proof
  removes the bounds.
* For the statistics the number of samples passes 100, where p99 first differs from
  the maximum, and the room of `compute`.
* The pipeline's rings have depth 1 in `pipeline_timing` where the code has 16, 16,
  64 and 64: that they never overflow is a stronger claim there.  With
  `BramDepth` 1 all messages share one RAM word, so any write between another
  message's write and read-back would show; the code has 32.  Gaps of 0, 4 and 7
  cycles are below, at and above the time a message of 4 to 7 blocks occupies
  the wire, so messages arrive late, just in time and in a backlog.  Four
  messages are as many as can be under way at once: a message that can be
  applied occupies the wire for at least four cycles and has ten behind it, so
  three are past the wire while a fourth is on it.
* `CycleLimit` is the drivers' limit, chosen so that every stream of the instance
  is over before it (`EventuallyDone` would fail otherwise).
* In `pipeline_decisions` two orders fill the table, so that a full table, a live
  reference and a replace into the slot it frees all occur; wrong lengths are
  chosen one short, one long, and too long for an unknown type, and the fourth
  message always arrives while others are in the pipeline.  Four messages are
  enough for a bad one to have messages in all relevant states before and
  behind it.

**Fairness.**  `PipeSpec` has `WF_pipeVars(PipeNext)`.  The drivers
(`src/main.cpp`, the tests, the replay tool) call `step()` in a loop that ends only
when the pipeline is done or the cycle limit is reached, and a step always runs
both edges; nothing else is assumed.  `ParserSpec` assumes that a call runs to its
end and that the caller goes on after an event limit, not that it calls `parse` or
`reset` otherwise; `DriverSpec` that the tool keeps running.  The other modules need
no fairness.  Deadlock is not checked where the program really stops: at the cycle
limit of the pipeline and the demo, at the end of a replay, and in
`computing_units` after one transmission and at the bound on samples.

## 4. What the pipeline guarantees

* **Decisions.**  Overlapping the stages, the RAM round trip and the OFI pipeline
  change no decision (`ImplementsTrader`): a safety refinement, with
  `GoodStreamsComplete` adding that a good stream is processed to the end.
* **Order.**  Read from the DMA end to the wire end, slots and rings hold the
  messages under way in stream order, each exactly once (`InFlightInOrder`).
  `stats()` relies on this when it takes the first `completed_` latencies.
* **Latency.**  A message's latency is its wait for the wire, plus one cycle per
  block, plus 10 cycles (`LatencyLaw`): the stage table of the repository's README
  holds for every mix of lengths and gaps, and no stage behind the wire ever
  waits.
* **Resources.**  No ring overflows or is empty when popped, no RAM answer finds its
  register taken, no beat and no post is refused, and the collision the README
  leaves untested cannot happen (`ResourcesSuffice`).
* **Faults.**  `error_` always comes from a message that
  cannot be parsed or applied (`FaultsAreContent`), and then nothing moves
  (`FrozenAfterError`) even though the failing edge itself runs to its end with a
  stale event and half-applied updates.

## 5. Disagreements between code and documentation

`DualPortBram::posedge` copies the request pipeline upwards and in place, so the
newest request reaches the last stage at once: with any `Latency` a request is
answered at the negedge of its own cycle.  The comment in
`include/pipeline/tick_to_trade.hpp` says the latency "comes from the BRAM model's
template parameter as it executes", and the README derives the stage's cycles from
it.  With `Latency = 1`, the value in use, both agree (`storage_units`); with 2
they do not (`bram_latency_2`).  Nothing in the shipped pipeline is affected.

The replay tool grants the model 100000 cycles after the last arrival, and says of
every run that is not ok that "a stage reported an error, e.g. a reference it could
not resolve" (`tools/itch_replay.cpp`).  The limit is another reason:
with `--gap-cap-cycles 0` all messages arrive in cycle 0, and 16666 add messages of
six blocks, of the 20000 the tool takes, keep the wire busy past the limit with no
stage at fault (`replay_limit`).  Up to 14284 messages this cannot happen
(`LimitIsEnough`); neither can it with gaps long enough for the wire to keep up.

## 6. Proofs

The proofs hold for every value of the constants, from the assumptions stated
beside them.  Each theorem named here says of its specification what a run of
section 3 checks on one instance.

**Ring** (`Units_proofs`, from `RingAssumption`: at least one slot).
`RingInvariant` and `RingImplementsFifo`: the refinement mapping reads `size` slots
from `head` around the ring.  It is a queue only if a push writes the slot after the
last of these, so `RingInv` adds `tail = (head + size) % Count` to the types.
Lemmas on one turn around the ring reduce `%` to a case distinction; then each of
the four calls maps to its abstract call.

**Order table** (`Units_proofs`, from `CapacityAssumption` and the bench's assumption
that inserted orders have shares).  `TableInvariant`: uniqueness makes the first
match of `reduce` the only match, and `insert` keeps uniqueness because it has looked
at the whole table.  `TableImplementsMap`: under that invariant every call replies
and changes the content as `OrderMap` does, the map being read off the live slots.

**Quote RAM** (`Units_proofs`).  `AnswersComeInTime` has the hypothesis `Latency = 1`,
the value in use; with more stages the property is false (section 5).  The invariant
says that the one pending stage is the request whose answer is due and that the
mirror is the memory.

**Engine** (`Units_proofs`).  `EngineRunsAccepted`: in the middle of a step, the calls a
client has had plus its places among the callbacks still to run are what it is owed,
and the registrations accepted are the slots taken in each array.

**Demo driver** (`Units_proofs`).  `RigGivesClock`: the two registrations of the
pipeline and then that of the logger fix the list of calls of every later step
(`RigInv`), so what the pipeline sees of it implements `EngineClock`: a posedge, then a
negedge, cycle after cycle.

**OFI and micro-price** (`Algorithms_proofs`).  `OfiOutputCorrect`: the stages hold what
is due from the last three cycles, and `previous` is the last quote issued, or,
before the first, one that makes the formula agree; the heart is the lemma that
`side_bid + side_ask`, four branches with a flag, equals the formula with its four
indicator terms.  `LutSymmetricAndMonotone`: for all imbalances and spreads,
truncation towards zero included.

**Parser** (`Algorithms_proofs`, from `BuffersAssumption`: only the last message of a
buffer may be cut off or of unknown type, since the parser does not look behind it).
The parser counts bytes and the properties speak of messages.  Lemmas on prefix sums
say how many bytes the first k messages have and that no two start at the same byte;
`ParserInv` then says that a call has started behind some b-th message and taken those
up to the n-th, with base, offset and byte count the corresponding sums, and that the
calls before it have delivered the first b events.  `StatusAlwaysExplains` and
`NothingEverLost` follow for every event limit.

**Latency report** (`Algorithms_proofs`, from `StatsAssumption`).  `ReportAlwaysExact`
needs no invariant but that samples are counts.  The k-th sorted sample is the least
latency that k samples do not exceed, it occurred, and the rank the code computes is
the least number of samples that is p of a hundred.  The bins add up to the number of
samples because each bin more adds the samples of its own range.

**Book stage** (`BookStage_proofs`, `Book_proofs`).  The properties add up shares
over sets of orders with the library's fold, which picks elements in an unspecified
order.  The lemmas first show that a finite set of weights has a sum that does not
depend on the order (`SumsExist`) and that the fold computes it (`FoldIsSum`), by
induction on the size of a set as a least counterexample.  Then each call has a lemma
that says by how much it moves the shares of the table (`InsertShares`,
`ReduceShares`) and what the book shows (`AddToBook`, `ExecuteInBook`) at every price
of both sides.  `BookInv`: the table has each reference once and the book each price
once, also after a fault (`WellFormed`); until then the book shows no more than the
orders hold and exactly that while nothing was dropped (`Backed`); the quote is the
book's.  `BookLevelsBacked`, `BookMatchesOrders` and `BookQuoteIsBest` follow, for every
capacity, number of levels and number of dropped adds.

**Synthetic stream** (`Book_proofs`, from `SyntheticAssumption`: the threshold is
within the arrays, there is a row for each generated price, and prices lie between
those of no bid and no ask).  `InStep` relates the generator and the book stage: the orders of the list are
those of the table, the level quantities are the sums of their shares, every
reference is below the next one to be given, and nothing was dropped.  The swap in
`remove_live` is shown to remove exactly one order.  An add finds a row because the
occupied rows have different prices of the side, which are no more than the rows; it
finds a slot because of the threshold.  `SyntheticApplies`, `SyntheticListMatches` and
`SyntheticOracle` hold for every sequence of random numbers.

**Replay** (`Replay_proofs`).  `LimitIsEnough` and `CapIsSafe`, from `TimingAssumption`
and `ScheduleAssumption`: `TimingInv` adds that the wire is behind by at most
`MaxBlocks` cycles per message and that a failing stage fails before the last message
would be posted.  A gap cut after the wire has caught up leaves both schedules
starting afresh; one cut before lets the capped one fall further behind.  What is
assumed of the pipeline is `LatencyLaw`, which `Pipeline_proofs` proves.
`ReplayBooksAgree` and `ReplayDropMeansDeeper`, from `ReplayAssumption`: `ReplayInv` says
that each level of the full-depth book holds the sum of its orders (`RealOk`), and
until a fault that the table has the same orders with the same shares (`Tracks`) and
the book is backed by them.  So the book shows what the full-depth book holds while
nothing was dropped; and when it drops an add all its rows have different prices at
which the full-depth book has levels too, none of them the price of the add, which
makes one more than there are rows.  For a replacement the count is made after the
old order has left.

**Replay driver** (`Replay_proofs`, from `FilesAssumption`: a file is a prefix of a
sequence of frames, cut anywhere).  `WalkInv`: in both passes the walker stands in
front of a frame, all before it well formed and inside the file, and what stopped it
is known afterwards.  This gives `DriverRejects`.  `SchedInv` adds that the last arrival
and time stamp are those of the last message pushed; each gap is rounded down on its
own, so a message more adds less than one cycle of lag (`ArrivalsAlwaysFollow`).
`SliceInv` says that pass 1 has counted the adds of the frames passed and that the
stream is the first book messages of the chosen stock among the frames passed; as both
passes stop at the same frame this gives `StreamAlwaysSlice`.

**Pipeline** (`Pipeline_proofs`), for every stream allowed by `StreamsAssumption` and
every depth of the rings, under the hypothesis `BramLatency = 1`, which is how
`tick_to_trade.hpp` instantiates the RAM.  The pipeline keeps no record of when a
message left the wire, but as long as there is no error that cycle decides where the
message is.  `PipeInv` therefore says that there is a function F from messages to
the cycle of their last block (`Timed(F)`) such that slots and rings hold consecutive
messages, every place behind the parser is a fixed number of cycles from F, and
messages of proper length are at least four cycles apart, because they have at least
four blocks.  From the distances it follows that no stage waits, that no ring holds
more than one message, and that a read-back never meets a write.  `PosedgeTimed` has a
lemma for each stage, in the order of the code.  `PipelineTypes`,
`LatencyIsQueueingPlusConstant`, `ResourcesAlwaysSuffice` and `PipelineInOrder` follow from
`PipeInv`; `ErrorFreezesThePipeline` needs no invariant.

**What the pipeline computes** (`Trader_proofs`), under two more hypotheses.
`FeedStreams`: the prices and shares of the feed fit an `int32_t` and no order is added
without shares.  `ShallowStream`: orders never rest at more prices of a side than the
book has levels; past that the book drops adds by design and its quotes are no longer
those of all orders.  `MCTickToTrade` has assumptions that TLC evaluates to show that
every stream of the runs satisfies both.

The reference, `After` of `SequentialTrader`, is a recursive function.  The lemmas first
show that such a function exists and unfolds step by step, again as a least
counterexample, and then never look at the recursion.  `OrdersInv` adds to `PipeInv` that
the order table holds the orders of the messages past the book stage, all of which
could be applied, and that after an error one on the wire side could not; this uses
the lemmas of `BookStage_proofs` about the same `apply_to_book`.  `FaultsAlwaysAreContent`
follows without `ShallowStream`.  `TraderInv` adds the data on the way: the quote of each
message is that of the orders after it (`QuotesInv`), the RAM returns it to the message
that wrote it although words are reused (`RamInv`), the OFI unit compares each quote
with the one of the message before it and its output meets the right id (`OfiDataInv`),
the totals are sums over the messages that have left it (`TotalsInv`), and the host holds
the decisions of the completed messages (`HostInv`).  `TotalsAlwaysAgree` is one part of
it.  `PipelineImplementsTrader`: every step leaves the host alone or appends the
decision of the next message, which is a step of `SequentialTrader`.

**Only model-checked**, on the instances of section 3:

* all liveness (`EventuallyDone`, `GoodStreamsComplete`, `ParsingEnds`, `DriverEnds`), which
  needs fairness and ENABLED, out of the prover's reach;
* the CRC (`CrcIsRemainder`, `AcceptedIsSent`): that a shift register computes a remainder
  is an induction over the bits of the payload, and that few inverted bits are always
  noticed is a fact about this polynomial and these lengths, false for longer payloads
  or more errors, which TLC enumerates;
* the trace (`TraceShowsCycle`): that a vector of bits read as two's complement is the
  number written is an induction over the bits, with powers of two the provers do
  not interpret.

## 7. Not modelled, and why

* `reset` of the DMA engine and framer, beats that do not transfer, a host that
  drains late: never used by the pipeline, which drains each record in the edge
  that posts it.
* A single order of 2^31 or more shares, or at such a price: ITCH does not allow
  them, and the models assume they do not come.
* `--model-messages 0`: the tool would then read the message before the first, which
  has no defined outcome; `DriverAssumption` excludes it.
* Null pointers passed to `encode`, `decode` and `parse`: no caller has one.
* Byte order and offsets of ITCH fields, the stock name, the fixed text of the trace
  header: layout.
* Command line, file mapping, printing and counters that are only printed, figure
  scripts: input and output only.

## 8. Plan

1. `RingBuffer`, `DualPortBram`, `OfiDsp`, `OrderTable`, `FiveLevelOrderBook`,
   `BookStage`, `TickToTrade` and their abstract specifications (done).
2. `DiscreteEngine`, `VcdLogger` and `TraceRig`, refining `EngineClock` (done).
3. `SyntheticStream` and `RealBook` with `ReplayBooks` (done).
4. `ItchParser` and `Pcs` (done).
5. `ReplayDriver` and `ReplayTiming`, with its proofs (done).
6. `LatencyStats`, `MicroPriceLut`, ns conversion (done).
7. Theorems: storage units and engine; OFI and micro-price; the book stage, the
   generator and the replay books on top of it; the pipeline's types, order,
   latencies and freedom from resource faults (done).
8. Theorems: the pipeline's decisions, totals and faults, the demo's clock, the parser,
   the latency report and the replay driver (done).

Left to a prover with induction over data: the CRC and the trace.
