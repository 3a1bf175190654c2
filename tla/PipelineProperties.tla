------------------------- MODULE PipelineProperties --------------------------
(***************************************************************************)
(* What makes the tick-to-trade pipeline correct.                          *)
(***************************************************************************)
EXTENDS TickToTrade

Trader == INSTANCE SequentialTrader WITH log <- host

\* What a feed is: prices and shares fit the int32_t the book keeps them in,
\* and no order is added without shares.
FeedMessage(m) ==
  m.type \in {"A", "F", "U"} => m.price \in 0 .. IntMax /\ m.shares \in 1 .. IntMax
FeedStreams == \A s \in Streams : \A i \in 1 .. Len(s) : FeedMessage(s[i])

\* The book has a level for every price the stream's orders rest at.
ShallowStream == Trader!AtMostPrices(Levels)

\* The pipeline's parts have the shape the code gives them: a slot holds no
\* message or one that has been taken off the wire, with no more work left
\* than its stage takes, and the rings hold such messages and never exceed
\* their capacity (the Slot loads and RingBuffer pushes).
SlotOK(s, work) ==
  ~Free(s) => /\ s.msg \in 0 .. nextMsg - 1
              /\ s.avail \in 0 .. cycle + 1
              /\ s.left \in 0 .. work

PipeTypeOK ==
  /\ nextMsg \in 0 .. Count /\ completed \in 0 .. nextMsg /\ error \in BOOLEAN
  /\ SlotOK(pcs, 8) /\ SlotOK(mac, Beats(255)) /\ SlotOK(parse, ParserCycles)
  /\ SlotOK(bookSlot, BookCycles) /\ SlotOK(rd, 1) /\ SlotOK(ofiIn, 0)
  /\ SlotOK(dma, DmaPostCycles)
  /\ \A r \in {bramRing, ofiRing, dmaQ} : \A k \in DOMAIN r : r[k] \in 0 .. nextMsg - 1
  /\ Len(bramRing) <= RingDepth /\ Len(ofiRing) <= RingDepth
  /\ Len(dmaQ) <= DmaQueueDepth

\* The messages a slot holds, as a sequence.
Held(s) == IF Free(s) THEN <<>> ELSE <<s.msg>>

\* The ring of message ids behind the OFI unit matches the values inside it:
\* before a posedge the values in the two stages not yet put out, oldest
\* first, belong to the ids in the ring.
OfiRingMatchesPipe ==
  ~error /\ edge = "pos" =>
    Len(ofiRing) = (IF ofiPipe[0].valid THEN 1 ELSE 0) + (IF ofiPipe[1].valid THEN 1 ELSE 0)

\* Every message taken off the wire and not yet posted is in exactly one
\* place, and read from the DMA end to the wire end the places hold them in
\* the order of the stream: back-pressure and the three rings neither lose,
\* duplicate nor overtake a message.  The ids behind the OFI unit are those of
\* the values inside it.
InFlightInOrder ==
  /\ OfiRingMatchesPipe
  /\ ~error =>
       Held(dma) \o dmaQ \o ofiRing \o Held(ofiIn) \o bramRing \o Held(rd)
         \o Held(bookSlot) \o Held(parse) \o Held(mac) \o Held(pcs)
         = [k \in 1 .. nextMsg - completed |-> completed + k - 1]

\* The cycles from the last block to the posted record: MAC 1, parse 2,
\* book 1, RAM read-back 1, OFI 3, DMA 2.
StageCycles == 1 + ParserCycles + BookCycles + 1 + PipelineStages + DmaPostCycles

\* The cycle in which the first block of a posted message was received, going
\* by its latency and the constant time of the stages.
WireStart(i) ==
  latency[i] + Message(i).arrival - BlockCount(Message(i).length) - StageCycles

\* Latency is queueing on the wire plus one cycle per block plus a constant:
\* counted back that way from its record, every message starts on the wire in
\* the cycle it arrives in or right behind the last block of the message
\* before it.  Behind the wire no stage ever waits for another, whatever the
\* mix of message lengths and arrival times (the stage table of the README).
LatencyLaw ==
  \A i \in Ids : i < completed =>
    LET free == WireStart(i - 1) + BlockCount(Message(i - 1).length) IN
    WireStart(i) = IF i = 0 \/ Message(i).arrival >= free THEN Message(i).arrival ELSE free

\* An error is always the fault of a message: some message that cannot be
\* applied has been taken off the wire, and it and all later messages are
\* without a decision.
FaultsAreContent == error => completed <= Trader!GoodPrefix /\ Trader!GoodPrefix < nextMsg

\* The stages never compete for a resource: a read-back never meets the write
\* of another message at its address, no ring is full when an id is pushed or
\* empty when one is popped, no RAM answer finds its register taken, the MAC
\* takes every beat and the host ring every post.  So none of the calls of
\* fail() that are not about the content of a message is ever reached.
ResourcesSuffice ==
  /\ ~collision
  /\ ~error =>
       /\ edge = "pos" => ~ResourceFault
       /\ edge = "neg" =>
            /\ pending[BramLatency - 1].b.read => ~ReadBackFails
            /\ ofiPipe[PipelineStages - 1].valid => ~CollectFails

\* The OFI totals the report prints are those of the messages that have left
\* the OFI unit, each counted once: the ones posted and the ones waiting for
\* the DMA stage.
TotalsAgree ==
  LET out == completed + Len(Held(dma)) + Len(dmaQ)
      total[n \in 0 .. Count] == IF n = 0 THEN 0 ELSE total[n - 1] + Trader!Imbalance(n - 1)
  IN  /\ cumulativeOfi = total[out]
      /\ out > 0 => lastOfi = Trader!Imbalance(out - 1)

\* After an error nothing observable moves: no decision, no order, no level,
\* no statistic changes, however long the engine keeps running.
FrozenAfterError ==
  [][error => UNCHANGED <<slotVars, ringVars, messageVars, countVars, error,
                          entries, book, memory, dmaEngine>>]_pipeVars

\* The host drains exactly the records of the untimed specification, one per
\* message and in order: stage overlap, the RAM round trip and the OFI
\* pipeline do not change any decision, and no decision is issued for a
\* message that cannot be applied or for one after it.
ImplementsTrader == Trader!TraderSpec

\* Every stream is finished or fails: no stage waits for ever.
EventuallyDone == <>Done

\* A stream without a bad message is processed to the end.
GoodStreamsComplete == Trader!GoodPrefix = Count => <>(completed = Count)
==============================================================================
