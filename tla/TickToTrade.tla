----------------------------- MODULE TickToTrade -----------------------------
(***************************************************************************)
(* BasicTickToTradePipeline of include/pipeline/tick_to_trade.hpp.  A      *)
(* stream of messages with scheduled arrival cycles passes through the     *)
(* stages                                                                  *)
(*                                                                         *)
(*   wire -> PCS -> MAC -> PARSE -> BOOK -> quote RAM -> OFI -> DMA -> host *)
(*                                                                         *)
(* Each stage is a slot for one message; three rings remember which        *)
(* message the next RAM answer, the next OFI output and the next DMA post  *)
(* belong to.  One posedge runs all stages, downstream first, and one      *)
(* negedge collects what the RAM and the OFI unit put out.                 *)
(*                                                                         *)
(* A message's bytes stay what they are on the way, so a message is known  *)
(* by its index in the stream; only its length (blocks, beats, parse) and  *)
(* the fields of its event matter.                                         *)
(***************************************************************************)
EXTENDS ItchEvents, BookStage, DualPortBram, OfiDsp, PcieDma, MacFramer, EngineClock

CONSTANTS Streams,       \* the message streams the pipeline may be given
          RingDepth,     \* capacity of bram_ring_ and ofi_ring_; 16 in the code
          DmaQueueDepth, \* capacity of dma_q_; 64 in the code
          CycleLimit     \* the driver's bound on simulated cycles

ASSUME PipelineAssumption ==
  RingDepth \in Nat \ {0} /\ DmaQueueDepth \in Nat \ {0} /\ CycleLimit \in Nat

\* Neither stream class holds an empty message; a length is a uint8_t.
ASSUME StreamsAssumption ==
  Streams \subseteq Seq([type : STRING, reference : Nat, newReference : Nat, bid : BOOLEAN,
                        price : Nat, shares : Nat, length : 1 .. 255, arrival : Nat])

VARIABLES
  stream,                \* stream_: fixed when the pipeline is built
  pcs, mac, parse, bookSlot, rd, ofiIn, dma,  \* the stage slots
  bramRing, ofiRing, dmaQ,                    \* the three rings
  event, quote, ofi,     \* state_[i].event, .quote and .ofi
  latency,               \* latency_
  parserEvent,           \* parser_.event(0)
  nextMsg, completed,    \* next_msg_, completed_
  cumulativeOfi, lastOfi,\* cumulative_ofi_, last_ofi_
  error,                 \* error_
  host                   \* history: the decision records the host drained

slotVars == <<pcs, mac, parse, bookSlot, rd, ofiIn, dma>>
ringVars == <<bramRing, ofiRing, dmaQ>>
messageVars == <<event, quote, ofi, latency, parserEvent>>
countVars == <<nextMsg, completed, cumulativeOfi, lastOfi, host>>
pipeVars == <<stream, slotVars, ringVars, messageVars, countVars, error,
              entries, book, bramVars, ofiVars, dmaEngine, macVars, clockVars>>

\* PipelineParams
ParserCycles == 2
BookCycles == 1
DmaPostCycles == 2
MacIpgIdleBytes == 12

Count == Len(stream)
Ids == 0 .. Count - 1
Message(i) == stream[i + 1]
Done == completed = Count \/ error

------------------------------------------------------------------------------
(***************************************************************************)
(* Slot                                                                    *)
(***************************************************************************)
NoMsg == -1
EmptySlot == [msg |-> NoMsg, avail |-> 0, left |-> 0]
Load(m, a, l) == [msg |-> m, avail |-> a, left |-> l]
Emptied(s) == [s EXCEPT !.msg = NoMsg]

Free(s) == s.msg = NoMsg
Available(s) == ~Free(s) /\ cycle >= s.avail
Finished(s) == Available(s) /\ s.left = 0
Worked(s) == IF Available(s) /\ s.left > 0 THEN [s EXCEPT !.left = @ - 1] ELSE s

PipeInit ==
  /\ stream \in Streams
  /\ pcs = EmptySlot /\ mac = EmptySlot /\ parse = EmptySlot /\ bookSlot = EmptySlot
  /\ rd = EmptySlot /\ ofiIn = EmptySlot /\ dma = EmptySlot
  /\ bramRing = <<>> /\ ofiRing = <<>> /\ dmaQ = <<>>
  /\ event = [i \in Ids |-> NoEvent] /\ parserEvent = NoEvent
  /\ quote = [i \in Ids |-> Quote(0, 0, 0, 0)]
  /\ ofi = [i \in Ids |-> 0] /\ latency = [i \in Ids |-> 0]
  /\ nextMsg = 0 /\ completed = 0 /\ cumulativeOfi = 0 /\ lastOfi = 0
  /\ error = FALSE /\ host = <<>>
  /\ TableInit /\ BookInit /\ BramInit /\ OfiInit /\ DmaInit /\ MacInit /\ ClockInit

------------------------------------------------------------------------------
(***************************************************************************)
(* DMA: take the next message off the queue, build, post and let the host  *)
(* drain the record, which is instantaneous.                               *)
(***************************************************************************)
DmaLoaded ==
  IF Free(dma) /\ dmaQ # <<>> THEN Load(Head(dmaQ), cycle, DmaPostCycles) ELSE dma
Posts == Available(DmaLoaded) /\ DmaLoaded.left = 1

Record(i) == [tag |-> i, ofi |-> ofi[i],
              bidPrice |-> quote[i].bidPrice, askPrice |-> quote[i].askPrice]

\* post_decision calls post_write; only if that succeeded does it drain.
PostedEngine(i) == PostWrite(dmaEngine, Record(i))
PostFails(i) ==
  ~PostOk(dmaEngine) \/ ~PostedEngine(i).msix \/ Head(PostedEngine(i).ring).tag # i

post_decision(i) ==
  /\ IF PostOk(dmaEngine)
       THEN /\ dmaEngine' = ClearMsix(Consume(PostedEngine(i)))
            /\ host' = Append(host, Head(PostedEngine(i).ring))
       ELSE UNCHANGED <<dmaEngine, host>>
  /\ latency' = [latency EXCEPT ![i] = cycle - Message(i).arrival + 1]
  /\ completed' = completed + 1

DmaStage ==
  /\ dmaQ' = IF Free(dma) /\ dmaQ # <<>> THEN Tail(dmaQ) ELSE dmaQ
  /\ dma' = IF Posts THEN Emptied(Worked(DmaLoaded)) ELSE Worked(DmaLoaded)
  /\ IF Posts THEN post_decision(DmaLoaded.msg)
              ELSE UNCHANGED <<dmaEngine, host, latency, completed>>

(***************************************************************************)
(* OFI issue: one quote per cycle, a bubble otherwise.                     *)
(***************************************************************************)
OfiIssues == Available(ofiIn)

OfiIssueStage ==
  /\ IF OfiIssues THEN OfiPosedge(quote[ofiIn.msg]) ELSE OfiIdle
  /\ ofiRing' = IF OfiIssues /\ Len(ofiRing) < RingDepth
                  THEN Append(ofiRing, ofiIn.msg) ELSE ofiRing
  /\ ofiIn' = IF OfiIssues THEN Emptied(ofiIn) ELSE ofiIn

(***************************************************************************)
(* Quote RAM: port B reads back, one cycle after the book wrote on port A. *)
(***************************************************************************)
Reads == Available(rd)

BookFires == Finished(Worked(bookSlot)) /\ (Free(rd) \/ Reads)

ReadBackStage ==
  /\ bramRing' = IF Reads /\ Len(bramRing) < RingDepth
                   THEN Append(bramRing, rd.msg) ELSE bramRing
  /\ rd' = IF BookFires THEN Load(bookSlot.msg, cycle + 1, 1)
           ELSE IF Reads THEN Emptied(rd) ELSE rd
  /\ BramPosedge(IF BookFires THEN WriteRequest(bookSlot.msg % BramDepth,
                                                BestQuote(book'))
                              ELSE NoRequest,
                 IF Reads THEN ReadRequest(rd.msg % BramDepth) ELSE NoRequest)

(***************************************************************************)
(* PARSE.  A message whose length is not the one of its type fails; the    *)
(* event is then whatever the parser's first event slot holds.             *)
(***************************************************************************)
Decodes(m) == LengthFor(m.type) # 0 /\ m.length >= LengthFor(m.type)

\* Mutant: a 36-byte message buffer, too small for type F.
ParseFailsLong(m) == m.length # LengthFor(m.type) \/ m.length > 36

ParseFails(m) == m.length # LengthFor(m.type)

ParseFires == Finished(Worked(parse)) /\ (Free(bookSlot) \/ BookFires)

BookStep ==
  /\ IF BookFires
       THEN /\ apply_to_book(event[bookSlot.msg])
            /\ quote' = [quote EXCEPT ![bookSlot.msg] = BestQuote(book')]
       ELSE UNCHANGED <<entries, book, quote>>
  /\ bookSlot' = IF ParseFires THEN Load(parse.msg, cycle + 1, BookCycles)
                 ELSE IF BookFires THEN Emptied(Worked(bookSlot)) ELSE Worked(bookSlot)

MacFires == Finished(Worked(mac)) /\ (Free(parse) \/ ParseFires)

ParseStep ==
  /\ IF ParseFires
       THEN LET m == Message(parse.msg) IN
            /\ parserEvent' = IF Decodes(m) THEN Decode(m) ELSE parserEvent
            /\ event' = [event EXCEPT ![parse.msg] = parserEvent']
       ELSE UNCHANGED <<parserEvent, event>>
  /\ parse' = IF MacFires THEN Load(mac.msg, cycle + 1, ParserCycles)
              ELSE IF ParseFires THEN Emptied(Worked(parse)) ELSE Worked(parse)

(***************************************************************************)
(* MAC: one beat of 64 bytes per cycle.                                    *)
(***************************************************************************)
Beats(length) == (length + BeatBytes - 1) \div BeatBytes
Accepts == Available(mac) /\ mac.left > 0

(***************************************************************************)
(* PCS: ceil((length + 4) / 7) blocks, one per cycle.  encode has room for *)
(* 8 blocks, decode for 48 bytes; payload and CRC must fit in them.        *)
(***************************************************************************)
EncodeBlocks == 8
DecodeBytes == 48
Deserializer == INSTANCE Pcs
BlockCount(length) == Deserializer!BlockCount(length, EncodeBlocks)
DecodeOk(length) == Deserializer!Recoverable(length, EncodeBlocks, DecodeBytes)

\* Mutant: the last message of the stream is never taken.
PicksAllButLast ==
  Free(pcs) /\ nextMsg < Count - 1 /\ cycle >= Message(nextMsg).arrival

Picks == Free(pcs) /\ nextMsg < Count /\ cycle >= Message(nextMsg).arrival

\* Mutant: the first block is received only in the cycle after the arrival.
PcsLoadedLate ==
  IF Picks THEN Load(nextMsg, cycle + 1, BlockCount(Message(nextMsg).length)) ELSE pcs

PcsLoaded ==
  IF Picks THEN Load(nextMsg, cycle, BlockCount(Message(nextMsg).length)) ELSE pcs
PcsFires == Finished(Worked(PcsLoaded)) /\ (Free(mac) \/ MacFires)

MacStep ==
  /\ previousEnd' = IF Accepts THEN EndAfter(mac.left = 1) ELSE previousEnd
  /\ mac' = IF PcsFires THEN Load(PcsLoaded.msg, cycle + 1,
                                  Beats(Message(PcsLoaded.msg).length))
            ELSE IF MacFires THEN Emptied(Worked(mac)) ELSE Worked(mac)

\* Mutant: next_msg_ is not advanced.
PcsStepRepeats ==
  /\ nextMsg' = nextMsg
  /\ ipgValid' = IF PcsFires THEN IpgOk(MacIpgIdleBytes) ELSE ipgValid
  /\ pcs' = IF PcsFires THEN Emptied(Worked(PcsLoaded)) ELSE Worked(PcsLoaded)

PcsStep ==
  /\ nextMsg' = IF Picks THEN nextMsg + 1 ELSE nextMsg
  /\ ipgValid' = IF PcsFires THEN IpgOk(MacIpgIdleBytes) ELSE ipgValid
  /\ pcs' = IF PcsFires THEN Emptied(Worked(PcsLoaded)) ELSE Worked(PcsLoaded)

------------------------------------------------------------------------------
(***************************************************************************)
(* Every call of fail() in one posedge; the stages after it still run.     *)
(***************************************************************************)
ResourceFault ==
  \/ Posts /\ PostFails(DmaLoaded.msg)
  \/ OfiIssues /\ Len(ofiRing) = RingDepth
  \/ Reads /\ Len(bramRing) = RingDepth
  \/ Accepts /\ ~AcceptOk(mac.left = 1)

ContentFault ==
  \/ BookFires /\ ApplyFails(event[bookSlot.msg])
  \/ ParseFires /\ ParseFails(Message(parse.msg))
  \/ Picks /\ BlockCount(Message(nextMsg).length) = 0
  \/ PcsFires /\ (\/ ~DecodeOk(Message(PcsLoaded.msg).length)
                  \/ ~IpgOk(MacIpgIdleBytes))

Posedge ==
  /\ ~error /\ cycle < CycleLimit /\ AtPosedge
  /\ DmaStage /\ OfiIssueStage /\ BookStep /\ ReadBackStage /\ ParseStep /\ MacStep /\ PcsStep
  /\ error' = (ResourceFault \/ ContentFault)
  /\ UNCHANGED <<stream, ofi, lastOfi, cumulativeOfi>>

\* After an error the RAM and the OFI unit are clocked with nothing to do.
PosedgeAfterError ==
  /\ error /\ cycle < CycleLimit /\ AtPosedge
  /\ BramPosedge(NoRequest, NoRequest) /\ OfiIdle
  /\ UNCHANGED <<stream, slotVars, ringVars, messageVars, countVars, error,
                 entries, book, dmaEngine, macVars>>

------------------------------------------------------------------------------
(***************************************************************************)
(* negedge: clock the RAM and the OFI unit, then match their outputs with  *)
(* the messages they belong to.  The first mismatch fails and returns.     *)
(***************************************************************************)
ReadBackFails == bramRing = <<>> \/ ~Free(ofiIn)
CollectFails == ofiRing = <<>> \/ Len(dmaQ) = DmaQueueDepth

TailOf(ring) == IF ring = <<>> THEN ring ELSE Tail(ring)

\* Mutant: the id of the answered read stays in the ring.
TakeReadBackPeeks ==
  IF responseB'.valid
    THEN /\ quote' = [quote EXCEPT ![Head(bramRing)] = responseB'.data]
         /\ ofiIn' = Load(Head(bramRing), cycle + 1, 0)
         /\ UNCHANGED bramRing
    ELSE UNCHANGED <<bramRing, quote, ofiIn>>

\* The RAM's answer becomes the message's quote and waits for the OFI unit.
TakeReadBack ==
  IF responseB'.valid
    THEN LET id == Head(bramRing) IN
         /\ bramRing' = Tail(bramRing)
         /\ quote' = [quote EXCEPT ![id] = responseB'.data]
         /\ ofiIn' = Load(id, cycle + 1, 0)
    ELSE UNCHANGED <<bramRing, quote, ofiIn>>

\* Mutant: the total is overwritten by the last output.
CollectOfiOverwrites ==
  IF output'.valid /\ ~CollectFails
    THEN LET id == Head(ofiRing) IN
         /\ ofiRing' = Tail(ofiRing)
         /\ dmaQ' = Append(dmaQ, id)
         /\ ofi' = [ofi EXCEPT ![id] = output'.value]
         /\ lastOfi' = output'.value
         /\ cumulativeOfi' = output'.value
    ELSE UNCHANGED <<ofiRing, dmaQ, ofi, lastOfi, cumulativeOfi>>

CollectOfi ==
  IF output'.valid /\ ~CollectFails
    THEN LET id == Head(ofiRing) IN
         /\ ofiRing' = Tail(ofiRing)
         /\ dmaQ' = Append(dmaQ, id)
         /\ ofi' = [ofi EXCEPT ![id] = output'.value]
         /\ lastOfi' = output'.value
         /\ cumulativeOfi' = cumulativeOfi + output'.value
    ELSE /\ ofiRing' = IF output'.valid THEN TailOf(ofiRing) ELSE ofiRing
         /\ UNCHANGED <<dmaQ, ofi, lastOfi, cumulativeOfi>>

Negedge ==
  /\ ~error /\ AtNegedge
  /\ BramNegedge /\ OfiNegedge
  /\ IF responseB'.valid /\ ReadBackFails
       THEN /\ error' = TRUE
            /\ bramRing' = TailOf(bramRing)
            /\ UNCHANGED <<quote, ofiIn, ofiRing, dmaQ, ofi, lastOfi, cumulativeOfi>>
       ELSE /\ error' = (output'.valid /\ CollectFails)
            /\ TakeReadBack /\ CollectOfi
  /\ UNCHANGED <<stream, pcs, mac, parse, bookSlot, rd, dma, event, latency,
                 parserEvent, nextMsg, completed, host, entries, book, dmaEngine, macVars>>

\* Mutant: the early return comes after the RAM has been clocked.
NegedgeAfterErrorClocks ==
  /\ error /\ AtNegedge
  /\ BramNegedge
  /\ UNCHANGED <<stream, slotVars, ringVars, messageVars, countVars, error,
                 entries, book, ofiVars, dmaEngine, macVars>>

NegedgeAfterError ==
  /\ error /\ AtNegedge
  /\ UNCHANGED <<stream, slotVars, ringVars, messageVars, countVars, error,
                 entries, book, bramVars, ofiVars, dmaEngine, macVars>>

PipeNext == Posedge \/ Negedge \/ PosedgeAfterError \/ NegedgeAfterError

\* The drivers step the engine until the pipeline is done.
PipeSpec == PipeInit /\ [][PipeNext]_pipeVars /\ WF_pipeVars(PipeNext)
==============================================================================
