--------------------------- MODULE Pipeline_proofs ---------------------------
(***************************************************************************)
(* Proofs about the tick-to-trade pipeline, for every stream of messages   *)
(* and every depth of the rings, with the one-stage quote RAM it is built  *)
(* with.                                                                   *)
(*                                                                         *)
(* The pipeline keeps no record of when a message left the wire, but as    *)
(* long as no error is raised that cycle decides where the message is.     *)
(* The inductive invariant therefore says that there is a function F, the  *)
(* cycle in which each message's last block was received, that places      *)
(* every message: the stages behind the parser lie at fixed distances from *)
(* F, and messages with the length of their type are at least four cycles  *)
(* apart.  A message of the wrong length may be closer to the one before   *)
(* it and wait for it, together with those behind it, but none of them     *)
(* gets past the parser.                                                   *)
(***************************************************************************)
EXTENDS PipelineProperties, SequenceTheorems, TLAPS

\* The cycle of the next posedge.
Now == IF edge = "pos" THEN cycle ELSE cycle + 1

Has(s) == IF Free(s) THEN 0 ELSE 1

\* The first message that has not got past a place, counted from the host.
PastDma == completed + Has(dma)
PastQueue == PastDma + Len(dmaQ)
PastOfi == PastQueue + Len(ofiRing)
PastRegister == PastOfi + Has(ofiIn)
PastRam == PastRegister + Len(bramRing)
PastRead == PastRam + Has(rd)
PastBook == PastRead + Has(bookSlot)
PastParse == PastBook + Has(parse)
PastMac == PastParse + Has(mac)

Fits(i) == ~ParseFails(Message(i))
Blocks(i) == BlockCount(Message(i).length)
Arrival(i) == Message(i).arrival

\* When message i can start on the wire, given when the one before it ended.
Start(F, i) == IF i = 0 \/ Arrival(i) >= F[i - 1] + 1 THEN Arrival(i) ELSE F[i - 1] + 1

\* Message i started as soon as it could and was received without a pause.
OnTime(F, i) == F[i] = Start(F, i) + Blocks(i) - 1

AtMost(ring, i) == ring = <<>> \/ ring = <<i>>

\* Which message is where.
InOrder ==
  /\ nextMsg = PastMac + Has(pcs)
  /\ ~Free(dma) => dma.msg = completed
  /\ AtMost(dmaQ, PastDma)
  /\ AtMost(ofiRing, PastQueue)
  /\ ~Free(ofiIn) => ofiIn.msg = PastOfi
  /\ AtMost(bramRing, PastRegister)
  /\ ~Free(rd) => rd.msg = PastRam
  /\ ~Free(bookSlot) => bookSlot.msg = PastRead
  /\ ~Free(parse) => parse.msg = PastBook
  /\ ~Free(mac) => mac.msg = PastParse
  /\ ~Free(pcs) => pcs.msg = PastMac

\* When the messages that have been posted left the wire.
PostedTimes(F) ==
  \A i \in 0 .. completed - 1 :
    F[i] <= Now - 11 /\ latency[i] = F[i] - Arrival(i) + 11

\* The stages behind the parser: each message moves on in every cycle.
BackEndTimes(F) ==
  /\ ~Free(dma) => dma.left = 1 /\ dma.avail <= Now /\ F[completed] = Now - 10
  /\ dmaQ # <<>> => edge = "pos" /\ F[PastDma] = Now - 9
  /\ ofiRing # <<>> => F[PastQueue] \in Now - (IF edge = "pos" THEN 8 ELSE 9) .. Now - 7
  /\ ~Free(ofiIn) => edge = "pos" /\ ofiIn.avail = Now /\ F[PastOfi] = Now - 6
  /\ bramRing # <<>> => edge = "neg" /\ F[PastRegister] = Now - 6
  /\ ~Free(rd) => rd.avail = Now /\ F[PastRam] = Now - 5
  /\ ~Free(bookSlot) => bookSlot.avail = Now /\ bookSlot.left = 1 /\ F[PastRead] = Now - 4

\* What is inside the OFI unit and the RAM belongs to the ids in their rings.
UnitsMatch(F) ==
  /\ \A k \in 0 .. (IF edge = "pos" THEN 1 ELSE 2) :
       ofiPipe[k].valid <=> ofiRing # <<>> /\ F[PastQueue] = Now - 7 - k
  /\ edge = "neg" =>
       /\ pending[0].b.read <=> bramRing # <<>>
       /\ pending[0].b.read => pending[0].b.address \in Address

\* The stages up to the parser.
FrontEndTimes(F) ==
  /\ \A i \in 0 .. PastBook - 1 : Fits(i)
  /\ \A i \in 0 .. PastMac - 1 :
       F[i] < Now /\ ((\A j \in 0 .. i : Fits(j)) => OnTime(F, i))
  /\ ~Free(parse) => /\ parse.left \in 1 .. 2 /\ parse.avail = Now - 2 + parse.left
                     /\ Fits(PastBook) => F[PastBook] = parse.avail - 2
  /\ ~Free(mac) =>
       /\ mac.avail <= Now /\ mac.left \in 0 .. 1 /\ ipgValid
       /\ Fits(PastParse) /\ (Free(parse) \/ Fits(PastBook)) =>
            mac.avail = Now /\ mac.left = 1 /\ F[PastParse] = Now - 1
  /\ ~Free(pcs) =>
       /\ pcs.avail < Now /\ pcs.left \in 0 .. 8 /\ Blocks(PastMac) > 0
       /\ (\A j \in 0 .. PastMac - 1 : Fits(j)) =>
            /\ pcs.avail = Start(F, PastMac)
            /\ pcs.left = Blocks(PastMac) - (Now - pcs.avail) /\ pcs.left > 0
  /\ Free(pcs) /\ nextMsg < Count /\ (\A j \in 0 .. PastMac - 1 : Fits(j)) =>
       Now <= Arrival(nextMsg) \/ (nextMsg > 0 /\ F[nextMsg - 1] = Now - 1)

Timed(F) == InOrder /\ PostedTimes(F) /\ BackEndTimes(F) /\ UnitsMatch(F) /\ FrontEndTimes(F)

------------------------------------------------------------------------------
(***************************************************************************)
(* Types the invariant adds to PipeTypeOK.                                 *)
(***************************************************************************)
Slot == [msg : Int, avail : Int, left : Int]

Typed ==
  /\ stream \in Streams /\ cycle \in Nat /\ edge \in {"pos", "neg"}
  /\ pcs \in Slot /\ mac \in Slot /\ parse \in Slot /\ bookSlot \in Slot
  /\ rd \in Slot /\ ofiIn \in Slot /\ dma \in Slot
  /\ bramRing \in Seq(Int) /\ ofiRing \in Seq(Int) /\ dmaQ \in Seq(Int)
  /\ latency \in [Ids -> Int]
  /\ \A k \in OfiStage : ofiPipe[k].valid \in BOOLEAN
  /\ ipgValid \in BOOLEAN

\* The messages of a stream (synthetic_itch.hpp and real_itch.hpp).
LEMMA StreamFacts ==
  ASSUME stream \in Streams
  PROVE  /\ Count \in Nat
         /\ \A i \in Ids : Message(i).length \in 1 .. 255 /\ Arrival(i) \in Nat
  <1> DEFINE M == [type : STRING, reference : Nat, newReference : Nat, bid : BOOLEAN,
                   price : Nat, shares : Nat, length : 1 .. 255, arrival : Nat]
  <1>1. stream \in Seq(M)
    BY StreamsAssumption
  <1>2. \A m \in M : m.length \in 1 .. 255 /\ m.arrival \in Nat
    OBVIOUS
  <1>3. Count \in Nat /\ \A i \in Ids : Message(i) \in M
    <2> HIDE DEF M
    <2> QED BY <1>1 DEF Count, Ids, Message
  <1>4. QED
    BY <1>2, <1>3 DEF Arrival

\* How many blocks and beats a message takes (encode and the MAC stage).
LEMMA LengthFacts ==
  ASSUME NEW n \in 1 .. 255
  PROVE  /\ BlockCount(n) \in 0 .. 8
         /\ Beats(n) \in 0 .. 4
         /\ BlockCount(n) > 0 => Beats(n) = 1
         /\ n >= 19 /\ BlockCount(n) > 0 => BlockCount(n) >= 4
  BY DEF BlockCount, Deserializer!BlockCount, EncodeBlocks, Deserializer!CrcBytes,
         Deserializer!BytesPerBlock, Beats, BeatBytes

\* A message with the length of its type has at least four blocks.
LEMMA FittingFacts ==
  ASSUME stream \in Streams, NEW i \in Ids, Fits(i)
  PROVE  Blocks(i) \in 4 .. 8
  <1>1. Message(i).length \in {36, 40, 31, 23, 19, 35}
    BY StreamFacts DEF Fits, ParseFails, LengthFor, KnownLengths
  <1>2. QED
    BY <1>1 DEF Blocks, BlockCount, Deserializer!BlockCount, EncodeBlocks,
                Deserializer!CrcBytes, Deserializer!BytesPerBlock

------------------------------------------------------------------------------
(***************************************************************************)
(* What the invariant says before a posedge.                               *)
(***************************************************************************)
\* The places follow one another.
LEMMA Chain ==
  ASSUME Typed, PipeTypeOK, InOrder
  PROVE  /\ completed \in Nat /\ PastDma \in Nat /\ PastQueue \in Nat /\ PastOfi \in Nat
         /\ PastRegister \in Nat /\ PastRam \in Nat /\ PastRead \in Nat /\ PastBook \in Nat
         /\ PastParse \in Nat /\ PastMac \in Nat /\ nextMsg \in Nat /\ Count \in Nat
         /\ completed <= PastDma /\ PastDma <= PastQueue /\ PastQueue <= PastOfi
         /\ PastOfi <= PastRegister /\ PastRegister <= PastRam /\ PastRam <= PastRead
         /\ PastRead <= PastBook /\ PastBook <= PastParse /\ PastParse <= PastMac
         /\ PastMac <= nextMsg /\ nextMsg <= Count
  <1>1. Count \in Nat /\ nextMsg \in Nat /\ nextMsg <= Count /\ completed \in Nat
    BY StreamFacts DEF Typed, PipeTypeOK
  <1>2. /\ Has(dma) \in {0, 1} /\ Has(ofiIn) \in {0, 1} /\ Has(rd) \in {0, 1}
        /\ Has(bookSlot) \in {0, 1} /\ Has(parse) \in {0, 1} /\ Has(mac) \in {0, 1}
        /\ Has(pcs) \in {0, 1}
        /\ Len(dmaQ) \in {0, 1} /\ Len(ofiRing) \in {0, 1} /\ Len(bramRing) \in {0, 1}
    BY DEF Has, InOrder, AtMost
  <1>3. nextMsg = PastMac + Has(pcs)
    BY DEF InOrder
  <1>4. /\ PastDma \in Nat /\ completed <= PastDma
        /\ PastQueue \in Nat /\ PastDma <= PastQueue
        /\ PastOfi \in Nat /\ PastQueue <= PastOfi
    BY <1>1, <1>2 DEF PastDma, PastQueue, PastOfi
  <1>5. /\ PastRegister \in Nat /\ PastOfi <= PastRegister
        /\ PastRam \in Nat /\ PastRegister <= PastRam
        /\ PastRead \in Nat /\ PastRam <= PastRead
    BY <1>2, <1>4 DEF PastRegister, PastRam, PastRead
  <1>6. /\ PastBook \in Nat /\ PastRead <= PastBook
        /\ PastParse \in Nat /\ PastBook <= PastParse
        /\ PastMac \in Nat /\ PastParse <= PastMac /\ PastMac <= nextMsg
    BY <1>1, <1>2, <1>3, <1>5 DEF PastBook, PastParse, PastMac
  <1>7. QED
    BY <1>1, <1>4, <1>5, <1>6

\* Two messages with the length of their type leave the wire at least four
\* cycles apart.
LEMMA Spacing ==
  ASSUME Typed, PipeTypeOK, NEW F \in [Ids -> Int], InOrder, FrontEndTimes(F),
         NEW i \in 1 .. PastMac - 1, \A j \in 0 .. i : Fits(j)
  PROVE  F[i] >= F[i - 1] + 4
  <1>1. i \in Ids /\ i - 1 \in Ids /\ i \in 0 .. PastMac - 1
    BY Chain DEF Ids
  <1>2. OnTime(F, i)
    BY <1>1 DEF FrontEndTimes
  <1>3. Blocks(i) \in 4 .. 8 /\ Arrival(i) \in Nat
    BY <1>1, FittingFacts, StreamFacts DEF Typed
  <1>4. F[i] \in Int /\ F[i - 1] \in Int
    BY <1>1
  <1>5. QED
    BY <1>2, <1>3, <1>4 DEF OnTime, Start

\* Every message behind the parser has the length of its type, so this holds for
\* each of them.
LEMMA SpacingBehind ==
  ASSUME Typed, PipeTypeOK, NEW F \in [Ids -> Int], InOrder, FrontEndTimes(F),
         NEW i \in Nat, i + 1 < PastBook
  PROVE  F[i + 1] >= F[i] + 4
  <1>1. i + 1 \in 1 .. PastMac - 1 /\ \A j \in 0 .. i + 1 : j \in 0 .. PastBook - 1
    BY Chain
  <1>2. \A j \in 0 .. i + 1 : Fits(j)
    BY <1>1 DEF FrontEndTimes
  <1>3. F[i + 1] >= F[(i + 1) - 1] + 4
    BY <1>1, <1>2, Spacing
  <1>4. QED
    BY <1>3

\* The ids a place holds are ids of the stream, so F is an integer there.
LEMMA PlaceTimes ==
  ASSUME Typed, PipeTypeOK, NEW F \in [Ids -> Int], InOrder
  PROVE  \A i \in Nat : i < nextMsg => i \in Ids /\ F[i] \in Int
  BY Chain DEF Ids

\* Before a posedge every stage behind the parser is ready to move, and no two
\* of them meet at a ring or at the RAM.
LEMMA BackEndMoves ==
  ASSUME Typed, PipeTypeOK, NEW F \in [Ids -> Int], Timed(F), edge = "pos"
  PROVE  /\ bramRing = <<>>
         /\ ~Free(dma) => dmaQ = <<>>
         /\ ~Free(ofiIn) => ofiRing = <<>>
         /\ ~Free(rd) => Free(bookSlot)
         /\ Posts <=> ~Free(dma)
         /\ OfiIssues <=> ~Free(ofiIn)
         /\ Reads <=> ~Free(rd)
         /\ BookFires <=> ~Free(bookSlot)
         /\ ParseFires <=> ~Free(parse) /\ parse.left = 1
  <1> USE DEF Timed
  <1>1. Now = cycle /\ cycle \in Nat
    BY DEF Now, Typed
  <1>2. bramRing = <<>>
    BY DEF BackEndTimes
  <1>3. ASSUME ~Free(dma) PROVE dmaQ = <<>>
    <2> SUFFICES ASSUME dmaQ # <<>> PROVE FALSE
      OBVIOUS
    <2>1. PastDma = completed + 1 /\ PastQueue = PastDma + 1
      BY <1>3, Chain DEF PastDma, PastQueue, Has, InOrder, AtMost
    <2>2. completed \in Nat /\ completed + 1 < PastBook /\ completed + 1 < nextMsg
      BY <2>1, Chain
    <2>3. F[completed + 1] >= F[completed] + 4
      BY <2>2, SpacingBehind
    <2>4. F[completed] = cycle - 10 /\ F[completed + 1] = cycle - 9
      BY <1>1, <1>3, <2>1 DEF BackEndTimes
    <2>5. QED
      BY <1>1, <2>3, <2>4
  <1>4. ASSUME ~Free(ofiIn) PROVE ofiRing = <<>>
    <2> SUFFICES ASSUME ofiRing # <<>> PROVE FALSE
      OBVIOUS
    <2>1. PastOfi = PastQueue + 1 /\ PastRegister = PastOfi + 1
      BY <1>4, Chain DEF PastOfi, PastRegister, Has, InOrder, AtMost
    <2>2. PastQueue \in Nat /\ PastQueue + 1 < PastBook /\ PastQueue < nextMsg
      BY <2>1, Chain
    <2>3. F[PastQueue + 1] >= F[PastQueue] + 4
      BY <2>2, SpacingBehind
    <2>4. F[PastQueue] \in cycle - 8 .. cycle - 7
      BY <1>1 DEF BackEndTimes
    <2>5. F[PastQueue + 1] = cycle - 6
      BY <1>1, <1>4, <2>1 DEF BackEndTimes
    <2>6. QED
      BY <1>1, <2>3, <2>4, <2>5
  <1>5. ASSUME ~Free(rd) PROVE Free(bookSlot)
    <2> SUFFICES ASSUME ~Free(bookSlot) PROVE FALSE
      OBVIOUS
    <2>1. PastRead = PastRam + 1 /\ PastBook = PastRead + 1
      BY <1>5, Chain DEF PastRead, PastBook, Has
    <2>2. PastRam \in Nat /\ PastRam + 1 < PastBook /\ PastRam + 1 < nextMsg
      BY <2>1, Chain
    <2>3. F[PastRam + 1] >= F[PastRam] + 4
      BY <2>2, SpacingBehind
    <2>4. F[PastRam] = cycle - 5 /\ F[PastRam + 1] = cycle - 4
      BY <1>1, <1>5, <2>1 DEF BackEndTimes
    <2>5. QED
      BY <1>1, <2>3, <2>4
  <1>6. Posts <=> ~Free(dma)
    <2>1. CASE Free(dma)
      BY <2>1 DEF Posts, DmaLoaded, Load, DmaPostCycles, Available
    <2>2. CASE ~Free(dma)
      BY <1>1, <2>2 DEF Posts, DmaLoaded, Available, BackEndTimes
    <2>3. QED
      BY <2>1, <2>2
  <1>7. (OfiIssues <=> ~Free(ofiIn)) /\ (Reads <=> ~Free(rd))
    BY <1>1 DEF OfiIssues, Reads, Available, BackEndTimes
  <1>8. BookFires <=> ~Free(bookSlot)
    <2>1. CASE Free(bookSlot)
      BY <2>1 DEF BookFires, Finished, Worked, Available
    <2>2. CASE ~Free(bookSlot)
      <3>1. bookSlot \in Slot /\ bookSlot.avail = cycle /\ bookSlot.left = 1
        BY <1>1, <2>2 DEF Typed, BackEndTimes
      <3>2. Worked(bookSlot) = [bookSlot EXCEPT !.left = 0] /\ ~Free(Worked(bookSlot))
        BY <1>1, <2>2, <3>1 DEF Worked, Available, Slot, Free
      <3>3. Finished(Worked(bookSlot))
        BY <1>1, <3>1, <3>2 DEF Finished, Available, Slot
      <3>4. QED
        BY <1>7, <2>2, <3>3 DEF BookFires
    <2>3. QED
      BY <2>1, <2>2
  <1>9. ParseFires <=> ~Free(parse) /\ parse.left = 1
    <2>1. CASE Free(parse)
      BY <2>1 DEF ParseFires, Finished, Worked, Available
    <2>2. CASE ~Free(parse)
      <3>1. parse \in Slot /\ parse.left \in 1 .. 2 /\ parse.avail <= cycle
        BY <1>1, <2>2 DEF Typed, FrontEndTimes
      <3>2. /\ Worked(parse) = [parse EXCEPT !.left = parse.left - 1]
            /\ ~Free(Worked(parse))
        BY <1>1, <2>2, <3>1 DEF Worked, Available, Slot, Free
      <3>3. Finished(Worked(parse)) <=> parse.left = 1
        BY <1>1, <3>1, <3>2 DEF Finished, Available, Slot
      <3>4. QED
        BY <1>8, <2>2, <3>3 DEF ParseFires
    <2>3. QED
      BY <2>1, <2>2
  <1>10. QED
    BY <1>2, <1>3, <1>4, <1>5, <1>6, <1>7, <1>8, <1>9

------------------------------------------------------------------------------
(***************************************************************************)
(* What a posedge does behind the parser, also in the cycle of an error.   *)
(***************************************************************************)
\* The DMA stage posts the record of the message it holds, or takes the next.
LEMMA DmaMoves ==
  ASSUME Typed, PipeTypeOK, NEW F \in [Ids -> Int], Timed(F), edge = "pos", DmaStage
  PROVE  /\ dmaQ' = <<>> /\ completed' = PastDma
         /\ Free(dma)' <=> dmaQ = <<>>
         /\ dmaQ # <<>> => dma' = Load(PastDma, cycle, 1)
         /\ dma' \in Slot
         /\ latency' = IF Free(dma) THEN latency
                       ELSE [latency EXCEPT ![completed] = cycle - Arrival(completed) + 1]
  <1>0. InOrder /\ dma \in Slot /\ cycle \in Nat /\ completed \in Nat
    BY Chain DEF Typed, Timed
  <1>1. CASE ~Free(dma)
    <2>1. Posts /\ dmaQ = <<>> /\ DmaLoaded = dma
      BY <1>1, BackEndMoves DEF DmaLoaded
    <2>2. dma.msg = completed
      BY <1>0, <1>1 DEF InOrder
    <2>3. PastDma = completed + 1
      BY <1>1 DEF PastDma, Has
    <2>4. dmaQ' = <<>> /\ completed' = PastDma /\ dma' = Emptied(Worked(dma))
          /\ latency' = [latency EXCEPT ![completed] = cycle - Arrival(completed) + 1]
      BY <1>1, <2>1, <2>2, <2>3 DEF DmaStage, post_decision, Arrival
    <2>5. dma' \in Slot /\ dma'.msg = NoMsg
      BY <1>0, <2>4 DEF Slot, Emptied, Worked, NoMsg
    <2>6. QED
      BY <1>1, <2>1, <2>4, <2>5 DEF Free
  <1>2. CASE Free(dma)
    <2>1. ~Posts /\ PastDma = completed /\ completed + 0 = completed
      BY <1>0, <1>2, BackEndMoves DEF PastDma, Has
    <2>2. completed' = PastDma /\ latency' = latency /\ dma' = Worked(DmaLoaded)
      BY <2>1 DEF DmaStage
    <2>3. CASE dmaQ = <<>>
      <3>1. dma' = dma /\ dmaQ' = <<>>
        BY <1>2, <2>2, <2>3 DEF DmaStage, DmaLoaded, Worked, Available
      <3>2. QED
        BY <1>0, <1>2, <2>2, <2>3, <3>1 DEF Free
    <2>4. CASE dmaQ # <<>>
      <3>1. dmaQ = <<PastDma>>
        BY <1>0, <2>4 DEF InOrder, AtMost
      <3>2. dmaQ' = <<>> /\ DmaLoaded = Load(PastDma, cycle, 2)
        BY <1>2, <2>4, <3>1 DEF DmaStage, DmaLoaded, DmaPostCycles
      <3>3. DmaLoaded.msg # NoMsg
        BY <1>0, <2>1, <3>2 DEF Load, NoMsg
      <3>4. dma' = Load(PastDma, cycle, 1)
        BY <1>0, <2>2, <3>2, <3>3 DEF Worked, Available, Free, Load
      <3>5. dma' \in Slot /\ dma'.msg # NoMsg
        BY <1>0, <2>1, <3>4 DEF Load, NoMsg, Slot
      <3>6. QED
        BY <1>2, <2>2, <2>4, <3>2, <3>4, <3>5 DEF Free
    <2>5. QED
      BY <2>3, <2>4
  <1>3. QED
    BY <1>1, <1>2

\* The OFI unit takes the quote that waits for it; what it holds moves on.
LEMMA OfiMoves ==
  ASSUME Typed, PipeTypeOK, NEW F \in [Ids -> Int], Timed(F), edge = "pos", OfiIssueStage
  PROVE  /\ Free(ofiIn)' /\ ofiIn' \in Slot
         /\ ofiRing' = IF Free(ofiIn) THEN ofiRing ELSE <<PastOfi>>
         /\ \A k \in OfiStage : ofiPipe'[k].valid \in BOOLEAN
         /\ ofiPipe'[0].valid <=> ~Free(ofiIn)
         /\ ofiPipe'[1].valid <=> ofiPipe[0].valid
         /\ ofiPipe'[2].valid <=> ofiPipe[1].valid
  <1>1. ofiIn \in Slot /\ (OfiIssues <=> ~Free(ofiIn)) /\ InOrder
    BY BackEndMoves DEF Typed, Timed
  <1>2. \E v : ofiPipe' = Shifted(IF Free(ofiIn) THEN Bubble ELSE Value(v))
    <2>1. CASE Free(ofiIn)
      BY <1>1, <2>1 DEF OfiIssueStage, OfiIdle
    <2>2. CASE ~Free(ofiIn)
      BY <1>1, <2>2 DEF OfiIssueStage, OfiPosedge
    <2>3. QED
      BY <2>1, <2>2
  <1>3. PICK v : ofiPipe' = Shifted(IF Free(ofiIn) THEN Bubble ELSE Value(v))
    BY <1>2
  <1>4. /\ ofiPipe'[0] = IF Free(ofiIn) THEN Bubble ELSE Value(v)
        /\ ofiPipe'[1] = ofiPipe[0] /\ ofiPipe'[2] = ofiPipe[1]
    BY <1>3 DEF Shifted, OfiStage, PipelineStages
  <1>5. ofiPipe[0].valid \in BOOLEAN /\ ofiPipe[1].valid \in BOOLEAN
    BY DEF Typed, OfiStage, PipelineStages
  <1>6. /\ ofiPipe'[0].valid \in BOOLEAN
        /\ ofiPipe'[0].valid <=> ~Free(ofiIn)
    BY <1>4 DEF Bubble, Value
  <1>7. \A k \in OfiStage : ofiPipe'[k].valid \in BOOLEAN
    BY <1>4, <1>5, <1>6 DEF OfiStage, PipelineStages
  <1>8. Free(ofiIn)' /\ ofiIn' \in Slot
    BY <1>1 DEF OfiIssueStage, Emptied, Slot, Free, NoMsg
  <1>9. ofiRing' = IF Free(ofiIn) THEN ofiRing ELSE <<PastOfi>>
    <2>1. CASE Free(ofiIn)
      BY <1>1, <2>1 DEF OfiIssueStage
    <2>2. CASE ~Free(ofiIn)
      <3>1. ofiRing = <<>> /\ ofiIn.msg = PastOfi
        BY <1>1, <2>2, BackEndMoves DEF InOrder
      <3>2. QED
        BY <1>1, <2>2, <3>1, PipelineAssumption DEF OfiIssueStage
    <2>3. QED
      BY <2>1, <2>2
  <1>10. QED
    BY <1>4, <1>6, <1>7, <1>8, <1>9

\* With one stage the copy loop of DualPortBram::posedge does nothing.
LEMMA OneStage ==
  ASSUME BramLatency = 1, NEW a, NEW b, BramPosedge(a, b)
  PROVE  pending'[0] = [a |-> a, b |-> b] /\ collision' = Collides(a, b)
  <1> DEFINE Copied(f) == f = [i \in Stage |-> IF i = 0 THEN [a |-> a, b |-> b] ELSE f[i - 1]]
  <1>1. 0 \in Stage /\ \A i \in Stage : i = 0
    BY DEF Stage
  <1>2. Copied([i \in Stage |-> [a |-> a, b |-> b]])
    BY <1>1
  <1>3. pending' = CHOOSE f : Copied(f)
    BY DEF BramPosedge
  <1>4. Copied(pending')
    <2> HIDE DEF Copied
    <2> QED BY <1>2, <1>3
  <1>5. pending'[0] = [a |-> a, b |-> b]
    BY <1>1, <1>4
  <1>6. QED
    BY <1>5 DEF BramPosedge

\* The read-back of one message and the write of the next never share a cycle.
LEMMA RamMoves ==
  ASSUME BramLatency = 1, Typed, PipeTypeOK, NEW F \in [Ids -> Int], Timed(F), edge = "pos",
         ReadBackStage
  PROVE  /\ bramRing' = IF Free(rd) THEN <<>> ELSE <<PastRam>>
         /\ rd' \in Slot
         /\ Free(rd)' <=> Free(bookSlot)
         /\ ~Free(bookSlot) => rd' = Load(PastRead, cycle + 1, 1)
         /\ ~collision'
         /\ pending'[0].b.read <=> ~Free(rd)
         /\ pending'[0].b.read => pending'[0].b.address \in Address
  <1> DEFINE a == IF BookFires THEN WriteRequest(bookSlot.msg % BramDepth, BestQuote(book'))
                  ELSE NoRequest
             b == IF Reads THEN ReadRequest(rd.msg % BramDepth) ELSE NoRequest
  <1>1. /\ InOrder /\ rd \in Slot /\ bookSlot \in Slot /\ cycle \in Nat
        /\ (Reads <=> ~Free(rd)) /\ (BookFires <=> ~Free(bookSlot))
        /\ bramRing = <<>> /\ (~Free(rd) => Free(bookSlot))
        /\ PastRam \in Nat /\ PastRead \in Nat
    BY BackEndMoves, Chain DEF Typed, Timed
  <1>2. bramRing' = IF Free(rd) THEN <<>> ELSE <<PastRam>>
    <2>1. CASE Free(rd)
      BY <1>1, <2>1 DEF ReadBackStage
    <2>2. CASE ~Free(rd)
      <3>1. rd.msg = PastRam
        BY <1>1, <2>2 DEF InOrder
      <3>2. QED
        BY <1>1, <2>2, <3>1, PipelineAssumption DEF ReadBackStage
    <2>3. QED
      BY <2>1, <2>2
  <1>3. ~Free(bookSlot) => rd' = Load(PastRead, cycle + 1, 1)
    BY <1>1 DEF ReadBackStage, InOrder
  <1>4. rd' \in Slot /\ (Free(rd)' <=> Free(bookSlot))
    <2>1. CASE Free(bookSlot)
      <3>1. rd' = IF Free(rd) THEN rd ELSE Emptied(rd)
        BY <1>1, <2>1 DEF ReadBackStage
      <3>2. rd' \in Slot /\ rd'.msg = NoMsg
        BY <1>1, <3>1 DEF Emptied, Slot, Free, NoMsg
      <3>3. QED
        BY <2>1, <3>2 DEF Free
    <2>2. CASE ~Free(bookSlot)
      <3>1. rd' \in Slot /\ rd'.msg # NoMsg
        BY <1>1, <1>3, <2>2 DEF Load, Slot, NoMsg
      <3>2. QED
        BY <2>2, <3>1 DEF Free
    <2>3. QED
      BY <2>1, <2>2
  <1>5. BramPosedge(a, b)
    BY DEF ReadBackStage
  <1>6. pending'[0] = [a |-> a, b |-> b] /\ collision' = Collides(a, b)
    <2> HIDE DEF a, b
    <2> QED BY <1>5, OneStage
  <1>7. ~Collides(a, b)
    <2>1. CASE Free(bookSlot)
      BY <1>1, <2>1 DEF Collides, NoRequest, ReadRequest
    <2>2. CASE ~Free(bookSlot)
      BY <1>1, <2>2 DEF Collides, NoRequest, WriteRequest
    <2>3. QED
      BY <2>1, <2>2
  <1>8. pending'[0].b = b
    BY <1>6
  <1>9. b.read <=> ~Free(rd)
    BY <1>1 DEF NoRequest, ReadRequest
  <1>10. ~Free(rd) => b.address \in Address
    <2> SUFFICES ASSUME ~Free(rd) PROVE b.address \in Address
      OBVIOUS
    <2>1. rd.msg = PastRam /\ BramDepth \in Nat /\ BramDepth > 0
      BY <1>1, BramAssumption DEF InOrder
    <2>2. \A m \in Nat, d \in Nat \ {0} : m % d \in 0 .. d - 1
      OBVIOUS
    <2>3. rd.msg % BramDepth \in Address
      BY <1>1, <2>1, <2>2 DEF Address
    <2>4. QED
      BY <1>1, <2>3 DEF ReadRequest
  <1>11. QED
    BY <1>2, <1>3, <1>4, <1>6, <1>7, <1>8, <1>9, <1>10

------------------------------------------------------------------------------
(***************************************************************************)
(* What a posedge does up to the parser.                                   *)
(***************************************************************************)
\* A message the parser has finished with goes to the book stage.
LEMMA BookMoves ==
  ASSUME Typed, PipeTypeOK, NEW F \in [Ids -> Int], Timed(F), edge = "pos", BookStep
  PROVE  /\ bookSlot' \in Slot
         /\ Free(bookSlot)' <=> ~ParseFires
         /\ ParseFires => bookSlot' = Load(PastBook, cycle + 1, 1)
  <1>1. /\ InOrder /\ bookSlot \in Slot /\ cycle \in Nat /\ PastBook \in Nat
        /\ (BookFires <=> ~Free(bookSlot)) /\ (ParseFires => ~Free(parse))
    BY BackEndMoves, Chain DEF Typed, Timed
  <1>2. ASSUME ParseFires
        PROVE  bookSlot' = Load(PastBook, cycle + 1, 1)
    BY <1>1, <1>2 DEF BookStep, BookCycles, InOrder
  <1>3. CASE ParseFires
    <2>1. bookSlot' \in Slot /\ bookSlot'.msg # NoMsg
      BY <1>1, <1>2, <1>3 DEF Load, Slot, NoMsg
    <2>2. QED
      BY <1>2, <1>3, <2>1 DEF Free
  <1>4. CASE ~ParseFires
    <2>1. bookSlot' = IF Free(bookSlot) THEN Worked(bookSlot) ELSE Emptied(Worked(bookSlot))
      BY <1>1, <1>4 DEF BookStep
    <2>2. bookSlot' \in Slot /\ bookSlot'.msg = NoMsg
      BY <1>1, <2>1 DEF Worked, Available, Emptied, Free, Slot, NoMsg
    <2>3. QED
      BY <1>4, <2>2 DEF Free
  <1>5. QED
    BY <1>3, <1>4

\* The parser takes the next message, hands its own on, or works on it.
LEMMA ParseMoves ==
  ASSUME Typed, PipeTypeOK, NEW F \in [Ids -> Int], Timed(F), edge = "pos", ParseStep
  PROVE  /\ parse' \in Slot
         /\ MacFires => /\ ~Free(mac) /\ (Free(parse) \/ ParseFires)
                        /\ parse' = Load(PastParse, cycle + 1, 2) /\ ~Free(parse)'
         /\ ~MacFires => (Free(parse)' <=> Free(parse) \/ ParseFires)
         /\ ~MacFires /\ ~Free(parse) /\ ~ParseFires =>
              parse.left = 2 /\ parse' = [parse EXCEPT !.left = 1]
  <1>1. /\ InOrder /\ parse \in Slot /\ mac \in Slot /\ cycle \in Nat /\ PastParse \in Nat
        /\ (ParseFires <=> ~Free(parse) /\ parse.left = 1)
    BY BackEndMoves, Chain DEF Typed, Timed
  <1>2. CASE MacFires
    <2>1. ~Free(mac) /\ (Free(parse) \/ ParseFires)
      BY <1>2 DEF MacFires, Finished, Worked, Available
    <2>2. parse' = Load(PastParse, cycle + 1, 2)
      BY <1>1, <1>2, <2>1 DEF ParseStep, ParserCycles, InOrder
    <2>3. parse' \in Slot /\ parse'.msg # NoMsg
      BY <1>1, <2>2 DEF Load, Slot, NoMsg
    <2>4. QED
      BY <1>2, <2>1, <2>2, <2>3 DEF Free
  <1>3. CASE ~MacFires /\ ParseFires
    <2>1. parse' = Emptied(Worked(parse))
      BY <1>3 DEF ParseStep
    <2>2. parse' \in Slot /\ parse'.msg = NoMsg
      BY <1>1, <2>1 DEF Worked, Emptied, Slot, NoMsg
    <2>3. QED
      BY <1>3, <2>2 DEF Free
  <1>4. CASE ~MacFires /\ ~ParseFires
    <2>1. parse' = Worked(parse)
      BY <1>4 DEF ParseStep
    <2>2. CASE Free(parse)
      <3>1. parse' = parse
        BY <2>1, <2>2 DEF Worked, Available
      <3>2. QED
        BY <1>1, <1>4, <2>2, <3>1 DEF Free
    <2>3. CASE ~Free(parse)
      <3>1. parse.left = 2 /\ parse.avail <= cycle
        BY <1>1, <1>4, <2>3 DEF Timed, FrontEndTimes, Now
      <3>2. parse' = [parse EXCEPT !.left = 1]
        BY <1>1, <2>1, <2>3, <3>1 DEF Worked, Available, Slot
      <3>3. parse' \in Slot /\ parse'.msg = parse.msg
        BY <1>1, <3>2 DEF Slot
      <3>4. QED
        BY <1>4, <2>3, <3>1, <3>2, <3>3 DEF Free
    <2>4. QED
      BY <2>2, <2>3
  <1>5. QED
    BY <1>2, <1>3, <1>4

\* The message on the wire in this cycle, which may just have been picked.
LEMMA WireFacts ==
  ASSUME Typed, PipeTypeOK, NEW F \in [Ids -> Int], Timed(F), edge = "pos"
  PROVE  /\ PcsLoaded \in Slot
         /\ Free(PcsLoaded) <=> Free(pcs) /\ ~Picks
         /\ Picks => /\ Free(pcs) /\ nextMsg = PastMac /\ cycle >= Arrival(PastMac)
                     /\ PcsLoaded = Load(PastMac, cycle, Blocks(PastMac))
         /\ ~Picks => PcsLoaded = pcs
         /\ ~Free(PcsLoaded) => /\ PastMac \in Ids /\ PcsLoaded.msg = PastMac
                                /\ PcsLoaded.avail <= cycle /\ PcsLoaded.left \in 0 .. 8
         /\ PcsFires <=> /\ ~Free(PcsLoaded) /\ PcsLoaded.left \in 0 .. 1
                         /\ (Free(mac) \/ MacFires)
         /\ PcsFires \/ ~Free(PcsLoaded) =>
              nextMsg + (IF Picks THEN 1 ELSE 0) = PastMac + 1
  <1>1. /\ InOrder /\ pcs \in Slot /\ cycle \in Nat /\ PastMac \in Nat /\ nextMsg \in Nat
        /\ PastMac <= nextMsg /\ Count \in Nat /\ nextMsg <= Count /\ Now = cycle
    BY Chain DEF Typed, Timed, Now
  <1>2. nextMsg = PastMac + Has(pcs)
    BY <1>1 DEF InOrder
  <1>3. CASE Picks
    <2>1. Free(pcs) /\ nextMsg < Count /\ nextMsg = PastMac /\ PastMac \in Ids
      BY <1>1, <1>2, <1>3 DEF Picks, Has, Ids
    <2>2. Blocks(PastMac) \in 0 .. 8
      BY <2>1, StreamFacts, LengthFacts DEF Blocks, Typed
    <2>3. PcsLoaded = Load(PastMac, cycle, Blocks(PastMac)) /\ cycle >= Arrival(PastMac)
      BY <1>3, <2>1 DEF PcsLoaded, Blocks, Picks, Arrival
    <2>4. /\ PcsLoaded \in Slot /\ PcsLoaded.msg = PastMac /\ PcsLoaded.avail = cycle
          /\ PcsLoaded.left = Blocks(PastMac) /\ ~Free(PcsLoaded)
      BY <1>1, <2>2, <2>3 DEF Load, Slot, Free, NoMsg
    <2>5. Available(PcsLoaded)
      BY <1>1, <2>4 DEF Available
    <2>6. Finished(Worked(PcsLoaded)) <=> PcsLoaded.left \in 0 .. 1
      BY <1>1, <2>2, <2>4, <2>5 DEF Finished, Worked, Available, Free, Slot
    <2>7. PcsFires <=> PcsLoaded.left \in 0 .. 1 /\ (Free(mac) \/ MacFires)
      BY <2>6 DEF PcsFires
    <2>8. QED
      BY <1>1, <1>3, <2>1, <2>2, <2>3, <2>4, <2>7
  <1>4. CASE ~Picks /\ Free(pcs)
    <2>1. PcsLoaded = pcs
      BY <1>4 DEF PcsLoaded
    <2>2. ~PcsFires
      BY <1>4, <2>1 DEF PcsFires, Finished, Worked, Available
    <2>3. QED
      BY <1>1, <1>4, <2>1, <2>2
  <1>5. CASE ~Picks /\ ~Free(pcs)
    <2>1. PcsLoaded = pcs
      BY <1>5 DEF PcsLoaded
    <2>2. pcs.msg = PastMac /\ pcs.avail <= cycle /\ pcs.left \in 0 .. 8
      BY <1>1, <1>5 DEF InOrder, Timed, FrontEndTimes, Slot
    <2>3. nextMsg = PastMac + 1 /\ PastMac \in Ids
      BY <1>1, <1>2, <1>5 DEF Has, Ids
    <2>4. Finished(Worked(pcs)) <=> pcs.left \in 0 .. 1
      BY <1>1, <1>5, <2>2 DEF Finished, Worked, Available, Free, Slot
    <2>5. PcsFires <=> pcs.left \in 0 .. 1 /\ (Free(mac) \/ MacFires)
      BY <2>1, <2>4 DEF PcsFires
    <2>6. QED
      BY <1>1, <1>5, <2>1, <2>2, <2>3, <2>5
  <1>6. Picks => Free(pcs)
    BY DEF Picks
  <1>7. QED
    BY <1>3, <1>4, <1>5, <1>6

\* The PCS picks a message, receives a block of it, or hands it on.
LEMMA PcsMoves ==
  ASSUME Typed, PipeTypeOK, NEW F \in [Ids -> Int], Timed(F), edge = "pos", PcsStep
  PROVE  /\ pcs' \in Slot
         /\ nextMsg' = nextMsg + (IF Picks THEN 1 ELSE 0)
         /\ PcsFires => Free(pcs)' /\ ipgValid' = TRUE
         /\ ~PcsFires => (Free(pcs)' <=> Free(PcsLoaded)) /\ ipgValid' = ipgValid
         /\ ~PcsFires /\ ~Free(PcsLoaded) =>
              pcs' = [PcsLoaded EXCEPT !.left = IF @ > 0 THEN @ - 1 ELSE @]
  <1>1. PcsLoaded \in Slot /\ cycle \in Nat /\ nextMsg \in Nat
    BY WireFacts, Chain DEF Typed, Timed
  <1>2. nextMsg' = nextMsg + (IF Picks THEN 1 ELSE 0)
    BY <1>1 DEF PcsStep
  <1>3. CASE PcsFires
    <2>0. IpgOk(MacIpgIdleBytes) = TRUE
      BY DEF IpgOk, MacIpgIdleBytes, MinimumIpgBytes
    <2>1. pcs' = Emptied(Worked(PcsLoaded)) /\ ipgValid' = TRUE
      BY <1>3, <2>0 DEF PcsStep
    <2>2. pcs' \in Slot /\ pcs'.msg = NoMsg
      BY <1>1, <2>1 DEF Emptied, Worked, Slot, NoMsg
    <2>3. QED
      BY <1>2, <1>3, <2>1, <2>2 DEF Free
  <1>4. CASE ~PcsFires
    <2>1. pcs' = Worked(PcsLoaded) /\ ipgValid' = ipgValid
      BY <1>4 DEF PcsStep
    <2>2. CASE Free(PcsLoaded)
      <3>1. pcs' = PcsLoaded
        BY <2>1, <2>2 DEF Worked, Available
      <3>2. QED
        BY <1>1, <1>2, <1>4, <2>1, <2>2, <3>1 DEF Free
    <2>3. CASE ~Free(PcsLoaded)
      <3>1. PcsLoaded.avail <= cycle /\ PcsLoaded.left \in 0 .. 8
        BY <2>3, WireFacts
      <3>2. pcs' = [PcsLoaded EXCEPT !.left = IF @ > 0 THEN @ - 1 ELSE @]
        BY <1>1, <2>1, <2>3, <3>1 DEF Worked, Available, Slot
      <3>3. pcs' \in Slot /\ pcs'.msg = PcsLoaded.msg
        BY <1>1, <3>1, <3>2 DEF Slot
      <3>4. QED
        BY <1>2, <1>4, <2>1, <2>3, <3>2, <3>3 DEF Free
    <2>4. QED
      BY <2>2, <2>3
  <1>5. QED
    BY <1>3, <1>4

\* The MAC takes the message from the PCS, hands its own on, or works on it.
LEMMA MacMoves ==
  ASSUME Typed, PipeTypeOK, NEW F \in [Ids -> Int], Timed(F), edge = "pos", MacStep
  PROVE  /\ mac' \in Slot
         /\ PcsFires => mac' = Load(PastMac, cycle + 1, Beats(Message(PastMac).length))
         /\ PcsFires => ~Free(mac)'
         /\ ~PcsFires => (Free(mac)' <=> Free(mac) \/ MacFires)
         /\ ~PcsFires /\ ~Free(mac) /\ ~MacFires =>
              mac' = [mac EXCEPT !.left = IF @ > 0 THEN @ - 1 ELSE @]
  <1>1. mac \in Slot /\ cycle \in Nat /\ PastMac \in Nat /\ Now = cycle
    BY Chain DEF Typed, Timed, Now
  <1>2. CASE PcsFires
    <2>1. PcsLoaded.msg = PastMac /\ PastMac \in Ids
      BY <1>2, WireFacts
    <2>2. mac' = Load(PastMac, cycle + 1, Beats(Message(PastMac).length))
      BY <1>2, <2>1 DEF MacStep
    <2>3. Beats(Message(PastMac).length) \in Int
      <3>1. Message(PastMac).length \in 1 .. 255
        BY <2>1, StreamFacts DEF Typed
      <3>2. QED
        BY <3>1, LengthFacts
    <2>4. mac' \in Slot /\ mac'.msg # NoMsg
      BY <1>1, <2>2, <2>3 DEF Load, Slot, NoMsg
    <2>5. QED
      BY <1>2, <2>2, <2>4 DEF Free
  <1>3. CASE ~PcsFires /\ MacFires
    <2>1. mac' = Emptied(Worked(mac))
      BY <1>3 DEF MacStep
    <2>2. mac' \in Slot /\ mac'.msg = NoMsg
      BY <1>1, <2>1 DEF Emptied, Worked, Slot, NoMsg
    <2>3. QED
      BY <1>3, <2>2 DEF Free
  <1>4. CASE ~PcsFires /\ ~MacFires
    <2>1. mac' = Worked(mac)
      BY <1>4 DEF MacStep
    <2>2. CASE Free(mac)
      <3>1. mac' = mac
        BY <2>1, <2>2 DEF Worked, Available
      <3>2. QED
        BY <1>1, <1>4, <2>2, <3>1 DEF Free
    <2>3. CASE ~Free(mac)
      <3>1. mac.avail <= cycle
        BY <1>1, <2>3 DEF Timed, FrontEndTimes
      <3>2. mac' = [mac EXCEPT !.left = IF @ > 0 THEN @ - 1 ELSE @]
        BY <1>1, <2>1, <2>3, <3>1 DEF Worked, Available, Slot
      <3>3. mac' \in Slot /\ mac'.msg = mac.msg
        BY <1>1, <3>2 DEF Slot
      <3>4. QED
        BY <1>4, <2>3, <3>2, <3>3 DEF Free
    <2>4. QED
      BY <2>2, <2>3
  <1>5. QED
    BY <1>2, <1>3, <1>4

------------------------------------------------------------------------------
(***************************************************************************)
(* A posedge preserves the invariant.                                      *)
(***************************************************************************)
Moves == /\ DmaStage /\ OfiIssueStage /\ BookStep /\ ReadBackStage /\ ParseStep /\ MacStep /\ PcsStep
         /\ AtPosedge /\ UNCHANGED stream

\* Behind the parser every message has moved one place on.
LEMMA PlacesBehind ==
  ASSUME BramLatency = 1, Typed, PipeTypeOK, NEW F \in [Ids -> Int], Timed(F), Moves
  PROVE  /\ completed' = PastDma /\ PastDma' = PastQueue /\ PastQueue' = PastQueue
         /\ PastOfi' = PastRegister /\ PastRegister' = PastRegister
         /\ PastRam' = PastRead /\ PastRead' = PastBook
  <1> USE DEF Moves, AtPosedge
  <1>0. /\ completed \in Nat /\ PastDma \in Nat /\ PastQueue \in Nat /\ PastOfi \in Nat
        /\ PastRegister \in Nat /\ PastRead \in Nat /\ PastBook \in Nat /\ PastRam \in Nat
        /\ InOrder
    BY Chain DEF Timed
  <1>1. completed' = PastDma
    BY DmaMoves
  <1>2. Has(dma)' = Len(dmaQ)
    BY <1>0, DmaMoves DEF Has, InOrder, AtMost
  <1>3. PastDma' = PastQueue
    BY <1>1, <1>2 DEF PastDma, PastQueue
  <1>4. PastQueue' = PastQueue
    BY <1>0, <1>3, DmaMoves DEF PastQueue
  <1>5. Len(ofiRing') = Len(ofiRing) + Has(ofiIn)
    <2>1. CASE Free(ofiIn)
      BY <1>0, <2>1, OfiMoves DEF Has, InOrder, AtMost
    <2>2. CASE ~Free(ofiIn)
      <3>1. ofiRing = <<>> /\ ofiRing' = <<PastOfi>>
        BY <2>2, OfiMoves, BackEndMoves
      <3>2. QED
        BY <2>2, <3>1 DEF Has
    <2>3. QED
      BY <2>1, <2>2
  <1>6. PastOfi' = PastRegister
    <2>1. Len(ofiRing) \in Nat /\ Has(ofiIn) \in Nat
      BY <1>0 DEF InOrder, AtMost, Has
    <2>2. QED
      BY <1>0, <1>4, <1>5, <2>1 DEF PastOfi, PastRegister
  <1>7. PastRegister' = PastRegister
    BY <1>0, <1>6, OfiMoves DEF PastRegister, Has
  <1>8. PastRam = PastRegister /\ Len(bramRing') = Has(rd)
    BY <1>0, RamMoves, BackEndMoves DEF PastRam, Has
  <1>9. PastRam' = PastRead
    BY <1>7, <1>8 DEF PastRam, PastRead
  <1>10. PastRead' = PastBook
    <2>1. Has(rd)' = Has(bookSlot)
      BY RamMoves DEF Has
    <2>2. QED
      BY <1>9, <2>1 DEF PastRead, PastBook
  <1>11. QED
    BY <1>1, <1>3, <1>4, <1>6, <1>7, <1>9, <1>10

\* Up to the parser a message moves when its stage fires.
LEMMA PlacesBefore ==
  ASSUME BramLatency = 1, Typed, PipeTypeOK, NEW F \in [Ids -> Int], Timed(F), Moves
  PROVE  /\ PastBook' = PastBook + (IF ParseFires THEN 1 ELSE 0)
         /\ PastParse' = PastParse + (IF MacFires THEN 1 ELSE 0)
         /\ PastMac' = PastMac + (IF PcsFires THEN 1 ELSE 0)
         /\ nextMsg' = PastMac' + Has(pcs)'
  <1> USE DEF Moves, AtPosedge
  <1>0. /\ PastBook \in Nat /\ PastParse \in Nat /\ PastMac \in Nat /\ nextMsg \in Nat
        /\ nextMsg = PastMac + Has(pcs)
    BY Chain DEF Timed, InOrder
  <1>1. PastBook' = PastBook + (IF ParseFires THEN 1 ELSE 0)
    BY PlacesBehind, BookMoves DEF PastBook, Has
  <1>2. PastParse' = PastParse + (IF MacFires THEN 1 ELSE 0)
    <2>1. /\ ParseFires => ~Free(parse)
          /\ MacFires => Free(parse) \/ ParseFires
      BY BackEndMoves, ParseMoves
    <2>2. (IF ParseFires THEN 1 ELSE 0) + Has(parse)' = Has(parse) + (IF MacFires THEN 1 ELSE 0)
      BY <2>1, ParseMoves DEF Has
    <2>3. Has(parse) \in Nat /\ Has(parse)' \in Nat
      BY DEF Has
    <2>4. QED
      BY <1>0, <1>1, <2>2, <2>3 DEF PastParse
  <1>3. PastMac' = PastMac + (IF PcsFires THEN 1 ELSE 0)
    <2>1. /\ MacFires => ~Free(mac)
          /\ PcsFires => Free(mac) \/ MacFires
      BY ParseMoves, WireFacts
    <2>2. (IF MacFires THEN 1 ELSE 0) + Has(mac)' = Has(mac) + (IF PcsFires THEN 1 ELSE 0)
      BY <2>1, MacMoves DEF Has
    <2>3. Has(mac) \in Nat /\ Has(mac)' \in Nat
      BY DEF Has
    <2>4. QED
      BY <1>0, <1>2, <2>2, <2>3 DEF PastMac
  <1>4. nextMsg' = PastMac' + Has(pcs)'
    <2>1. nextMsg' = nextMsg + (IF Picks THEN 1 ELSE 0)
      BY PcsMoves
    <2>2. CASE Free(PcsLoaded)
      <3>1. ~Picks /\ Free(pcs) /\ ~PcsFires /\ Free(pcs)'
        BY <2>2, WireFacts, PcsMoves
      <3>2. QED
        BY <1>0, <1>3, <2>1, <3>1 DEF Has
    <2>3. CASE ~Free(PcsLoaded)
      <3>1. nextMsg' = PastMac + 1
        BY <2>1, <2>3, WireFacts
      <3>2. Free(pcs)' <=> PcsFires
        BY <2>3, PcsMoves
      <3>3. QED
        BY <1>0, <1>3, <3>1, <3>2 DEF Has
    <2>4. QED
      BY <2>2, <2>3
  <1>5. QED
    BY <1>1, <1>2, <1>3, <1>4

\* The order of the messages is kept.
LEMMA PosedgeOrder ==
  ASSUME BramLatency = 1, Typed, PipeTypeOK, NEW F \in [Ids -> Int], Timed(F), Moves
  PROVE  InOrder'
  <1> USE DEF Moves, AtPosedge
  <1>0. /\ completed \in Nat /\ PastDma \in Nat /\ PastQueue \in Nat /\ PastOfi \in Nat
        /\ PastRegister \in Nat /\ PastRead \in Nat /\ PastBook \in Nat /\ PastRam \in Nat
        /\ PastParse \in Nat /\ PastMac \in Nat /\ InOrder
    BY Chain DEF Timed
  <1>1. nextMsg' = PastMac' + Has(pcs)'
    BY PlacesBefore
  <1>2. ~Free(dma)' => dma'.msg = completed'
    BY DmaMoves DEF Load
  <1>3. AtMost(dmaQ, PastDma)'
    BY DmaMoves DEF AtMost
  <1>4. AtMost(ofiRing, PastQueue)'
    <2>1. PastQueue' = PastQueue
      BY PlacesBehind
    <2>2. CASE Free(ofiIn)
      BY <1>0, <2>1, <2>2, OfiMoves DEF AtMost, InOrder
    <2>3. CASE ~Free(ofiIn)
      <3>1. ofiRing = <<>> /\ ofiRing' = <<PastOfi>>
        BY <2>3, OfiMoves, BackEndMoves
      <3>2. PastOfi = PastQueue
        BY <1>0, <3>1 DEF PastOfi
      <3>3. QED
        BY <2>1, <3>1, <3>2 DEF AtMost
    <2>4. QED
      BY <2>2, <2>3
  <1>5. Free(ofiIn)'
    BY OfiMoves
  <1>6. AtMost(bramRing, PastRegister)'
    <2>1. bramRing = <<>> /\ PastRegister' = PastRegister
      BY BackEndMoves, PlacesBehind
    <2>2. PastRam = PastRegister
      BY <1>0, <2>1 DEF PastRam
    <2>3. QED
      BY <2>1, <2>2, RamMoves DEF AtMost
  <1>7. ~Free(rd)' => rd'.msg = PastRam'
    BY RamMoves, PlacesBehind DEF Load
  <1>8. ~Free(bookSlot)' => bookSlot'.msg = PastRead'
    BY BookMoves, PlacesBehind DEF Load
  <1>9. ~Free(parse)' => parse'.msg = PastBook'
    <2>1. CASE MacFires
      <3>1. /\ parse' = Load(PastParse, cycle + 1, 2) /\ (Free(parse) \/ ParseFires)
            /\ (ParseFires => ~Free(parse)) /\ PastBook' = PastBook + (IF ParseFires THEN 1 ELSE 0)
        BY <2>1, ParseMoves, BackEndMoves, PlacesBefore
      <3>2. PastBook' = PastParse
        BY <1>0, <3>1 DEF PastParse, Has
      <3>3. QED
        BY <3>1, <3>2 DEF Load
    <2>2. CASE ~MacFires /\ ~Free(parse)'
      <3>1. ~Free(parse) /\ ~ParseFires /\ parse' = [parse EXCEPT !.left = 1] /\ parse \in Slot
        BY <2>2, ParseMoves DEF Typed
      <3>2. parse'.msg = PastBook
        BY <1>0, <3>1 DEF InOrder, Slot
      <3>3. QED
        BY <1>0, <3>1, <3>2, PlacesBefore
    <2>3. QED
      BY <2>1, <2>2
  <1>10. ~Free(mac)' => mac'.msg = PastParse'
    <2>1. CASE PcsFires
      <3>1. /\ mac' = Load(PastMac, cycle + 1, Beats(Message(PastMac).length))
            /\ (Free(mac) \/ MacFires) /\ (MacFires => ~Free(mac))
            /\ PastParse' = PastParse + (IF MacFires THEN 1 ELSE 0)
        BY <2>1, MacMoves, WireFacts, ParseMoves, PlacesBefore
      <3>2. PastParse' = PastMac
        BY <1>0, <3>1 DEF PastMac, Has
      <3>3. QED
        BY <3>1, <3>2 DEF Load
    <2>2. CASE ~PcsFires /\ ~Free(mac)'
      <3>1. /\ ~Free(mac) /\ ~MacFires /\ mac \in Slot
            /\ mac' = [mac EXCEPT !.left = IF @ > 0 THEN @ - 1 ELSE @]
        BY <2>2, MacMoves DEF Typed
      <3>2. mac'.msg = PastParse
        BY <1>0, <3>1 DEF InOrder, Slot
      <3>3. QED
        BY <1>0, <3>1, <3>2, PlacesBefore
    <2>3. QED
      BY <2>1, <2>2
  <1>11. ~Free(pcs)' => pcs'.msg = PastMac'
    <2> SUFFICES ASSUME ~Free(pcs)' PROVE pcs'.msg = PastMac'
      OBVIOUS
    <2>1. ~PcsFires /\ ~Free(PcsLoaded) /\ PcsLoaded \in Slot /\ PcsLoaded.msg = PastMac
      BY PcsMoves, WireFacts
    <2>2. pcs' = [PcsLoaded EXCEPT !.left = IF @ > 0 THEN @ - 1 ELSE @]
      BY <2>1, PcsMoves
    <2>3. pcs'.msg = PastMac
      BY <2>1, <2>2 DEF Slot
    <2>4. QED
      BY <1>0, <2>1, <2>3, PlacesBefore
  <1>12. QED
    BY <1>1, <1>2, <1>3, <1>4, <1>5, <1>6, <1>7, <1>8, <1>9, <1>10, <1>11 DEF InOrder

\* The types hold also after a posedge that raises an error.
LEMMA PosedgeTypes ==
  ASSUME BramLatency = 1, Typed, PipeTypeOK, NEW F \in [Ids -> Int], Timed(F), Posedge
  PROVE  Typed' /\ PipeTypeOK'
  <1>0. Moves /\ error' \in BOOLEAN /\ edge = "pos"
    BY DEF Posedge, Moves, AtPosedge
  <1>1. Count' = Count /\ Ids' = Ids /\ cycle' = cycle /\ cycle \in Nat
    BY <1>0 DEF Count, Ids, Moves, AtPosedge, Typed
  <1>2. InOrder' /\ InOrder
    BY <1>0, PosedgeOrder DEF Timed
  <1>3. /\ completed \in Nat /\ PastDma \in Nat /\ PastQueue \in Nat /\ PastOfi \in Nat
        /\ PastRegister \in Nat /\ PastRam \in Nat /\ PastRead \in Nat /\ PastBook \in Nat
        /\ PastParse \in Nat /\ PastMac \in Nat /\ nextMsg \in Nat /\ Count \in Nat
        /\ completed <= PastDma /\ PastDma <= PastQueue /\ PastQueue <= PastOfi
        /\ PastOfi <= PastRegister /\ PastRegister <= PastRam /\ PastRam <= PastRead
        /\ PastRead <= PastBook /\ PastBook <= PastParse /\ PastParse <= PastMac
        /\ PastMac <= nextMsg /\ nextMsg <= Count
    BY <1>2, Chain
  <1>4. PICK n \in Nat : /\ nextMsg' = n /\ nextMsg <= n /\ n <= Count
                         /\ completed' = PastDma
                         /\ PcsFires => PastMac < n
    <2>1. nextMsg' = nextMsg + (IF Picks THEN 1 ELSE 0)
      BY <1>0, PcsMoves DEF Moves, AtPosedge
    <2>2. Picks => nextMsg < Count
      BY DEF Picks
    <2>3. completed' = PastDma
      BY <1>0, PlacesBehind
    <2>4. PcsFires => nextMsg + (IF Picks THEN 1 ELSE 0) = PastMac + 1
      BY <1>0, WireFacts DEF Moves, AtPosedge
    <2>5. QED
      BY <1>3, <2>1, <2>2, <2>3, <2>4
  <1>5. Typed'
    <2> USE <1>0 DEF Moves, AtPosedge
    <2>1. pcs' \in Slot /\ mac' \in Slot /\ parse' \in Slot /\ bookSlot' \in Slot
          /\ rd' \in Slot /\ ofiIn' \in Slot /\ dma' \in Slot
      BY PcsMoves, MacMoves, ParseMoves, BookMoves, RamMoves, OfiMoves, DmaMoves
    <2>0. <<>> \in Seq(Int) /\ \A x \in Nat : <<x>> \in Seq(Int)
      OBVIOUS
    <2>2. bramRing' \in Seq(Int) /\ dmaQ' \in Seq(Int)
      BY <1>3, <2>0, RamMoves, DmaMoves
    <2>3. ofiRing' \in Seq(Int)
      BY <1>3, <2>0, OfiMoves DEF Typed
    <2>4. latency' \in [Ids -> Int]
      <3>1. ~Free(dma) => completed \in Ids
        BY <1>3 DEF PastDma, Has, Ids
      <3>2. ~Free(dma) => Arrival(completed) \in Nat
        BY <3>1, StreamFacts DEF Typed
      <3>3. QED
        BY <1>1, <3>1, <3>2, DmaMoves DEF Typed
    <2>5. \A k \in OfiStage : ofiPipe'[k].valid \in BOOLEAN
      BY OfiMoves
    <2>6. ipgValid' \in BOOLEAN
      BY PcsMoves DEF Typed
    <2>7. stream' \in Streams /\ edge' \in {"pos", "neg"}
      BY DEF Typed
    <2>8. QED
      BY <1>1, <2>1, <2>2, <2>3, <2>4, <2>5, <2>6, <2>7 DEF Typed
  <1>6. \A x \in Nat : x < n => x \in 0 .. nextMsg' - 1
    BY <1>4
  <1>7. /\ SlotOK(dma, DmaPostCycles)' /\ SlotOK(rd, 1)' /\ SlotOK(ofiIn, 0)'
        /\ SlotOK(bookSlot, BookCycles)'
    <2> USE <1>0 DEF Moves, AtPosedge
    <2>1. SlotOK(dma, DmaPostCycles)'
      <3> SUFFICES ASSUME ~Free(dma)' PROVE SlotOK(dma, DmaPostCycles)'
        BY DEF SlotOK
      <3>1. dmaQ # <<>> /\ dma' = Load(PastDma, cycle, 1)
        BY DmaMoves
      <3>2. Len(dmaQ) = 1
        BY <1>2, <3>1 DEF InOrder, AtMost
      <3>3. PastDma < n
        BY <1>3, <1>4, <3>2 DEF PastQueue
      <3>4. QED
        BY <1>1, <1>3, <1>6, <3>1, <3>3 DEF SlotOK, Load, DmaPostCycles
    <2>2. SlotOK(rd, 1)'
      <3> SUFFICES ASSUME ~Free(rd)' PROVE SlotOK(rd, 1)'
        BY DEF SlotOK
      <3>1. ~Free(bookSlot) /\ rd' = Load(PastRead, cycle + 1, 1)
        BY RamMoves
      <3>2. PastRead < n
        BY <1>3, <1>4, <3>1 DEF PastBook, Has
      <3>3. QED
        BY <1>1, <1>3, <1>6, <3>1, <3>2 DEF SlotOK, Load
    <2>3. SlotOK(bookSlot, BookCycles)'
      <3> SUFFICES ASSUME ~Free(bookSlot)' PROVE SlotOK(bookSlot, BookCycles)'
        BY DEF SlotOK
      <3>1. ParseFires /\ bookSlot' = Load(PastBook, cycle + 1, 1) /\ ~Free(parse)
        BY BookMoves, BackEndMoves
      <3>2. PastBook < n
        BY <1>3, <1>4, <3>1 DEF PastParse, Has
      <3>3. QED
        BY <1>1, <1>3, <1>6, <3>1, <3>2 DEF SlotOK, Load, BookCycles
    <2>4. SlotOK(ofiIn, 0)'
      BY OfiMoves DEF SlotOK
    <2>5. QED
      BY <2>1, <2>2, <2>3, <2>4
  <1>8. SlotOK(parse, ParserCycles)'
    <2> USE <1>0 DEF Moves, AtPosedge
    <2> SUFFICES ASSUME ~Free(parse)' PROVE SlotOK(parse, ParserCycles)'
      BY DEF SlotOK
    <2>1. CASE MacFires
      <3>1. parse' = Load(PastParse, cycle + 1, 2) /\ ~Free(mac)
        BY <2>1, ParseMoves
      <3>2. PastParse < n
        BY <1>3, <1>4, <3>1 DEF PastMac, Has
      <3>3. QED
        BY <1>1, <1>3, <1>6, <3>1, <3>2 DEF SlotOK, Load, ParserCycles
    <2>2. CASE ~MacFires
      <3>1. ~Free(parse) /\ parse' = [parse EXCEPT !.left = 1] /\ parse \in Slot
        BY <2>2, ParseMoves DEF Typed
      <3>2. parse.msg \in 0 .. nextMsg - 1 /\ parse.avail \in 0 .. cycle + 1
        BY <3>1 DEF PipeTypeOK, SlotOK
      <3>3. parse'.msg = parse.msg /\ parse'.avail = parse.avail /\ parse'.left = 1
        BY <3>1 DEF Slot
      <3>4. QED
        BY <1>1, <1>3, <1>4, <3>2, <3>3 DEF SlotOK, ParserCycles
    <2>3. QED
      BY <2>1, <2>2
  <1>9. SlotOK(mac, Beats(255))'
    <2> USE <1>0 DEF Moves, AtPosedge
    <2>0. Beats(255) = 4
      BY DEF Beats, BeatBytes
    <2> SUFFICES ASSUME ~Free(mac)' PROVE SlotOK(mac, 4)'
      BY <2>0 DEF SlotOK
    <2>1. CASE PcsFires
      <3>1. /\ mac' = Load(PastMac, cycle + 1, Beats(Message(PastMac).length))
            /\ PastMac \in Ids
        BY <2>1, MacMoves, WireFacts
      <3>2. Message(PastMac).length \in 1 .. 255
        BY <3>1, StreamFacts DEF Typed
      <3>3. Beats(Message(PastMac).length) \in 0 .. 4
        BY <3>2, LengthFacts
      <3>4. QED
        BY <1>1, <1>3, <1>4, <1>6, <2>1, <3>1, <3>3 DEF SlotOK, Load
    <2>2. CASE ~PcsFires
      <3>1. /\ ~Free(mac) /\ mac' = [mac EXCEPT !.left = IF @ > 0 THEN @ - 1 ELSE @]
            /\ mac \in Slot
        BY <2>2, MacMoves DEF Typed
      <3>2. mac.msg \in 0 .. nextMsg - 1 /\ mac.avail \in 0 .. cycle + 1 /\ mac.left \in 0 .. 4
        BY <2>0, <3>1 DEF PipeTypeOK, SlotOK
      <3>3. mac'.msg = mac.msg /\ mac'.avail = mac.avail /\ mac'.left \in 0 .. 4
        BY <3>1, <3>2 DEF Slot
      <3>4. QED
        BY <1>1, <1>3, <1>4, <3>2, <3>3 DEF SlotOK
    <2>3. QED
      BY <2>1, <2>2
  <1>10. SlotOK(pcs, 8)'
    <2> USE <1>0 DEF Moves, AtPosedge
    <2> SUFFICES ASSUME ~Free(pcs)' PROVE SlotOK(pcs, 8)'
      BY DEF SlotOK
    <2>1. /\ ~Free(PcsLoaded) /\ PcsLoaded \in Slot /\ PcsLoaded.msg = PastMac
          /\ PcsLoaded.left \in 0 .. 8 /\ PcsLoaded.avail <= cycle
          /\ pcs' = [PcsLoaded EXCEPT !.left = IF @ > 0 THEN @ - 1 ELSE @]
      BY PcsMoves, WireFacts
    <2>5. nextMsg' = PastMac + 1
      BY <2>1, PcsMoves, WireFacts
    <2>2. PcsLoaded.avail \in 0 .. cycle + 1
      <3>1. CASE Picks
        BY <1>1, <3>1, WireFacts DEF Load
      <3>2. CASE ~Picks
        BY <2>1, <3>2, WireFacts DEF PipeTypeOK, SlotOK
      <3>3. QED
        BY <3>1, <3>2
    <2>3. pcs'.msg = PastMac /\ pcs'.avail = PcsLoaded.avail /\ pcs'.left \in 0 .. 8
      BY <2>1 DEF Slot
    <2>4. QED
      BY <1>1, <1>3, <2>2, <2>3, <2>5 DEF SlotOK
  <1>11. /\ \A r \in {bramRing', ofiRing', dmaQ'} : \A k \in DOMAIN r : r[k] \in 0 .. nextMsg' - 1
         /\ Len(bramRing') <= RingDepth /\ Len(ofiRing') <= RingDepth
         /\ Len(dmaQ') <= DmaQueueDepth
    <2> USE <1>0 DEF Moves, AtPosedge
    <2>1. bramRing' = <<>> \/ (bramRing' = <<PastRam>> /\ PastRam < n)
      <3>1. CASE Free(rd)
        BY <3>1, RamMoves
      <3>2. CASE ~Free(rd)
        <4>1. PastRam < PastRead
          BY <1>3, <3>2 DEF PastRead, Has
        <4>2. QED
          BY <1>3, <1>4, <3>2, <4>1, RamMoves
      <3>3. QED
        BY <3>1, <3>2
    <2>2. dmaQ' = <<>>
      BY DmaMoves
    <2>3. ofiRing' = <<>> \/ (ofiRing' = <<PastQueue>> /\ PastQueue < n)
      <3>1. AtMost(ofiRing', PastQueue)
        BY <1>2, PlacesBehind DEF InOrder
      <3>2. ofiRing' # <<>> => PastQueue < PastRegister
        <4> SUFFICES ASSUME ofiRing' = <<PastQueue>> PROVE PastQueue < PastRegister
          BY <3>1 DEF AtMost
        <4>1. PastOfi' = PastRegister /\ PastQueue' = PastQueue
          BY PlacesBehind
        <4>2. PastOfi' = PastQueue + 1
          BY <4>1 DEF PastOfi
        <4>3. QED
          BY <1>3, <4>1, <4>2
      <3>3. QED
        BY <1>3, <1>4, <3>1, <3>2 DEF AtMost
    <2>4. RingDepth \in Nat /\ RingDepth > 0 /\ DmaQueueDepth \in Nat /\ DmaQueueDepth > 0
      BY PipelineAssumption
    <2>5. ASSUME NEW r, NEW x \in Nat, r = <<>> \/ (r = <<x>> /\ x < n)
          PROVE  /\ \A k \in DOMAIN r : r[k] \in 0 .. nextMsg' - 1
                 /\ Len(r) <= RingDepth /\ Len(r) <= DmaQueueDepth
      <3>1. CASE r = <<>>
        BY <2>4, <3>1
      <3>2. CASE r = <<x>> /\ x < n
        <4>1. \A k \in DOMAIN r : r[k] = x
          BY <3>2
        <4>2. x \in 0 .. nextMsg' - 1
          BY <1>6, <3>2
        <4>3. QED
          BY <2>4, <3>2, <4>1, <4>2
      <3>3. QED
        BY <2>5, <3>1, <3>2
    <2>6. /\ \A k \in DOMAIN bramRing' : bramRing'[k] \in 0 .. nextMsg' - 1
          /\ Len(bramRing') <= RingDepth
      BY <1>3, <2>1, <2>5
    <2>7. /\ \A k \in DOMAIN ofiRing' : ofiRing'[k] \in 0 .. nextMsg' - 1
          /\ Len(ofiRing') <= RingDepth
      BY <1>3, <2>3, <2>5
    <2>8. /\ \A k \in DOMAIN dmaQ' : dmaQ'[k] \in 0 .. nextMsg' - 1
          /\ Len(dmaQ') <= DmaQueueDepth
      BY <2>2, <2>5
    <2>9. QED
      BY <2>6, <2>7, <2>8
  <1>12. PipeTypeOK'
    BY <1>0, <1>1, <1>3, <1>4, <1>7, <1>8, <1>9, <1>10, <1>11 DEF PipeTypeOK
  <1>13. QED
    BY <1>5, <1>12

\* The times after a posedge: the message that left the wire in it is added.
Received(F) == IF PcsFires THEN [F EXCEPT ![PastMac] = cycle] ELSE F

\* Received changes nothing about the messages that had left the wire before.
LEMMA ReceivedFacts ==
  ASSUME Typed, PipeTypeOK, NEW F \in [Ids -> Int], Timed(F), edge = "pos"
  PROVE  /\ Received(F) \in [Ids -> Int]
         /\ \A i \in Nat : i < PastMac => i \in Ids /\ Received(F)[i] = F[i] /\ F[i] \in Int
         /\ PcsFires => PastMac \in Ids /\ Received(F)[PastMac] = cycle
  <1>1. PcsFires => PastMac \in Ids
    BY WireFacts
  <1>2. PastMac \in Nat /\ Count \in Nat /\ PastMac <= Count /\ cycle \in Nat
    BY Chain DEF Timed, Typed
  <1>3. \A i \in Nat : i < PastMac => i \in Ids
    BY <1>2 DEF Ids
  <1>4. QED
    BY <1>1, <1>2, <1>3 DEF Received

\* A posedge without an error keeps the times behind the parser: every stage has
\* passed its message on and one cycle has gone by.
LEMMA PosedgeBackEnd ==
  ASSUME BramLatency = 1, Typed, PipeTypeOK, NEW F \in [Ids -> Int], Timed(F),
         Posedge, ~error', NEW G, G = Received(F)
  PROVE  PostedTimes(G)' /\ BackEndTimes(G)'
  <1>0. /\ Moves /\ edge = "pos" /\ edge' = "neg" /\ cycle \in Nat /\ Now = cycle
        /\ Now' = cycle + 1 /\ stream' = stream /\ InOrder
    BY DEF Posedge, Moves, AtPosedge, Now, Typed, Timed
  <1>1. /\ completed \in Nat /\ PastDma \in Nat /\ PastQueue \in Nat /\ PastOfi \in Nat
        /\ PastRegister \in Nat /\ PastRam \in Nat /\ PastRead \in Nat /\ PastBook \in Nat
        /\ PastParse \in Nat /\ PastMac \in Nat
        /\ completed <= PastDma /\ PastDma <= PastQueue /\ PastQueue <= PastOfi
        /\ PastOfi <= PastRegister /\ PastRegister <= PastRam /\ PastRam <= PastRead
        /\ PastRead <= PastBook /\ PastBook <= PastParse /\ PastParse <= PastMac
    BY <1>0, Chain
  <1>2. /\ completed' = PastDma /\ PastDma' = PastQueue /\ PastQueue' = PastQueue
        /\ PastOfi' = PastRegister /\ PastRegister' = PastRegister
        /\ PastRam' = PastRead /\ PastRead' = PastBook
    BY <1>0, PlacesBehind
  <1>3. \A i \in Nat : i < PastMac => i \in Ids /\ G[i] = F[i] /\ F[i] \in Int
    BY <1>0, ReceivedFacts
  <1>4. PostedTimes(G)'
    <2> SUFFICES ASSUME NEW i \in 0 .. PastDma - 1
                 PROVE  /\ G[i] <= cycle + 1 - 11
                        /\ latency'[i] = G[i] - Arrival(i) + 11
      BY <1>0, <1>2 DEF PostedTimes, Arrival, Message
    <2>0. PastDma <= PastMac /\ i \in Nat /\ i < PastMac
      BY <1>1
    <2>1. i \in Ids /\ G[i] = F[i] /\ F[i] \in Int /\ Arrival(i) \in Nat /\ latency \in [Ids -> Int]
      BY <1>3, <2>0, StreamFacts DEF Typed
    <2>2. latency' = IF Free(dma) THEN latency
                     ELSE [latency EXCEPT ![completed] = cycle - Arrival(completed) + 1]
      BY <1>0, DmaMoves DEF Moves
    <2>3. CASE i < completed
      <3>1. F[i] <= cycle - 11 /\ latency[i] = F[i] - Arrival(i) + 11
        BY <1>0, <1>1, <2>0, <2>3 DEF Timed, PostedTimes
      <3>2. latency'[i] = latency[i]
        BY <2>1, <2>2, <2>3
      <3>3. QED
        BY <1>0, <2>1, <3>1, <3>2
    <2>4. CASE ~(i < completed)
      <3>1. i = completed /\ ~Free(dma)
        BY <1>1, <2>0, <2>4 DEF PastDma, Has
      <3>2. F[i] = cycle - 10
        BY <1>0, <3>1 DEF Timed, BackEndTimes
      <3>3. latency'[i] = cycle - Arrival(i) + 1
        BY <2>1, <2>2, <3>1
      <3>4. QED
        BY <1>0, <2>1, <3>2, <3>3
    <2>5. QED
      BY <2>3, <2>4
  <1>5. ~Free(dma)' => dma'.left = 1 /\ dma'.avail <= Now' /\ G[completed'] = Now' - 10
    <2> SUFFICES ASSUME ~Free(dma)'
                 PROVE  dma'.left = 1 /\ dma'.avail <= cycle + 1 /\ G[PastDma] = cycle + 1 - 10
      BY <1>0, <1>2
    <2>1. dmaQ # <<>> /\ dma' = Load(PastDma, cycle, 1)
      BY <1>0, DmaMoves DEF Moves
    <2>2. Len(dmaQ) = 1
      BY <1>0, <2>1 DEF InOrder, AtMost
    <2>3. PastDma < PastMac
      BY <1>1, <2>2 DEF PastQueue
    <2>4. G[PastDma] = cycle - 9
      BY <1>0, <1>1, <1>3, <2>1, <2>3 DEF Timed, BackEndTimes
    <2>5. QED
      BY <1>0, <2>1, <2>4 DEF Load
  <1>6. dmaQ' = <<>>
    BY <1>0, DmaMoves DEF Moves
  <1>7. ofiRing' # <<>> => G[PastQueue'] \in Now' - 9 .. Now' - 7
    <2> SUFFICES ASSUME ofiRing' # <<>> PROVE G[PastQueue] \in cycle + 1 - 9 .. cycle + 1 - 7
      BY <1>0, <1>2
    <2>1. ofiRing' = IF Free(ofiIn) THEN ofiRing ELSE <<PastOfi>>
      BY <1>0, OfiMoves DEF Moves
    <2>2. CASE Free(ofiIn)
      <3>1. F[PastQueue] \in cycle - 8 .. cycle - 7
        BY <1>0, <2>1, <2>2 DEF Timed, BackEndTimes
      <3>2. Len(ofiRing) = 1
        BY <1>0, <2>1, <2>2 DEF InOrder, AtMost
      <3>3. PastQueue < PastMac
        BY <1>1, <3>2 DEF PastOfi
      <3>4. QED
        BY <1>0, <1>1, <1>3, <3>1, <3>3
    <2>3. CASE ~Free(ofiIn)
      <3>1. ofiRing = <<>> /\ F[PastOfi] = cycle - 6
        BY <1>0, <2>3, BackEndMoves DEF Timed, BackEndTimes
      <3>2. PastOfi = PastQueue /\ PastOfi < PastMac
        BY <1>1, <2>3, <3>1 DEF PastOfi, PastRegister, Has
      <3>3. QED
        BY <1>0, <1>1, <1>3, <3>1, <3>2
    <2>4. QED
      BY <2>2, <2>3
  <1>8. Free(ofiIn)'
    BY <1>0, OfiMoves DEF Moves
  <1>9. bramRing' # <<>> => G[PastRegister'] = Now' - 6
    <2> SUFFICES ASSUME bramRing' # <<>> PROVE G[PastRegister] = cycle + 1 - 6
      BY <1>0, <1>2
    <2>1. ~Free(rd) /\ bramRing = <<>>
      BY <1>0, RamMoves, BackEndMoves DEF Moves
    <2>2. PastRam = PastRegister /\ PastRam < PastMac
      BY <1>1, <2>1 DEF PastRam, PastRead, Has
    <2>3. F[PastRam] = cycle - 5
      BY <1>0, <2>1 DEF Timed, BackEndTimes
    <2>4. QED
      BY <1>0, <1>1, <1>3, <2>2, <2>3
  <1>10. ~Free(rd)' => rd'.avail = Now' /\ G[PastRam'] = Now' - 5
    <2> SUFFICES ASSUME ~Free(rd)' PROVE rd'.avail = cycle + 1 /\ G[PastRead] = cycle + 1 - 5
      BY <1>0, <1>2
    <2>1. ~Free(bookSlot) /\ rd' = Load(PastRead, cycle + 1, 1)
      BY <1>0, RamMoves DEF Moves
    <2>2. PastRead < PastMac
      BY <1>1, <2>1 DEF PastBook, Has
    <2>3. F[PastRead] = cycle - 4
      BY <1>0, <2>1 DEF Timed, BackEndTimes
    <2>4. QED
      BY <1>0, <1>1, <1>3, <2>1, <2>2, <2>3 DEF Load
  <1>11. ~Free(bookSlot)' => /\ bookSlot'.avail = Now' /\ bookSlot'.left = 1
                             /\ G[PastRead'] = Now' - 4
    <2> SUFFICES ASSUME ~Free(bookSlot)'
                 PROVE  /\ bookSlot'.avail = cycle + 1 /\ bookSlot'.left = 1
                        /\ G[PastBook] = cycle + 1 - 4
      BY <1>0, <1>2
    <2>1. /\ ParseFires /\ bookSlot' = Load(PastBook, cycle + 1, 1)
          /\ ~Free(parse) /\ parse.left = 1
      BY <1>0, BookMoves, BackEndMoves DEF Moves
    <2>2. Fits(PastBook)
      <3>1. ~ParseFails(Message(parse.msg))
        BY <2>1 DEF Posedge, ContentFault
      <3>2. QED
        BY <1>0, <2>1, <3>1 DEF InOrder, Fits
    <2>3. PastBook < PastMac
      BY <1>1, <2>1 DEF PastParse, Has
    <2>4. F[PastBook] = cycle - 3
      BY <1>0, <2>1, <2>2 DEF Timed, FrontEndTimes
    <2>5. QED
      BY <1>0, <1>1, <1>3, <2>1, <2>3, <2>4 DEF Load
  <1>12. BackEndTimes(G)'
    BY <1>0, <1>5, <1>6, <1>7, <1>8, <1>9, <1>10, <1>11 DEF BackEndTimes
  <1>13. QED
    BY <1>4, <1>12

\* A posedge keeps the OFI unit and the RAM matched with their rings.
LEMMA PosedgeUnits ==
  ASSUME BramLatency = 1, Typed, PipeTypeOK, NEW F \in [Ids -> Int], Timed(F),
         Posedge, NEW G, G = Received(F)
  PROVE  UnitsMatch(G)'
  <1>0. /\ Moves /\ edge = "pos" /\ edge' = "neg" /\ cycle \in Nat /\ Now = cycle
        /\ Now' = cycle + 1 /\ InOrder
    BY DEF Posedge, Moves, AtPosedge, Now, Typed, Timed
  <1>1. /\ PastQueue \in Nat /\ PastOfi \in Nat /\ PastRegister \in Nat /\ PastMac \in Nat
        /\ PastQueue <= PastOfi /\ PastOfi <= PastRegister /\ PastRegister <= PastMac
    BY <1>0, Chain
  <1>2. /\ PastQueue' = PastQueue
        /\ \A i \in Nat : i < PastMac => G[i] = F[i] /\ F[i] \in Int
    BY <1>0, PlacesBehind, ReceivedFacts
  <1>3. /\ ofiRing' = IF Free(ofiIn) THEN ofiRing ELSE <<PastOfi>>
        /\ ofiPipe'[0].valid <=> ~Free(ofiIn)
        /\ ofiPipe'[1].valid <=> ofiPipe[0].valid
        /\ ofiPipe'[2].valid <=> ofiPipe[1].valid
    BY <1>0, OfiMoves DEF Moves
  <1>4. /\ ofiPipe[0].valid <=> ofiRing # <<>> /\ F[PastQueue] = cycle - 7
        /\ ofiPipe[1].valid <=> ofiRing # <<>> /\ F[PastQueue] = cycle - 8
    <2>1. \A k \in 0 .. 1 : ofiPipe[k].valid <=> ofiRing # <<>> /\ F[PastQueue] = cycle - 7 - k
      BY <1>0 DEF Timed, UnitsMatch
    <2>2. cycle - 7 - 0 = cycle - 7 /\ cycle - 7 - 1 = cycle - 8
      BY <1>0
    <2>3. QED
      BY <2>1, <2>2
  <1>5. /\ ofiPipe'[0].valid <=> ofiRing' # <<>> /\ G[PastQueue] = cycle - 6
        /\ ofiPipe'[1].valid <=> ofiRing' # <<>> /\ G[PastQueue] = cycle - 7
        /\ ofiPipe'[2].valid <=> ofiRing' # <<>> /\ G[PastQueue] = cycle - 8
    <2>1. CASE Free(ofiIn)
      <3>1. ofiRing # <<>> => PastQueue < PastMac /\ F[PastQueue] \in cycle - 8 .. cycle - 7
        <4> SUFFICES ASSUME ofiRing # <<>>
                     PROVE  PastQueue < PastMac /\ F[PastQueue] \in cycle - 8 .. cycle - 7
          OBVIOUS
        <4>1. Len(ofiRing) = 1
          BY <1>0 DEF InOrder, AtMost
        <4>2. PastQueue < PastMac
          BY <1>1, <4>1 DEF PastOfi
        <4>3. QED
          BY <1>0, <4>2 DEF Timed, BackEndTimes
      <3>2. ofiRing # <<>> => G[PastQueue] = F[PastQueue]
        BY <1>1, <1>2, <3>1
      <3>3. QED
        BY <1>0, <1>3, <1>4, <2>1, <3>1, <3>2
    <2>2. CASE ~Free(ofiIn)
      <3>1. ofiRing = <<>> /\ F[PastOfi] = cycle - 6
        BY <1>0, <2>2, BackEndMoves DEF Timed, BackEndTimes
      <3>2. PastOfi = PastQueue /\ PastOfi < PastMac
        BY <1>1, <2>2, <3>1 DEF PastOfi, PastRegister, Has
      <3>3. G[PastQueue] = cycle - 6
        BY <1>1, <1>2, <3>1, <3>2
      <3>4. ofiRing' # <<>>
        BY <1>3, <2>2
      <3>5. QED
        BY <1>0, <1>3, <1>4, <2>2, <3>1, <3>3, <3>4
    <2>3. QED
      BY <2>1, <2>2
  <1>6. \A k \in 0 .. 2 : ofiPipe'[k].valid <=> ofiRing' # <<>> /\ G[PastQueue] = cycle + 1 - 7 - k
    <2>1. cycle + 1 - 7 - 0 = cycle - 6 /\ cycle + 1 - 7 - 1 = cycle - 7
          /\ cycle + 1 - 7 - 2 = cycle - 8
      BY <1>0
    <2>2. \A k \in 0 .. 2 : k = 0 \/ k = 1 \/ k = 2
      OBVIOUS
    <2>3. QED
      BY <1>5, <2>1, <2>2
  <1>7. /\ pending'[0].b.read <=> bramRing' # <<>>
        /\ pending'[0].b.read => pending'[0].b.address \in Address
    <2>1. /\ bramRing' = IF Free(rd) THEN <<>> ELSE <<PastRam>>
          /\ pending'[0].b.read <=> ~Free(rd)
          /\ pending'[0].b.read => pending'[0].b.address \in Address
      BY <1>0, RamMoves DEF Moves
    <2>2. <<PastRam>> # <<>>
      OBVIOUS
    <2>3. QED
      BY <2>1, <2>2
  <1>8. \A k \in 0 .. (IF edge' = "pos" THEN 1 ELSE 2) :
          ofiPipe'[k].valid <=> ofiRing' # <<>> /\ G[PastQueue'] = Now' - 7 - k
    <2>1. (IF edge' = "pos" THEN 1 ELSE 2) = 2
      BY <1>0
    <2>2. QED
      BY <1>0, <1>2, <1>6, <2>1
  <1>9. QED
    BY <1>7, <1>8 DEF UnitsMatch

\* A message with the length of its type waits at most for one without.
LEMMA MacReady ==
  ASSUME Typed, PipeTypeOK, NEW F \in [Ids -> Int], Timed(F), edge = "pos",
         ~Free(mac), Fits(PastParse), Free(parse) \/ Fits(PastBook)
  PROVE  MacFires
  <1>0. /\ InOrder /\ FrontEndTimes(F) /\ mac \in Slot /\ cycle \in Nat /\ Now = cycle
        /\ PastBook \in Nat /\ PastParse \in Nat /\ PastMac \in Nat
        /\ PastParse <= PastMac
    BY Chain DEF Timed, Typed, Now
  <1>1. mac.avail = cycle /\ mac.left = 1 /\ F[PastParse] = cycle - 1
    BY <1>0 DEF FrontEndTimes
  <1>2. Finished(Worked(mac))
    <2>1. Worked(mac) = [mac EXCEPT !.left = 0] /\ ~Free(Worked(mac))
      BY <1>0, <1>1 DEF Worked, Available, Slot, Free
    <2>2. QED
      BY <1>0, <1>1, <2>1 DEF Finished, Available, Slot
  <1>3. Free(parse) \/ ParseFires
    <2> SUFFICES ASSUME ~Free(parse), ~ParseFires PROVE FALSE
      OBVIOUS
    <2>1. parse.left \in 1 .. 2 /\ parse.left # 1 /\ parse.avail = cycle - 2 + parse.left
          /\ F[PastBook] = parse.avail - 2
      BY <1>0, BackEndMoves DEF FrontEndTimes
    <2>2. F[PastBook] = cycle - 2
      BY <1>0, <2>1
    <2>3. PastParse = PastBook + 1 /\ PastMac = PastParse + 1
      BY <1>0 DEF PastParse, PastMac, Has
    <2>4. \A j \in 0 .. PastParse : Fits(j)
      <3> SUFFICES ASSUME NEW j \in 0 .. PastParse PROVE Fits(j)
        OBVIOUS
      <3>1. j \in 0 .. PastBook - 1 \/ j = PastBook \/ j = PastParse
        BY <1>0, <2>3
      <3>2. QED
        BY <1>0, <3>1 DEF FrontEndTimes
    <2>5. PastParse \in 1 .. PastMac - 1 /\ PastParse - 1 = PastBook
      BY <1>0, <2>3
    <2>6. F[PastParse] >= F[PastBook] + 4
      BY <1>0, <2>4, <2>5, Spacing
    <2>7. QED
      BY <1>0, <1>1, <2>2, <2>6
  <1>4. QED
    BY <1>2, <1>3 DEF MacFires

\* A posedge without an error keeps the times up to the parser.
LEMMA PosedgeFrontEnd ==
  ASSUME BramLatency = 1, Typed, PipeTypeOK, NEW F \in [Ids -> Int], Timed(F),
         Posedge, ~error', NEW G, G = Received(F)
  PROVE  FrontEndTimes(G)'
  <1>0. /\ Moves /\ edge = "pos" /\ edge' = "neg" /\ cycle \in Nat /\ Now = cycle
        /\ Now' = cycle + 1 /\ InOrder /\ FrontEndTimes(F) /\ stream \in Streams
    BY DEF Posedge, Moves, AtPosedge, Now, Typed, Timed
  <1>1. /\ Count' = Count
        /\ \A i : Fits(i)' <=> Fits(i)
        /\ \A i : Blocks(i)' = Blocks(i) /\ Arrival(i)' = Arrival(i)
    BY <1>0 DEF Moves, Count, Fits, Message, Blocks, Arrival
  <1>2. /\ PastBook \in Nat /\ PastParse \in Nat /\ PastMac \in Nat /\ nextMsg \in Nat
        /\ Count \in Nat
        /\ PastBook <= PastParse /\ PastParse <= PastMac /\ PastMac <= nextMsg /\ nextMsg <= Count
    BY <1>0, Chain
  <1>3. /\ PastBook' = PastBook + (IF ParseFires THEN 1 ELSE 0)
        /\ PastParse' = PastParse + (IF MacFires THEN 1 ELSE 0)
        /\ PastMac' = PastMac + (IF PcsFires THEN 1 ELSE 0)
    BY <1>0, PlacesBefore
  <1>4. /\ G \in [Ids -> Int]
        /\ \A i \in Nat : i < PastMac => i \in Ids /\ G[i] = F[i] /\ F[i] \in Int
        /\ PcsFires => PastMac \in Ids /\ G[PastMac] = cycle
    BY <1>0, ReceivedFacts
  <1>5. ParseFires => Fits(PastBook) /\ ~Free(parse) /\ parse.left = 1
    <2> SUFFICES ASSUME ParseFires PROVE Fits(PastBook) /\ ~Free(parse) /\ parse.left = 1
      OBVIOUS
    <2>1. ~ParseFails(Message(parse.msg))
      BY DEF Posedge, ContentFault
    <2>2. ~Free(parse) /\ parse.left = 1
      BY <1>0, BackEndMoves
    <2>3. QED
      BY <1>0, <2>1, <2>2 DEF InOrder, Fits
  <1>6. ~Free(PcsLoaded) => PastMac \in Ids /\ Blocks(PastMac) \in 1 .. 8
    <2> SUFFICES ASSUME ~Free(PcsLoaded) PROVE PastMac \in Ids /\ Blocks(PastMac) \in 1 .. 8
      OBVIOUS
    <2>1. PastMac \in Ids
      BY <1>0, WireFacts
    <2>2. Message(PastMac).length \in 1 .. 255
      BY <1>0, <2>1, StreamFacts
    <2>3. Blocks(PastMac) \in 0 .. 8
      BY <2>2, LengthFacts DEF Blocks
    <2>4. Blocks(PastMac) # 0
      <3>1. CASE Picks
        <4>1. nextMsg = PastMac
          BY <1>0, <3>1, WireFacts
        <4>2. BlockCount(Message(nextMsg).length) # 0
          BY <3>1 DEF Posedge, ContentFault
        <4>3. QED
          BY <4>1, <4>2 DEF Blocks
      <3>2. CASE ~Picks
        <4>1. ~Free(pcs)
          BY <1>0, <3>2, WireFacts
        <4>2. Blocks(PastMac) > 0
          BY <1>0, <4>1 DEF FrontEndTimes
        <4>3. QED
          BY <2>3, <4>2
      <3>3. QED
        BY <3>1, <3>2
    <2>5. QED
      BY <2>1, <2>3, <2>4
  <1>7. (\A j \in 0 .. PastMac - 1 : Fits(j)) => Free(mac) \/ MacFires
    <2> SUFFICES ASSUME \A j \in 0 .. PastMac - 1 : Fits(j), ~Free(mac) PROVE MacFires
      OBVIOUS
    <2>1. PastParse \in 0 .. PastMac - 1
      BY <1>2 DEF PastMac, Has
    <2>2. ~Free(parse) => PastBook \in 0 .. PastMac - 1
      BY <1>2 DEF PastParse, Has
    <2>3. QED
      BY <1>0, <2>1, <2>2, MacReady
  <1>8. \A i \in 0 .. PastBook' - 1 : Fits(i)'
    <2> DEFINE past == PastBook + (IF ParseFires THEN 1 ELSE 0)
    <2> SUFFICES ASSUME NEW i \in 0 .. past - 1 PROVE Fits(i)
      <3> HIDE DEF past
      <3>1. PastBook' = past
        BY <1>3 DEF past
      <3> QED BY <1>1, <3>1
    <2>1. i \in 0 .. PastBook - 1 \/ (i = PastBook /\ ParseFires)
      BY <1>2
    <2>2. QED
      BY <1>0, <1>5, <2>1 DEF FrontEndTimes
  <1>9. \A i \in 0 .. PastMac' - 1 :
          G[i] < Now' /\ ((\A j \in 0 .. i : Fits(j)') => OnTime(G, i)')
    <2> DEFINE past == PastMac + (IF PcsFires THEN 1 ELSE 0)
    <2> SUFFICES ASSUME NEW i \in 0 .. past - 1
                 PROVE  G[i] < cycle + 1 /\ ((\A j \in 0 .. i : Fits(j)) => OnTime(G, i)')
      <3> HIDE DEF past
      <3>1. PastMac' = past
        BY <1>3 DEF past
      <3> QED BY <1>0, <1>1, <3>1
    <2>1. CASE i < PastMac
      <3>1. i \in 0 .. PastMac - 1 /\ G[i] = F[i] /\ F[i] \in Int
        BY <1>2, <1>4, <2>1
      <3>2. F[i] < cycle /\ ((\A j \in 0 .. i : Fits(j)) => OnTime(F, i))
        BY <1>0, <3>1 DEF FrontEndTimes
      <3>3. i = 0 \/ (i - 1 \in Nat /\ i - 1 < PastMac)
        BY <1>2, <2>1
      <3>4. i = 0 \/ G[i - 1] = F[i - 1]
        BY <1>4, <3>3
      <3>5. OnTime(F, i) => OnTime(G, i)'
        BY <1>1, <3>1, <3>4 DEF OnTime, Start
      <3>6. QED
        BY <1>0, <3>1, <3>2, <3>5
    <2>2. CASE ~(i < PastMac)
      <3>1. i = PastMac /\ PcsFires /\ ~Free(PcsLoaded)
        BY <1>0, <1>2, <2>2, WireFacts
      <3>2. G[i] = cycle
        BY <1>4, <3>1
      <3>3. ASSUME \A j \in 0 .. i : Fits(j) PROVE OnTime(G, i)'
        <4>1. Fits(PastMac) /\ \A j \in 0 .. PastMac - 1 : Fits(j)
          BY <1>2, <3>1, <3>3
        <4>2. Blocks(PastMac) \in 4 .. 8 /\ Arrival(PastMac) \in Nat
          BY <1>0, <1>6, <3>1, <4>1, FittingFacts, StreamFacts
        <4>3. ~Picks
          <5> SUFFICES ASSUME Picks PROVE FALSE
            OBVIOUS
          <5>1. PcsLoaded.left = Blocks(PastMac) /\ PcsLoaded.left \in 0 .. 1
            BY <1>0, <3>1, WireFacts DEF Load
          <5>2. QED
            BY <4>2, <5>1
        <4>4. ~Free(pcs) /\ pcs.left \in 0 .. 1
          BY <1>0, <3>1, <4>3, WireFacts
        <4>5. /\ pcs.avail = Start(F, PastMac) /\ pcs.left > 0
              /\ pcs.left = Blocks(PastMac) - (cycle - pcs.avail)
          BY <1>0, <4>1, <4>4 DEF FrontEndTimes
        <4>6. PastMac = 0 \/ (PastMac - 1 \in Nat /\ PastMac - 1 < PastMac)
          BY <1>2
        <4>7. PastMac = 0 \/ (G[PastMac - 1] = F[PastMac - 1] /\ F[PastMac - 1] \in Int)
          BY <1>4, <4>6
        <4>8. Start(F, PastMac) \in Int
          BY <4>2, <4>7 DEF Start
        <4>9. cycle = Start(F, PastMac) + Blocks(PastMac) - 1
          BY <1>0, <4>2, <4>4, <4>5, <4>8
        <4>10. QED
          BY <1>1, <3>1, <3>2, <4>7, <4>9 DEF OnTime, Start
      <3>4. QED
        BY <1>0, <3>2, <3>3
    <2>3. QED
      BY <2>1, <2>2
  <1>10. ~Free(parse)' => /\ parse'.left \in 1 .. 2 /\ parse'.avail = Now' - 2 + parse'.left
                          /\ Fits(PastBook)' => G[PastBook'] = parse'.avail - 2
    <2> SUFFICES ASSUME ~Free(parse)'
                 PROVE  /\ parse'.left \in 1 .. 2 /\ parse'.avail = cycle + 1 - 2 + parse'.left
                        /\ Fits(PastBook') => G[PastBook'] = parse'.avail - 2
      BY <1>0, <1>1 DEF Fits, Message, Moves
    <2>1. CASE MacFires
      <3>1. /\ parse' = Load(PastParse, cycle + 1, 2) /\ (Free(parse) \/ ParseFires) /\ ~Free(mac)
        BY <1>0, <2>1, ParseMoves DEF Moves
      <3>2. PastBook' = PastParse /\ PastParse < PastMac
        BY <1>2, <1>3, <1>5, <3>1 DEF PastParse, PastMac, Has
      <3>3. Fits(PastParse) => F[PastParse] = cycle - 1
        BY <1>0, <1>5, <3>1 DEF FrontEndTimes
      <3>4. G[PastParse] = F[PastParse]
        BY <1>2, <1>4, <3>2
      <3>5. parse'.left = 2 /\ parse'.avail = cycle + 1
        BY <3>1 DEF Load
      <3>6. QED
        BY <1>0, <3>2, <3>3, <3>4, <3>5
    <2>2. CASE ~MacFires
      <3>1. /\ ~Free(parse) /\ ~ParseFires /\ parse.left = 2 /\ parse' = [parse EXCEPT !.left = 1]
            /\ parse \in Slot
        BY <1>0, <2>2, ParseMoves DEF Moves, Typed
      <3>2. parse'.left = 1 /\ parse'.avail = parse.avail
        BY <3>1 DEF Slot
      <3>3. parse.avail = cycle /\ (Fits(PastBook) => F[PastBook] = cycle - 2)
        BY <1>0, <3>1 DEF FrontEndTimes
      <3>4. PastBook' = PastBook /\ PastBook < PastMac
        BY <1>2, <1>3, <3>1 DEF PastParse, Has
      <3>5. G[PastBook] = F[PastBook]
        BY <1>2, <1>4, <3>4
      <3>6. QED
        BY <1>0, <3>2, <3>3, <3>4, <3>5
    <2>3. QED
      BY <2>1, <2>2
  <1>11. ~Free(mac)' =>
           /\ mac'.avail <= Now' /\ mac'.left \in 0 .. 1 /\ ipgValid'
           /\ Fits(PastParse)' /\ (Free(parse)' \/ Fits(PastBook)') =>
                mac'.avail = Now' /\ mac'.left = 1 /\ G[PastParse'] = Now' - 1
    <2> SUFFICES ASSUME ~Free(mac)'
                 PROVE  /\ mac'.avail <= cycle + 1 /\ mac'.left \in 0 .. 1 /\ ipgValid'
                        /\ Fits(PastParse') /\ (Free(parse)' \/ Fits(PastBook')) =>
                             /\ mac'.avail = cycle + 1 /\ mac'.left = 1
                             /\ G[PastParse'] = cycle
      BY <1>0 DEF Fits, Message, Moves
    <2>1. CASE PcsFires
      <3>1. /\ mac' = Load(PastMac, cycle + 1, Beats(Message(PastMac).length))
            /\ ~Free(PcsLoaded) /\ (Free(mac) \/ MacFires) /\ (MacFires => ~Free(mac))
            /\ ipgValid' = TRUE
        BY <1>0, <2>1, MacMoves, WireFacts, ParseMoves, PcsMoves DEF Moves
      <3>2. Message(PastMac).length \in 1 .. 255 /\ Blocks(PastMac) > 0
        BY <1>0, <1>6, <3>1, StreamFacts
      <3>3. Beats(Message(PastMac).length) = 1
        BY <3>2, LengthFacts DEF Blocks
      <3>4. mac'.left = 1 /\ mac'.avail = cycle + 1
        BY <3>1, <3>3 DEF Load
      <3>5. PastParse' = PastMac
        BY <1>2, <1>3, <3>1 DEF PastMac, Has
      <3>6. QED
        BY <1>0, <1>4, <2>1, <3>1, <3>4, <3>5
    <2>2. CASE ~PcsFires
      <3>1. /\ ~Free(mac) /\ ~MacFires /\ mac \in Slot /\ ipgValid' = ipgValid
            /\ mac' = [mac EXCEPT !.left = IF @ > 0 THEN @ - 1 ELSE @]
        BY <1>0, <2>2, MacMoves, PcsMoves DEF Moves, Typed
      <3>2. mac.avail <= cycle /\ mac.left \in 0 .. 1 /\ ipgValid
        BY <1>0, <3>1 DEF FrontEndTimes
      <3>3. mac'.avail = mac.avail /\ mac'.left \in 0 .. 1 /\ mac.avail \in Int
        BY <3>1, <3>2 DEF Slot
      <3>4. ~(Fits(PastParse') /\ (Free(parse)' \/ Fits(PastBook')))
        <4> SUFFICES ASSUME Fits(PastParse'), Free(parse)' \/ Fits(PastBook') PROVE FALSE
          OBVIOUS
        <4>1. PastParse' = PastParse
          BY <1>2, <1>3, <3>1
        <4>2. Free(parse) \/ Fits(PastBook)
          <5>1. CASE ParseFires
            BY <1>5, <5>1
          <5>2. CASE ~ParseFires
            <6>1. PastBook' = PastBook
              BY <1>2, <1>3, <5>2
            <6>2. Free(parse)' <=> Free(parse)
              BY <1>0, <3>1, <5>2, ParseMoves DEF Moves
            <6>3. QED
              BY <6>1, <6>2
          <5>3. QED
            BY <5>1, <5>2
        <4>3. QED
          BY <1>0, <3>1, <4>1, <4>2, MacReady
      <3>5. QED
        BY <1>0, <3>1, <3>2, <3>3, <3>4
    <2>3. QED
      BY <2>1, <2>2
  <1>12. ~Free(pcs)' =>
           /\ pcs'.avail < Now' /\ pcs'.left \in 0 .. 8 /\ Blocks(PastMac)' > 0
           /\ (\A j \in 0 .. PastMac' - 1 : Fits(j)') =>
                /\ pcs'.avail = Start(G, PastMac)'
                /\ pcs'.left = Blocks(PastMac)' - (Now' - pcs'.avail) /\ pcs'.left > 0
    <2> SUFFICES ASSUME ~Free(pcs)'
                 PROVE  /\ pcs'.avail < Now' /\ pcs'.left \in 0 .. 8 /\ Blocks(PastMac)' > 0
                        /\ (\A j \in 0 .. PastMac' - 1 : Fits(j)') =>
                             /\ pcs'.avail = Start(G, PastMac)'
                             /\ pcs'.left = Blocks(PastMac)' - (Now' - pcs'.avail)
                             /\ pcs'.left > 0
      OBVIOUS
    <2>1. /\ ~PcsFires /\ ~Free(PcsLoaded) /\ PcsLoaded \in Slot
          /\ PcsLoaded.avail <= cycle /\ PcsLoaded.left \in 0 .. 8
          /\ pcs' = [PcsLoaded EXCEPT !.left = IF @ > 0 THEN @ - 1 ELSE @]
      BY <1>0, PcsMoves, WireFacts DEF Moves
    <2>2. /\ pcs'.avail = PcsLoaded.avail /\ PcsLoaded.avail \in Int
          /\ pcs'.left = (IF PcsLoaded.left > 0 THEN PcsLoaded.left - 1 ELSE PcsLoaded.left)
      BY <2>1 DEF Slot
    <2>3. Blocks(PastMac) \in 1 .. 8 /\ Arrival(PastMac) \in Nat
      BY <1>0, <1>6, <2>1, StreamFacts
    <2> DEFINE avail == PcsLoaded.avail
               left == IF PcsLoaded.left > 0 THEN PcsLoaded.left - 1 ELSE PcsLoaded.left
    <2>4. ASSUME \A j \in 0 .. PastMac - 1 : Fits(j)
          PROVE  /\ avail = Start(F, PastMac)
                 /\ left = Blocks(PastMac) - (cycle + 1 - avail)
                 /\ left > 0
      <3>1. ~(PcsLoaded.left \in 0 .. 1)
        BY <1>0, <1>7, <2>1, <2>4, WireFacts
      <3>2. CASE Picks
        <4>1. /\ Free(pcs) /\ nextMsg = PastMac /\ cycle >= Arrival(PastMac) /\ nextMsg < Count
              /\ PcsLoaded.avail = cycle /\ PcsLoaded.left = Blocks(PastMac)
          BY <1>0, <3>2, WireFacts DEF Load, Picks
        <4>2. cycle <= Arrival(PastMac) \/ (PastMac > 0 /\ F[PastMac - 1] = cycle - 1)
          BY <1>0, <2>4, <4>1 DEF FrontEndTimes
        <4>3. PastMac = 0 \/ (F[PastMac - 1] \in Int /\ F[PastMac - 1] < cycle)
          <5>1. PastMac = 0 \/ (PastMac - 1 \in 0 .. PastMac - 1 /\ PastMac - 1 \in Nat
                                 /\ PastMac - 1 < PastMac)
            BY <1>2
          <5>2. QED
            BY <1>0, <1>4, <5>1 DEF FrontEndTimes
        <4>4. Start(F, PastMac) = cycle
          BY <1>0, <1>2, <2>3, <4>1, <4>2, <4>3 DEF Start
        <4>5. QED
          BY <1>0, <2>1, <2>2, <2>3, <3>1, <4>1, <4>4
      <3>3. CASE ~Picks
        <4>1. PcsLoaded = pcs /\ ~Free(pcs)
          BY <1>0, <2>1, <3>3, WireFacts
        <4>2. /\ pcs.avail = Start(F, PastMac)
              /\ pcs.left = Blocks(PastMac) - (cycle - pcs.avail)
          BY <1>0, <2>4, <4>1 DEF FrontEndTimes
        <4>3. QED
          BY <1>0, <2>1, <2>2, <2>3, <3>1, <4>1, <4>2
      <3>4. QED
        BY <3>2, <3>3
    <2>5. PastMac' = PastMac
      BY <1>2, <1>3, <2>1
    <2>6. Blocks(PastMac)' = Blocks(PastMac) /\ Arrival(PastMac)' = Arrival(PastMac)
      BY <1>0, <2>5 DEF Blocks, Arrival, Message, Moves
    <2>7. Start(G, PastMac)' = Start(F, PastMac)
      <3>1. PastMac = 0 \/ (PastMac - 1 \in Nat /\ PastMac - 1 < PastMac)
        BY <1>2
      <3>2. PastMac = 0 \/ G[PastMac - 1] = F[PastMac - 1]
        BY <1>4, <3>1
      <3>3. QED
        BY <2>5, <2>6, <3>2 DEF Start
    <2>8. avail < cycle + 1 /\ left \in 0 .. 8 /\ Blocks(PastMac) > 0
      BY <1>0, <2>1, <2>2, <2>3
    <2>9. pcs'.avail = avail /\ pcs'.left = left
      BY <2>2
    <2>10. QED
      <3> HIDE DEF avail, left
      <3>1. (\A j \in 0 .. PastMac' - 1 : Fits(j)') => \A j \in 0 .. PastMac - 1 : Fits(j)
        BY <1>1, <2>5
      <3>2. PICK now \in Nat : now = cycle + 1
        BY <1>0
      <3>3. Now' = now
        BY <1>0, <3>2
      <3>4. /\ avail < now /\ left \in 0 .. 8 /\ Blocks(PastMac) > 0
            /\ (\A j \in 0 .. PastMac - 1 : Fits(j)) =>
                 /\ avail = Start(F, PastMac) /\ left = Blocks(PastMac) - (now - avail)
                 /\ left > 0
        <4>1. avail < now /\ left \in 0 .. 8 /\ Blocks(PastMac) > 0
          BY <2>8, <3>2
        <4>2. ASSUME \A j \in 0 .. PastMac - 1 : Fits(j)
              PROVE  /\ avail = Start(F, PastMac) /\ left = Blocks(PastMac) - (now - avail)
                     /\ left > 0
          <5>1. now - avail = cycle + 1 - avail
            <6>1. avail \in Int /\ cycle \in Int
              BY <1>0, <2>1, <2>2 DEF avail
            <6>2. QED
              BY <3>2, <6>1
          <5>2. /\ avail = Start(F, PastMac) /\ left = Blocks(PastMac) - (cycle + 1 - avail)
                /\ left > 0
            BY <2>4, <4>2, Zenon
          <5>3. QED
            BY <5>1, <5>2, Zenon
        <4>3. QED
          BY <4>1, <4>2
      <3>5. PICK a \in Int, l \in Int, b \in Int :
              a = avail /\ l = left /\ b = Blocks(PastMac)
        <4>1. avail \in Int /\ left \in Int /\ Blocks(PastMac) \in Int
          BY <2>1, <2>2, <2>3 DEF avail, left
        <4>2. QED
          BY <4>1
      <3>6. pcs'.avail = a /\ pcs'.left = l /\ Blocks(PastMac)' = b
        BY <2>6, <2>9, <3>5
      <3>7. /\ a < now /\ l \in 0 .. 8 /\ b > 0
            /\ (\A j \in 0 .. PastMac' - 1 : Fits(j)') =>
                 a = Start(G, PastMac)' /\ l = b - (now - a) /\ l > 0
        BY <2>7, <3>1, <3>4, <3>5
      <3>8. QED
        BY <3>3, <3>6, <3>7
  <1>13. Free(pcs)' /\ nextMsg' < Count' /\ (\A j \in 0 .. PastMac' - 1 : Fits(j)') =>
           Now' <= Arrival(nextMsg)' \/ (nextMsg' > 0 /\ G[nextMsg' - 1] = Now' - 1)
    <2> SUFFICES ASSUME Free(pcs)', nextMsg' < Count'
                 PROVE  Now' <= Arrival(nextMsg)' \/ (nextMsg' > 0 /\ G[nextMsg' - 1] = Now' - 1)
      OBVIOUS
    <2>1. nextMsg' = nextMsg + (IF Picks THEN 1 ELSE 0)
      BY <1>0, PcsMoves DEF Moves
    <2>2. CASE PcsFires
      <3>1. nextMsg' = PastMac + 1
        BY <1>0, <2>1, <2>2, WireFacts
      <3>2. PastMac + 1 > 0 /\ PastMac + 1 - 1 = PastMac
        BY <1>2
      <3>3. G[PastMac] = cycle + 1 - 1
        BY <1>0, <1>4, <2>2
      <3>4. PICK n \in Nat, now \in Nat : n = PastMac + 1 /\ now = cycle + 1
        BY <1>0, <1>2
      <3>5. nextMsg' = n /\ Now' = now
        BY <1>0, <3>1, <3>4
      <3>6. n > 0 /\ G[n - 1] = now - 1
        BY <1>0, <1>2, <3>3, <3>4
      <3>7. QED
        BY <3>5, <3>6
    <2>3. CASE ~PcsFires
      <3>1. Free(pcs) /\ ~Picks
        BY <1>0, <2>3, PcsMoves, WireFacts DEF Moves
      <3>2. nextMsg' = nextMsg
        BY <1>2, <2>1, <3>1
      <3>3. nextMsg \in Ids /\ nextMsg < Count
        BY <1>1, <1>2, <3>2 DEF Ids
      <3>4. cycle < Arrival(nextMsg) /\ Arrival(nextMsg) \in Nat
        BY <1>0, <3>1, <3>3, StreamFacts DEF Picks, Arrival
      <3>5. Arrival(nextMsg)' = Arrival(nextMsg)
        BY <1>0, <3>2 DEF Arrival, Message, Moves
      <3>6. cycle + 1 <= Arrival(nextMsg)
        BY <1>0, <3>4
      <3>7. QED
        BY <1>0, <3>5, <3>6
    <2>4. QED
      BY <2>2, <2>3
  <1>14. QED
    BY <1>8, <1>9, <1>10, <1>11, <1>12, <1>13 DEF FrontEndTimes

\* The times of all messages after a posedge without an error.
LEMMA PosedgeTimed ==
  ASSUME BramLatency = 1, Typed, PipeTypeOK, NEW F \in [Ids -> Int], Timed(F),
         Posedge, ~error'
  PROVE  \E G \in [Ids -> Int] : Timed(G)'
  <1>1. PICK G : G = Received(F)
    OBVIOUS
  <1>2. Moves /\ edge = "pos"
    BY DEF Posedge, Moves, AtPosedge
  <1>3. InOrder' /\ PostedTimes(G)' /\ BackEndTimes(G)' /\ UnitsMatch(G)' /\ FrontEndTimes(G)'
    BY <1>1, <1>2, PosedgeOrder, PosedgeBackEnd, PosedgeUnits, PosedgeFrontEnd
  <1>4. G \in [Ids -> Int]
    BY <1>1, <1>2, ReceivedFacts
  <1>5. QED
    BY <1>3, <1>4 DEF Timed

------------------------------------------------------------------------------
(***************************************************************************)
(* A negedge preserves the invariant.                                      *)
(***************************************************************************)
\* What a negedge collects: the answer of the RAM and the value the OFI unit
\* puts out always find their ids and a place to go to.
LEMMA NegedgeMoves ==
  ASSUME BramLatency = 1, Typed, PipeTypeOK, NEW F \in [Ids -> Int], Timed(F), Negedge
  PROVE  /\ error' = FALSE /\ dmaQ = <<>> /\ Free(ofiIn)
         /\ Now = cycle + 1 /\ Now' = cycle + 1 /\ edge = "neg" /\ edge' = "pos"
         /\ bramRing' = <<>>
         /\ bramRing = <<>> => ofiIn' = ofiIn
         /\ bramRing # <<>> => ofiIn' = Load(PastRegister, cycle + 1, 0)
         /\ ofiPipe' = ofiPipe
         /\ ofiRing # <<>> /\ F[PastQueue] = cycle - 8 =>
              ofiRing' = <<>> /\ dmaQ' = <<PastQueue>>
         /\ ~(ofiRing # <<>> /\ F[PastQueue] = cycle - 8) =>
              ofiRing' = ofiRing /\ dmaQ' = <<>>
         /\ UNCHANGED <<stream, pcs, mac, parse, bookSlot, rd, dma, latency, nextMsg,
                        completed, ipgValid, dmaEngine, collision>>
  <1>1. /\ edge = "neg" /\ edge' = "pos" /\ cycle' = cycle + 1 /\ cycle \in Nat
        /\ InOrder /\ BackEndTimes(F) /\ UnitsMatch(F)
    BY DEF Negedge, AtNegedge, Timed, Typed
  <1>2. Now = cycle + 1 /\ Now' = cycle + 1
    BY <1>1 DEF Now
  <1>3. dmaQ = <<>> /\ Free(ofiIn)
    BY <1>1 DEF BackEndTimes
  <1>4. /\ bramRing = <<>> \/ bramRing = <<PastRegister>>
        /\ ofiRing = <<>> \/ ofiRing = <<PastQueue>>
    BY <1>1 DEF InOrder, AtMost
  <1>5. responseB'.valid <=> bramRing # <<>>
    <2>1. pending[0].b.read <=> bramRing # <<>>
      BY <1>1 DEF UnitsMatch
    <2>2. pending[0].b.read => pending[0].b.address \in Address
      BY <1>1 DEF UnitsMatch
    <2>3. PICK mem : responseB' = Answer(mem, pending[0].b)
      BY DEF Negedge, BramNegedge
    <2>4. QED
      BY <2>1, <2>2, <2>3 DEF Answer, NoResponse
  <1>6. output' = ofiPipe[2] /\ ofiPipe' = ofiPipe
    BY DEF Negedge, OfiNegedge, PipelineStages
  <1>7. ofiPipe[2].valid <=> ofiRing # <<>> /\ F[PastQueue] = cycle - 8
    <2>1. ofiPipe[2].valid <=> ofiRing # <<>> /\ F[PastQueue] = Now - 7 - 2
      BY <1>1 DEF UnitsMatch
    <2>2. Now - 7 - 2 = cycle - 8
      BY <1>1, <1>2
    <2>3. QED
      BY <2>1, <2>2
  <1>8. Len(dmaQ) # DmaQueueDepth
    BY <1>3, PipelineAssumption
  <1>9. output'.valid => ~CollectFails
    BY <1>6, <1>7, <1>8 DEF CollectFails
  <1>10. responseB'.valid => ~ReadBackFails
    BY <1>3, <1>5 DEF ReadBackFails
  <1>11. error' = FALSE /\ TakeReadBack /\ CollectOfi
    BY <1>9, <1>10 DEF Negedge
  <1>12. /\ bramRing' = <<>>
         /\ bramRing = <<>> => ofiIn' = ofiIn
         /\ bramRing # <<>> => ofiIn' = Load(PastRegister, cycle + 1, 0)
    <2>1. CASE bramRing = <<>>
      BY <1>5, <1>11, <2>1 DEF TakeReadBack
    <2>2. CASE bramRing # <<>>
      <3>1. Head(bramRing) = PastRegister /\ Tail(bramRing) = <<>>
        <4>1. PICK i \in Int : i = PastRegister
          BY <1>1, Chain
        <4>2. Head(<<i>>) = i /\ Tail(<<i>>) = <<>>
          OBVIOUS
        <4>3. QED
          BY <1>4, <2>2, <4>1, <4>2
      <3>2. QED
        BY <1>5, <1>11, <2>2, <3>1 DEF TakeReadBack
    <2>3. QED
      BY <2>1, <2>2
  <1>13. CASE ofiRing # <<>> /\ F[PastQueue] = cycle - 8
    <2>1. Head(ofiRing) = PastQueue /\ Tail(ofiRing) = <<>>
      <3>1. PICK i \in Int : i = PastQueue
        BY <1>1, Chain
      <3>2. Head(<<i>>) = i /\ Tail(<<i>>) = <<>>
        OBVIOUS
      <3>3. QED
        BY <1>4, <1>13, <3>1, <3>2
    <2>2. ofiRing' = Tail(ofiRing) /\ dmaQ' = Append(dmaQ, Head(ofiRing))
      BY <1>6, <1>7, <1>9, <1>11, <1>13 DEF CollectOfi
    <2>3. dmaQ' = <<PastQueue>>
      BY <1>3, <2>1, <2>2
    <2>4. QED
      BY <1>1, <1>2, <1>3, <1>6, <1>11, <1>12, <1>13, <2>1, <2>2, <2>3
        DEF Negedge, macVars, BramNegedge
  <1>14. CASE ~(ofiRing # <<>> /\ F[PastQueue] = cycle - 8)
    <2>1. ofiRing' = ofiRing /\ dmaQ' = <<>>
      BY <1>3, <1>6, <1>7, <1>11, <1>14 DEF CollectOfi
    <2>2. QED
      BY <1>1, <1>2, <1>3, <1>6, <1>11, <1>12, <1>14, <2>1
        DEF Negedge, macVars, BramNegedge
  <1>15. QED
    BY <1>13, <1>14

\* A slot that is not touched stays within its bounds when the cycle advances.
LEMMA SlotKept ==
  ASSUME Typed, PipeTypeOK, NEW s, NEW w, SlotOK(s, w)
  PROVE  ~Free(s) => /\ s.msg \in 0 .. nextMsg - 1
                     /\ s.avail \in 0 .. cycle + 1 + 1
                     /\ s.left \in 0 .. w
  BY DEF SlotOK, Typed

\* At a negedge a message moves from the RAM to the OFI unit's register or
\* from the OFI unit to the DMA queue.
LEMMA NegedgePlaces ==
  ASSUME BramLatency = 1, Typed, PipeTypeOK, NEW F \in [Ids -> Int], Timed(F), Negedge
  PROVE  /\ PastDma' = PastDma /\ PastDma = PastQueue
         /\ PastQueue' = PastQueue + Len(dmaQ') /\ PastOfi' = PastOfi
         /\ PastOfi = PastRegister /\ PastRegister' = PastRam /\ PastRam' = PastRam
         /\ PastRead' = PastRead /\ PastBook' = PastBook /\ PastParse' = PastParse
         /\ PastMac' = PastMac
  <1>1. InOrder
    BY DEF Timed
  <1>2. /\ completed \in Nat /\ PastDma \in Nat /\ PastQueue \in Nat /\ PastOfi \in Nat
        /\ PastRegister \in Nat /\ PastRam \in Nat
    BY <1>1, Chain
  <1>3. PastDma' = PastDma
    BY NegedgeMoves DEF PastDma, Has, Free
  <1>4. PastDma = PastQueue /\ PastOfi = PastRegister
    <2>0. dmaQ = <<>> /\ Free(ofiIn)
      BY NegedgeMoves
    <2>1. Len(dmaQ) = 0 /\ Has(ofiIn) = 0
      BY <2>0 DEF Has
    <2>2. QED
      BY <1>2, <2>1 DEF PastQueue, PastRegister
  <1>5. PastQueue' = PastQueue + Len(dmaQ')
    BY <1>3, <1>4 DEF PastQueue
  <1>6. PastOfi' = PastOfi
    <2>0. PastOfi' = PastQueue' + Len(ofiRing')
      BY DEF PastOfi
    <2>1. CASE ofiRing # <<>> /\ F[PastQueue] = cycle - 8
      <3>1. ofiRing' = <<>> /\ dmaQ' = <<PastQueue>>
        BY <2>1, NegedgeMoves
      <3>2. Len(ofiRing') = 0 /\ Len(dmaQ') = 1
        BY <3>1
      <3>3. Len(ofiRing) = 1
        BY <1>1, <2>1 DEF InOrder, AtMost
      <3>4. QED
        BY <1>2, <1>5, <2>0, <3>2, <3>3 DEF PastOfi
    <2>2. CASE ~(ofiRing # <<>> /\ F[PastQueue] = cycle - 8)
      <3>1. ofiRing' = ofiRing /\ dmaQ' = <<>>
        BY <2>2, NegedgeMoves
      <3>2. Len(ofiRing') = Len(ofiRing) /\ Len(dmaQ') = 0
        BY <3>1
      <3>3. QED
        BY <1>2, <1>5, <2>0, <3>2 DEF PastOfi
    <2>3. QED
      BY <2>1, <2>2
  <1>7. PastRegister' = PastRam
    <2>0. PastRegister' = PastOfi' + Has(ofiIn)'
      BY DEF PastRegister
    <2>1. CASE bramRing = <<>>
      <3>1. Free(ofiIn)' /\ Len(bramRing) = 0
        BY <2>1, NegedgeMoves DEF Free
      <3>2. QED
        BY <1>2, <1>4, <1>6, <2>0, <3>1 DEF Has, PastRam
    <2>2. CASE bramRing # <<>>
      <3>1. Len(bramRing) = 1
        BY <1>1, <2>2 DEF InOrder, AtMost
      <3>0. ofiIn' = Load(PastRegister, cycle + 1, 0)
        BY <2>2, NegedgeMoves
      <3>2. ~Free(ofiIn)'
        BY <1>2, <3>0 DEF Free, Load, NoMsg
      <3>3. QED
        BY <1>2, <1>4, <1>6, <2>0, <3>1, <3>2 DEF Has, PastRam
    <2>3. QED
      BY <2>1, <2>2
  <1>8. PastRam' = PastRam
    <2>0. bramRing' = <<>>
      BY NegedgeMoves
    <2>1. Len(bramRing') = 0
      BY <2>0
    <2>2. PastRam' = PastRegister' + Len(bramRing')
      BY DEF PastRam
    <2>3. QED
      BY <1>2, <1>7, <2>1, <2>2
  <1>9. /\ Has(rd)' = Has(rd) /\ Has(bookSlot)' = Has(bookSlot) /\ Has(parse)' = Has(parse)
        /\ Has(mac)' = Has(mac)
    BY NegedgeMoves DEF Has, Free
  <1>10. PastRead' = PastRead
    BY <1>8, <1>9 DEF PastRead
  <1>11. PastBook' = PastBook
    BY <1>9, <1>10 DEF PastBook
  <1>12. PastParse' = PastParse
    BY <1>9, <1>11 DEF PastParse
  <1>13. PastMac' = PastMac
    BY <1>9, <1>12 DEF PastMac
  <1>14. QED
    BY <1>3, <1>4, <1>5, <1>6, <1>7, <1>8, <1>10, <1>11, <1>12, <1>13

\* The order of the messages is kept at a negedge.
LEMMA NegedgeOrder ==
  ASSUME BramLatency = 1, Typed, PipeTypeOK, NEW F \in [Ids -> Int], Timed(F), Negedge
  PROVE  InOrder'
  <1>1. InOrder
    BY DEF Timed
  <1>2. nextMsg' = PastMac' + Has(pcs)'
    <2>1. nextMsg' = nextMsg /\ Has(pcs)' = Has(pcs)
      BY NegedgeMoves DEF Has, Free
    <2>2. QED
      BY <1>1, <2>1, NegedgePlaces DEF InOrder
  <1>3. /\ ~Free(dma)' => dma'.msg = completed'
        /\ ~Free(rd)' => rd'.msg = PastRam'
        /\ ~Free(bookSlot)' => bookSlot'.msg = PastRead'
        /\ ~Free(parse)' => parse'.msg = PastBook'
        /\ ~Free(mac)' => mac'.msg = PastParse'
        /\ ~Free(pcs)' => pcs'.msg = PastMac'
    BY <1>1, NegedgeMoves, NegedgePlaces DEF InOrder, Free
  <1>4. AtMost(dmaQ, PastDma)'
    BY NegedgeMoves, NegedgePlaces DEF AtMost
  <1>5. AtMost(ofiRing, PastQueue)'
    <2>1. CASE ofiRing # <<>> /\ F[PastQueue] = cycle - 8
      BY <2>1, NegedgeMoves DEF AtMost
    <2>2. CASE ~(ofiRing # <<>> /\ F[PastQueue] = cycle - 8)
      <3>0. ofiRing' = ofiRing /\ dmaQ' = <<>>
        BY <2>2, NegedgeMoves
      <3>1. ofiRing' = ofiRing /\ Len(dmaQ') = 0
        BY <3>0
      <3>2. PastQueue' = PastQueue
        BY <1>1, <3>1, NegedgePlaces, Chain
      <3>3. QED
        BY <1>1, <3>1, <3>2 DEF InOrder, AtMost
    <2>3. QED
      BY <2>1, <2>2
  <1>6. ~Free(ofiIn)' => ofiIn'.msg = PastOfi'
    <2>1. CASE bramRing = <<>>
      BY <2>1, NegedgeMoves DEF Free
    <2>2. CASE bramRing # <<>>
      <3>1. ofiIn' = Load(PastRegister, cycle + 1, 0) /\ PastOfi' = PastRegister
        BY <2>2, NegedgeMoves, NegedgePlaces
      <3>2. QED
        BY <3>1 DEF Load
    <2>3. QED
      BY <2>1, <2>2
  <1>7. AtMost(bramRing, PastRegister)'
    BY NegedgeMoves DEF AtMost
  <1>8. QED
    BY <1>2, <1>3, <1>4, <1>5, <1>6, <1>7 DEF InOrder

\* The types hold after a negedge.
LEMMA NegedgeTypes ==
  ASSUME BramLatency = 1, Typed, PipeTypeOK, NEW F \in [Ids -> Int], Timed(F), Negedge
  PROVE  Typed' /\ PipeTypeOK'
  <1>1. InOrder
    BY DEF Timed
  <1>2. /\ PastQueue \in Nat /\ PastRegister \in Nat /\ PastOfi \in Nat /\ PastRam \in Nat
        /\ nextMsg \in Nat /\ PastRam <= nextMsg /\ PastOfi <= nextMsg
    <2>1. /\ PastQueue \in Nat /\ PastOfi \in Nat /\ PastRegister \in Nat /\ PastRam \in Nat
          /\ PastRead \in Nat /\ PastBook \in Nat /\ PastParse \in Nat /\ PastMac \in Nat
          /\ nextMsg \in Nat /\ PastOfi <= PastRegister /\ PastRegister <= PastRam
          /\ PastRam <= PastRead /\ PastRead <= PastBook
          /\ PastBook <= PastParse /\ PastParse <= PastMac /\ PastMac <= nextMsg
      BY <1>1, Chain
    <2>2. QED
      BY <2>1
  <1>3. /\ UNCHANGED <<stream, pcs, mac, parse, bookSlot, rd, dma, latency, nextMsg,
                       completed, ipgValid, ofiPipe>>
        /\ edge' = "pos" /\ error' = FALSE /\ bramRing' = <<>>
    BY NegedgeMoves
  <1>4. cycle' = cycle + 1 /\ cycle \in Nat
    BY DEF Negedge, AtNegedge, Typed
  <1>5. Count' = Count /\ Ids' = Ids
    BY <1>3 DEF Count, Ids
  <1>6. \A x \in Nat : /\ <<x>> \in Seq(Int)
                       /\ Len(<<x>>) = 1
                       /\ \A k \in DOMAIN <<x>> : <<x>>[k] = x
    OBVIOUS
  <1>7. PICK ring \in Seq(Int) :
          /\ ofiRing' = ring /\ Len(ring) <= RingDepth
          /\ \A k \in DOMAIN ring : ring[k] \in 0 .. nextMsg - 1
    <2>1. ofiRing' = <<>> \/ ofiRing' = ofiRing
      BY NegedgeMoves
    <2>2. CASE ofiRing' = <<>>
      <3>1. <<>> \in Seq(Int) /\ Len(<<>>) <= RingDepth /\ DOMAIN <<>> = {}
        BY PipelineAssumption
      <3>2. QED
        BY <2>2, <3>1
    <2>3. CASE ofiRing' = ofiRing
      BY <2>3 DEF Typed, PipeTypeOK
    <2>4. QED
      BY <2>1, <2>2, <2>3
  <1>8. PICK queue \in Seq(Int) :
          /\ dmaQ' = queue /\ Len(queue) <= DmaQueueDepth
          /\ \A k \in DOMAIN queue : queue[k] \in 0 .. nextMsg - 1
    <2>1. dmaQ' = <<>> \/ (dmaQ' = <<PastQueue>> /\ ofiRing # <<>>)
      BY NegedgeMoves
    <2>2. CASE dmaQ' = <<>>
      <3>1. <<>> \in Seq(Int) /\ Len(<<>>) <= DmaQueueDepth /\ DOMAIN <<>> = {}
        BY PipelineAssumption
      <3>2. QED
        BY <2>2, <3>1
    <2>3. CASE dmaQ' = <<PastQueue>> /\ ofiRing # <<>>
      <3>1. Len(ofiRing) = 1
        BY <1>1, <2>3 DEF InOrder, AtMost
      <3>2. PastQueue < nextMsg
        BY <1>2, <3>1 DEF PastOfi
      <3>3. PICK x \in Nat : x = PastQueue
        BY <1>2
      <3>4. x \in 0 .. nextMsg - 1
        BY <1>2, <3>2, <3>3
      <3>5. DmaQueueDepth \in Nat /\ 1 <= DmaQueueDepth
        BY PipelineAssumption
      <3>6. /\ <<x>> \in Seq(Int) /\ Len(<<x>>) <= DmaQueueDepth
            /\ \A k \in DOMAIN <<x>> : <<x>>[k] \in 0 .. nextMsg - 1
        BY <1>6, <3>4, <3>5
      <3>7. QED
        BY <2>3, <3>3, <3>6
    <2>4. QED
      BY <2>1, <2>2, <2>3
  <1>9. PICK register \in Slot : ofiIn' = register /\ SlotOK(register, 0)'
    <2>1. CASE bramRing = <<>>
      <3>1. ofiIn' = ofiIn /\ Free(ofiIn)
        BY <2>1, NegedgeMoves
      <3>2. QED
        BY <3>1 DEF SlotOK, Typed, Free
    <2>2. CASE bramRing # <<>>
      <3>1. ofiIn' = Load(PastRegister, cycle + 1, 0)
        BY <2>2, NegedgeMoves
      <3>2. Len(bramRing) = 1
        BY <1>1, <2>2 DEF InOrder, AtMost
      <3>3. PastRegister < nextMsg
        BY <1>2, <3>2 DEF PastRam
      <3>4. PICK c \in Nat : c = cycle + 1
        BY <1>4
      <3>5. /\ PastRegister \in 0 .. nextMsg - 1 /\ c \in 0 .. c + 1 /\ 0 \in 0 .. 0
        BY <1>2, <1>4, <3>3
      <3>6. PICK s \in Slot : /\ s = Load(PastRegister, c, 0) /\ s.msg = PastRegister
                              /\ s.avail = c /\ s.left = 0
        <4>1. PICK r \in Nat : r = PastRegister
          BY <1>2
        <4>2. Load(r, c, 0) \in Slot
          BY DEF Load, Slot
        <4>3. Load(r, c, 0).msg = r /\ Load(r, c, 0).avail = c /\ Load(r, c, 0).left = 0
          BY DEF Load
        <4>4. QED
          BY <4>1, <4>2, <4>3
      <3>7. cycle' = c /\ nextMsg' = nextMsg
        BY <1>3, <1>4, <3>4
      <3>8. SlotOK(s, 0)'
        BY <3>5, <3>6, <3>7 DEF SlotOK
      <3>9. QED
        BY <3>1, <3>4, <3>6, <3>8
    <2>3. QED
      BY <2>1, <2>2
  <1>10. Typed'
    <2>1. <<>> \in Seq(Int) /\ cycle' \in Nat
      BY <1>4
    <2>2. QED
      BY <1>3, <1>5, <1>7, <1>8, <1>9, <2>1 DEF Typed
  <1>11. /\ SlotOK(pcs, 8)' /\ SlotOK(mac, Beats(255))' /\ SlotOK(parse, ParserCycles)'
         /\ SlotOK(bookSlot, BookCycles)' /\ SlotOK(rd, 1)' /\ SlotOK(dma, DmaPostCycles)'
    <2>1. ASSUME NEW s, NEW w, SlotOK(s, w) PROVE SlotOK(s, w)'
      BY <1>3, <1>4, <2>1, SlotKept DEF SlotOK, Free
    <2>2. /\ SlotOK(pcs, 8) /\ SlotOK(mac, Beats(255)) /\ SlotOK(parse, ParserCycles)
          /\ SlotOK(bookSlot, BookCycles) /\ SlotOK(rd, 1) /\ SlotOK(dma, DmaPostCycles)
      BY DEF PipeTypeOK
    <2>3. /\ ParserCycles = 2 /\ BookCycles = 1 /\ DmaPostCycles = 2
          /\ Beats(255) = 4
      BY DEF ParserCycles, BookCycles, DmaPostCycles, Beats, BeatBytes
    <2>4. /\ SlotOK(pcs, 8) /\ SlotOK(mac, 4) /\ SlotOK(parse, 2)
          /\ SlotOK(bookSlot, 1) /\ SlotOK(rd, 1) /\ SlotOK(dma, 2)
      BY <2>2, <2>3
    <2>5. PICK p, m, q, b, r, d : p = pcs /\ m = mac /\ q = parse /\ b = bookSlot
                                    /\ r = rd /\ d = dma
      OBVIOUS
    <2>6. /\ SlotOK(p, 8)' /\ SlotOK(m, 4)' /\ SlotOK(q, 2)'
          /\ SlotOK(b, 1)' /\ SlotOK(r, 1)' /\ SlotOK(d, 2)'
      BY <2>1, <2>4, <2>5
    <2>7. pcs' = p /\ mac' = m /\ parse' = q /\ bookSlot' = b /\ rd' = r /\ dma' = d
      BY <1>3, <2>5
    <2>8. QED
      BY <2>3, <2>6, <2>7 DEF SlotOK
  <1>12. SlotOK(ofiIn, 0)'
    BY <1>9 DEF SlotOK, Free
  <1>13. /\ \A r \in {bramRing', ofiRing', dmaQ'} : \A k \in DOMAIN r : r[k] \in 0 .. nextMsg' - 1
         /\ Len(bramRing') <= RingDepth /\ Len(ofiRing') <= RingDepth
         /\ Len(dmaQ') <= DmaQueueDepth
    <2>1. Len(<<>>) <= RingDepth /\ DOMAIN <<>> = {}
      BY PipelineAssumption
    <2>2. QED
      BY <1>3, <1>7, <1>8, <2>1
  <1>14. nextMsg' \in 0 .. Count' /\ completed' \in 0 .. nextMsg' /\ error' \in BOOLEAN
    BY <1>3, <1>5 DEF PipeTypeOK
  <1>15. PipeTypeOK'
    BY <1>11, <1>12, <1>13, <1>14 DEF PipeTypeOK
  <1>16. QED
    BY <1>10, <1>15

\* At a negedge no message leaves the wire and no cycle passes, so the times
\* stay what they are.
LEMMA NegedgeTimed ==
  ASSUME BramLatency = 1, Typed, PipeTypeOK, NEW F \in [Ids -> Int], Timed(F), Negedge
  PROVE  Timed(F)'
  <1>1. /\ InOrder /\ PostedTimes(F) /\ BackEndTimes(F) /\ UnitsMatch(F) /\ FrontEndTimes(F)
    BY DEF Timed
  <1>2. /\ UNCHANGED <<stream, pcs, mac, parse, bookSlot, rd, dma, latency, nextMsg,
                       completed, ipgValid, ofiPipe>>
        /\ edge = "neg" /\ edge' = "pos"
    BY NegedgeMoves
  <1>3. cycle \in Nat /\ Now = cycle + 1 /\ Now' = Now
    BY NegedgeMoves DEF Typed
  <1>4. /\ PastDma' = PastDma /\ PastDma = PastQueue /\ PastOfi' = PastOfi
        /\ PastOfi = PastRegister /\ PastRam' = PastRam
        /\ PastRead' = PastRead /\ PastBook' = PastBook /\ PastParse' = PastParse
        /\ PastMac' = PastMac
    BY NegedgePlaces
  <1>5. /\ \A i : Message(i)' = Message(i) /\ (Fits(i)' <=> Fits(i)) /\ Blocks(i)' = Blocks(i)
                  /\ Arrival(i)' = Arrival(i)
        /\ Count' = Count
    BY <1>2 DEF Message, Fits, Blocks, Arrival, Count
  <1>6. PostedTimes(F)'
    BY <1>1, <1>2, <1>3, <1>5 DEF PostedTimes
  <1>7. FrontEndTimes(F)'
    BY <1>1, <1>2, <1>3, <1>4, <1>5 DEF FrontEndTimes, Free, OnTime, Start
  <1>10. /\ dmaQ' # <<>> => edge' = "pos" /\ F[PastDma'] = Now' - 9
         /\ ofiRing' # <<>> => F[PastQueue'] \in Now' - 8 .. Now' - 7
         /\ \A k \in 0 .. 1 : ofiPipe'[k].valid <=> ofiRing' # <<>> /\ F[PastQueue'] = Now' - 7 - k
    <2>1. CASE ofiRing # <<>> /\ F[PastQueue] = cycle - 8
      <3>1. ofiRing' = <<>> /\ dmaQ' = <<PastQueue>>
        BY <2>1, NegedgeMoves
      <3>2. F[PastDma] = Now - 9
        BY <1>3, <1>4, <2>1
      <3>3. /\ dmaQ' # <<>> => edge' = "pos" /\ F[PastDma'] = Now' - 9
            /\ ofiRing' # <<>> => F[PastQueue'] \in Now' - 8 .. Now' - 7
        BY <1>2, <1>3, <1>4, <3>1, <3>2
      <3>4. \A k \in 0 .. 1 : ofiPipe'[k].valid <=> ofiRing' # <<>> /\ F[PastQueue'] = Now' - 7 - k
        <4>1. \A k \in 0 .. 1 : ~ofiPipe[k].valid
          <5> SUFFICES ASSUME NEW k \in 0 .. 1, ofiPipe[k].valid PROVE FALSE
            OBVIOUS
          <5>1. F[PastQueue] = Now - 7 - k
            BY <1>1, <1>2 DEF UnitsMatch
          <5>2. QED
            BY <1>3, <2>1, <5>1
        <4>2. QED
          BY <1>2, <3>1, <4>1
      <3>5. QED
        BY <3>3, <3>4
    <2>2. CASE ~(ofiRing # <<>> /\ F[PastQueue] = cycle - 8)
      <3>1. ofiRing' = ofiRing /\ dmaQ' = <<>>
        BY <2>2, NegedgeMoves
      <3>2. PastQueue' = PastQueue
        <4>1. Len(dmaQ') = 0
          BY <3>1
        <4>2. QED
          BY <1>1, <4>1, NegedgePlaces, Chain
      <3>3. ofiRing # <<>> => F[PastQueue] \in Now - 8 .. Now - 7
        <4> SUFFICES ASSUME ofiRing # <<>> PROVE F[PastQueue] \in Now - 8 .. Now - 7
          OBVIOUS
        <4>1. F[PastQueue] \in Now - 9 .. Now - 7
          BY <1>1, <1>2 DEF BackEndTimes
        <4>2. QED
          BY <1>3, <2>2, <4>1
      <3>4. \A k \in 0 .. 1 : ofiPipe[k].valid <=> ofiRing # <<>> /\ F[PastQueue] = Now - 7 - k
        BY <1>1, <1>2 DEF UnitsMatch
      <3>5. QED
        BY <1>2, <1>3, <3>1, <3>2, <3>3, <3>4
    <2>3. QED
      BY <2>1, <2>2
  <1>11. /\ ~Free(ofiIn)' => edge' = "pos" /\ ofiIn'.avail = Now' /\ F[PastOfi'] = Now' - 6
    <2>1. CASE bramRing = <<>>
      BY <2>1, NegedgeMoves DEF Free
    <2>2. CASE bramRing # <<>>
      <3>1. ofiIn' = Load(PastRegister, cycle + 1, 0)
        BY <2>2, NegedgeMoves
      <3>2. F[PastRegister] = Now - 6
        BY <1>1, <2>2 DEF BackEndTimes
      <3>3. QED
        BY <1>2, <1>3, <1>4, <3>1, <3>2 DEF Load
    <2>3. QED
      BY <2>1, <2>2
  <1>12. bramRing' = <<>>
    BY NegedgeMoves
  <1>13. /\ ~Free(dma)' => dma'.left = 1 /\ dma'.avail <= Now' /\ F[completed'] = Now' - 10
         /\ ~Free(rd)' => rd'.avail = Now' /\ F[PastRam'] = Now' - 5
         /\ ~Free(bookSlot)' => /\ bookSlot'.avail = Now' /\ bookSlot'.left = 1
                                /\ F[PastRead'] = Now' - 4
    BY <1>1, <1>2, <1>3, <1>4 DEF BackEndTimes, Free
  <1>14. BackEndTimes(F)'
    BY <1>2, <1>10, <1>11, <1>12, <1>13 DEF BackEndTimes
  <1>15. UnitsMatch(F)'
    BY <1>2, <1>10 DEF UnitsMatch
  <1>16. InOrder'
    BY NegedgeOrder
  <1>17. QED
    BY <1>6, <1>7, <1>14, <1>15, <1>16 DEF Timed

------------------------------------------------------------------------------
(***************************************************************************)
(* The inductive invariant of the pipeline.                                *)
(***************************************************************************)
PipeInv ==
  /\ Typed /\ PipeTypeOK /\ LatencyLaw /\ ~collision /\ dmaEngine.ring = <<>>
  /\ ~error => \E F \in [Ids -> Int] : Timed(F)

\* Nothing is in the pipeline when it is built.
LEMMA InitInv == PipeInit => PipeInv
  <1> SUFFICES ASSUME PipeInit PROVE PipeInv
    OBVIOUS
  <1>1. /\ stream \in Streams /\ cycle = 0 /\ edge = "pos" /\ error = FALSE
        /\ nextMsg = 0 /\ completed = 0 /\ bramRing = <<>> /\ ofiRing = <<>> /\ dmaQ = <<>>
        /\ ipgValid = FALSE /\ collision = FALSE /\ dmaEngine.ring = <<>>
        /\ latency = [i \in Ids |-> 0] /\ ofiPipe = [i \in OfiStage |-> Bubble]
    BY DEF PipeInit, ClockInit, MacInit, BramInit, DmaInit, IdleEngine, OfiInit
  <1>2. /\ pcs = EmptySlot /\ mac = EmptySlot /\ parse = EmptySlot /\ bookSlot = EmptySlot
        /\ rd = EmptySlot /\ ofiIn = EmptySlot /\ dma = EmptySlot
    BY DEF PipeInit
  <1>3. EmptySlot \in Slot /\ Free(EmptySlot)
    BY DEF EmptySlot, Slot, Free, NoMsg
  <1>4. Count \in Nat /\ \A i \in Ids : Arrival(i) \in Nat
    BY <1>1, StreamFacts
  <1>5. Len(<<>>) = 0 /\ DOMAIN <<>> = {} /\ <<>> \in Seq(Int)
    OBVIOUS
  <1>6. RingDepth \in Nat /\ DmaQueueDepth \in Nat
    BY PipelineAssumption
  <1>7. Typed
    <2>1. latency \in [Ids -> Int]
      BY <1>1
    <2>2. \A k \in OfiStage : ofiPipe[k].valid \in BOOLEAN
      BY <1>1 DEF Bubble
    <2>3. cycle \in Nat /\ ipgValid \in BOOLEAN
      BY <1>1
    <2>4. QED
      BY <1>1, <1>2, <1>3, <1>5, <2>1, <2>2, <2>3 DEF Typed
  <1>8. PipeTypeOK
    <2>0. error \in BOOLEAN
      BY <1>1
    <2>1. nextMsg \in 0 .. Count /\ completed \in 0 .. nextMsg
      BY <1>1, <1>4
    <2>2. /\ SlotOK(pcs, 8) /\ SlotOK(mac, Beats(255)) /\ SlotOK(parse, ParserCycles)
          /\ SlotOK(bookSlot, BookCycles) /\ SlotOK(rd, 1) /\ SlotOK(ofiIn, 0)
          /\ SlotOK(dma, DmaPostCycles)
      BY <1>2, <1>3 DEF SlotOK
    <2>3. /\ \A r \in {bramRing, ofiRing, dmaQ} : \A k \in DOMAIN r : r[k] \in 0 .. nextMsg - 1
          /\ Len(bramRing) <= RingDepth /\ Len(ofiRing) <= RingDepth
          /\ Len(dmaQ) <= DmaQueueDepth
      BY <1>1, <1>5, <1>6
    <2>4. QED
      BY <2>0, <2>1, <2>2, <2>3 DEF PipeTypeOK
  <1>9. LatencyLaw
    BY <1>1 DEF LatencyLaw, Ids
  <1>10. /\ Now = 0 /\ Has(EmptySlot) = 0 /\ PastDma = 0 /\ PastQueue = 0 /\ PastOfi = 0
         /\ PastRegister = 0 /\ PastRam = 0 /\ PastRead = 0 /\ PastBook = 0 /\ PastParse = 0
         /\ PastMac = 0
    BY <1>1, <1>2, <1>3, <1>5
      DEF Now, Has, PastDma, PastQueue, PastOfi, PastRegister, PastRam, PastRead, PastBook,
          PastParse, PastMac
  <1>11. PICK F : F = [i \in Ids |-> 0]
    OBVIOUS
  <1>12. InOrder
    BY <1>1, <1>2, <1>3, <1>10 DEF InOrder, AtMost
  <1>13. PostedTimes(F) /\ BackEndTimes(F)
    BY <1>1, <1>2, <1>3 DEF PostedTimes, BackEndTimes
  <1>14. UnitsMatch(F)
    <2>1. \A k \in 0 .. 1 : ~ofiPipe[k].valid
      BY <1>1 DEF Bubble, OfiStage, PipelineStages
    <2>2. QED
      BY <1>1, <2>1 DEF UnitsMatch
  <1>15. FrontEndTimes(F)
    <2>1. 0 < Count => 0 <= Arrival(0)
      BY <1>4 DEF Ids
    <2>2. QED
      BY <1>1, <1>2, <1>3, <1>10, <2>1 DEF FrontEndTimes
  <1>16. F \in [Ids -> Int] /\ Timed(F)
    BY <1>11, <1>12, <1>13, <1>14, <1>15 DEF Timed
  <1>17. QED
    BY <1>1, <1>7, <1>8, <1>9, <1>16 DEF PipeInv

\* No stage of a posedge finds its resource taken.
LEMMA NoResourceFault ==
  ASSUME Typed, PipeTypeOK, NEW F \in [Ids -> Int], Timed(F), edge = "pos",
         dmaEngine.ring = <<>>
  PROVE  ~ResourceFault
  <1>1. PostOk(dmaEngine)
    BY HostRingAssumption DEF PostOk
  <1>2. \A i : ~PostFails(i)
    <2> TAKE i
    <2>1. PostedEngine(i) = [ring |-> Append(<<>>, Record(i)), posted |-> dmaEngine.posted + 1,
                             msix |-> TRUE]
      BY <1>1 DEF PostedEngine, PostWrite
    <2>2. Head(Append(<<>>, Record(i))) = Record(i)
      OBVIOUS
    <2>3. PostedEngine(i).msix = TRUE /\ Head(PostedEngine(i).ring) = Record(i)
      BY <2>1, <2>2
    <2>4. Record(i).tag = i
      BY DEF Record
    <2>5. QED
      BY <1>1, <2>3, <2>4 DEF PostFails
  <1>3. OfiIssues => ofiRing = <<>>
    BY BackEndMoves
  <1>4. bramRing = <<>>
    BY BackEndMoves
  <1>5. Accepts => ipgValid
    BY DEF Timed, FrontEndTimes, Accepts, Available
  <1>6. Len(<<>>) # RingDepth
    BY PipelineAssumption
  <1>7. QED
    BY <1>2, <1>3, <1>4, <1>5, <1>6 DEF ResourceFault, AcceptOk

\* The host takes the record that was posted before the next one is.
LEMMA HostRingDrained ==
  ASSUME dmaEngine.ring = <<>>, DmaStage
  PROVE  dmaEngine'.ring = <<>>
  <1>1. PostOk(dmaEngine)
    BY HostRingAssumption DEF PostOk
  <1>2. CASE ~Posts
    BY <1>2 DEF DmaStage
  <1>3. CASE Posts
    <2> DEFINE i == DmaLoaded.msg
    <2>1. PostedEngine(i) = [ring |-> Append(<<>>, Record(i)), posted |-> dmaEngine.posted + 1,
                             msix |-> TRUE]
      BY <1>1 DEF PostedEngine, PostWrite
    <2>2. Append(<<>>, Record(i)) # <<>> /\ Tail(Append(<<>>, Record(i))) = <<>>
      OBVIOUS
    <2>3. ClearMsix(Consume(PostedEngine(i))).ring = <<>>
      BY <2>1, <2>2 DEF ClearMsix, Consume, ConsumeOk
    <2>4. QED
      BY <1>1, <1>3, <2>3 DEF DmaStage, post_decision
  <1>4. QED
    BY <1>2, <1>3

\* The latencies of a posedge follow from when the messages left the wire.
LEMMA PosedgeLatency ==
  ASSUME Typed, PipeTypeOK, NEW F \in [Ids -> Int], Timed(F), Posedge
  PROVE  LatencyLaw'
  <1>1. /\ edge = "pos" /\ DmaStage /\ stream' = stream /\ cycle \in Nat
        /\ InOrder /\ PostedTimes(F) /\ BackEndTimes(F) /\ FrontEndTimes(F)
        /\ stream \in Streams /\ latency \in [Ids -> Int]
    BY DEF Posedge, AtPosedge, Timed, Typed
  <1>2. /\ completed \in Nat /\ PastDma \in Nat /\ PastQueue \in Nat /\ PastOfi \in Nat
        /\ PastRegister \in Nat /\ PastRam \in Nat /\ PastRead \in Nat /\ PastBook \in Nat
        /\ PastParse \in Nat /\ PastMac \in Nat /\ nextMsg \in Nat /\ Count \in Nat
        /\ completed <= PastDma /\ PastDma <= PastQueue /\ PastQueue <= PastOfi
        /\ PastOfi <= PastRegister /\ PastRegister <= PastRam /\ PastRam <= PastRead
        /\ PastRead <= PastBook /\ PastBook <= PastParse /\ PastParse <= PastMac
        /\ PastMac <= nextMsg /\ nextMsg <= Count
    BY <1>1, Chain
  <1>3. PastDma <= PastBook /\ PastDma <= PastMac /\ PastDma <= Count /\ PastBook <= PastMac
    BY <1>2
  <1>4. completed' = PastDma /\ Now = cycle
    BY <1>1, DmaMoves DEF Now
  <1>5. \A i \in Ids : Blocks(i) \in Int /\ Arrival(i) \in Nat
    <2> TAKE i \in Ids
    <2>1. Message(i).length \in 1 .. 255 /\ Arrival(i) \in Nat
      BY <1>1, StreamFacts
    <2>2. BlockCount(Message(i).length) \in 0 .. 8
      BY <2>1, LengthFacts
    <2>3. QED
      BY <2>1, <2>2 DEF Blocks
  <1>6. PICK L : L = latency'
    OBVIOUS
  <1>7. \A i \in Nat : i < PastDma => i \in Ids /\ L[i] = F[i] - Arrival(i) + 11
    <2> SUFFICES ASSUME NEW i \in Nat, i < PastDma
                 PROVE  i \in Ids /\ L[i] = F[i] - Arrival(i) + 11
      OBVIOUS
    <2>1. i \in Ids
      BY <1>2, <1>3 DEF Ids
    <2>2. latency' = IF Free(dma) THEN latency
                     ELSE [latency EXCEPT ![completed] = cycle - Arrival(completed) + 1]
      BY <1>1, DmaMoves
    <2>3. CASE i < completed
      <3>1. latency[i] = F[i] - Arrival(i) + 11
        BY <1>1, <1>2, <2>3 DEF PostedTimes
      <3>2. i # completed
        BY <1>2, <2>3
      <3>3. L[i] = latency[i]
        BY <1>1, <1>6, <2>1, <2>2, <3>2
      <3>4. QED
        BY <2>1, <3>1, <3>3
    <2>4. CASE ~(i < completed)
      <3>1. i = completed /\ ~Free(dma)
        BY <1>2, <2>4 DEF PastDma, Has
      <3>2. L[i] = cycle - Arrival(i) + 1
        BY <1>1, <1>6, <2>1, <2>2, <3>1
      <3>3. F[i] = cycle - 10
        BY <1>1, <1>4, <3>1 DEF BackEndTimes
      <3>4. Arrival(i) \in Nat
        BY <1>5, <2>1
      <3>5. QED
        BY <1>1, <2>1, <3>2, <3>3, <3>4
    <2>5. QED
      BY <2>3, <2>4
  <1>8. \A i \in Nat : i < PastDma => F[i] = Start(F, i) + Blocks(i) - 1
    <2> SUFFICES ASSUME NEW i \in Nat, i < PastDma PROVE OnTime(F, i)
      BY DEF OnTime
    <2>1. \A j \in 0 .. i : j \in 0 .. PastBook - 1
      BY <1>2, <1>3
    <2>2. i \in 0 .. PastMac - 1
      BY <1>2, <1>3
    <2>3. QED
      BY <1>1, <2>1, <2>2 DEF FrontEndTimes
  <1>9. StageCycles = 10
    BY DEF StageCycles, ParserCycles, BookCycles, PipelineStages, DmaPostCycles
  <1> DEFINE start(i) == L[i] + Arrival(i) - Blocks(i) - 10
  <1>10. \A i \in Nat : i < PastDma => start(i) = F[i] + 1 - Blocks(i)
    <2> TAKE i \in Nat
    <2> HAVE i < PastDma
    <2>1. i \in Ids /\ L[i] = F[i] - Arrival(i) + 11
      BY <1>7
    <2>2. F[i] \in Int /\ Blocks(i) \in Int /\ Arrival(i) \in Nat
      BY <1>5, <2>1
    <2>3. QED
      BY <2>1, <2>2
  <1>11. ASSUME NEW i \in Ids, i < PastDma
         PROVE  start(i) = IF i = 0 \/ Arrival(i) >= start(i - 1) + Blocks(i - 1)
                             THEN Arrival(i) ELSE start(i - 1) + Blocks(i - 1)
    <2>1. i \in Nat /\ F[i] \in Int /\ Blocks(i) \in Int /\ Arrival(i) \in Nat
      BY <1>5 DEF Ids
    <2>2. start(i) = F[i] + 1 - Blocks(i) /\ F[i] = Start(F, i) + Blocks(i) - 1
      BY <1>8, <1>10, <1>11, <2>1
    <2>3. i = 0 \/ (i - 1 \in Nat /\ i - 1 < PastDma /\ i - 1 \in Ids)
      BY <1>2, <1>11, <2>1 DEF Ids
    <2>4. i = 0 \/ (start(i - 1) = F[i - 1] + 1 - Blocks(i - 1)
                      /\ F[i - 1] \in Int /\ Blocks(i - 1) \in Int)
      BY <1>5, <1>10, <2>3
    <2> HIDE DEF start
    <2>5. i = 0 \/ start(i - 1) + Blocks(i - 1) = F[i - 1] + 1
      BY <2>4
    <2>6. Start(F, i) \in Int
      BY <2>1, <2>4 DEF Start
    <2>7. start(i) = Start(F, i)
      BY <2>1, <2>2, <2>6
    <2>8. QED
      BY <2>5, <2>7 DEF Start
  <1>12. /\ Ids' = Ids /\ \A i : WireStart(i)' = start(i)
         /\ \A i : /\ BlockCount(Message(i).length)' = Blocks(i)
                   /\ (Message(i).arrival)' = Arrival(i)
    <2>1. \A i : Message(i)' = Message(i) /\ Ids' = Ids
      BY <1>1 DEF Message, Ids, Count
    <2>2. \A i : /\ BlockCount(Message(i).length)' = Blocks(i)
                 /\ (Message(i).arrival)' = Arrival(i)
      BY <2>1 DEF Blocks, Arrival
    <2>3. \A i : WireStart(i)' = L[i] + Arrival(i) - Blocks(i) - 10
      BY <1>6, <1>9, <2>2 DEF WireStart
    <2>4. QED
      BY <2>1, <2>2, <2>3
  <1>13. QED
    <2> HIDE DEF start
    <2>1. \A i \in Ids : i < PastDma =>
             start(i) = IF i = 0 \/ Arrival(i) >= start(i - 1) + Blocks(i - 1)
                          THEN Arrival(i) ELSE start(i - 1) + Blocks(i - 1)
      BY <1>11
    <2>2. QED
      BY <1>4, <1>12, <2>1 DEF LatencyLaw

\* The types hold when only the clock and the two units move.
LEMMA TypesKept ==
  ASSUME Typed, PipeTypeOK, cycle' \in {cycle, cycle + 1}, edge' \in {"pos", "neg"},
         UNCHANGED <<stream, slotVars, ringVars, latency, nextMsg, completed, error, ipgValid>>,
         \A k \in OfiStage : ofiPipe'[k].valid \in BOOLEAN
  PROVE  Typed' /\ PipeTypeOK'
  <1>1. /\ pcs' = pcs /\ mac' = mac /\ parse' = parse /\ bookSlot' = bookSlot /\ rd' = rd
        /\ ofiIn' = ofiIn /\ dma' = dma /\ bramRing' = bramRing /\ ofiRing' = ofiRing
        /\ dmaQ' = dmaQ /\ Count' = Count /\ Ids' = Ids
    BY DEF slotVars, ringVars, Count, Ids
  <1>2. PICK c \in Nat : cycle' = c /\ cycle <= c /\ cycle \in Nat
    BY DEF Typed
  <1>3. Typed'
    BY <1>1, <1>2 DEF Typed
  <1>4. ASSUME NEW s, NEW w, SlotOK(s, w) PROVE SlotOK(s, w)'
    <2>1. \A a \in 0 .. cycle + 1 : a \in 0 .. c + 1
      BY <1>2
    <2>2. QED
      BY <1>2, <1>4, <2>1 DEF SlotOK, Free
  <1>5. /\ SlotOK(pcs, 8)' /\ SlotOK(mac, Beats(255))' /\ SlotOK(parse, ParserCycles)'
        /\ SlotOK(bookSlot, BookCycles)' /\ SlotOK(rd, 1)' /\ SlotOK(ofiIn, 0)'
        /\ SlotOK(dma, DmaPostCycles)'
    <2>1. /\ ParserCycles = 2 /\ BookCycles = 1 /\ DmaPostCycles = 2
          /\ Beats(255) = 4
      BY DEF ParserCycles, BookCycles, DmaPostCycles, Beats, BeatBytes
    <2>2. /\ SlotOK(pcs, 8) /\ SlotOK(mac, 4) /\ SlotOK(parse, 2)
          /\ SlotOK(bookSlot, 1) /\ SlotOK(rd, 1) /\ SlotOK(ofiIn, 0) /\ SlotOK(dma, 2)
      BY <2>1 DEF PipeTypeOK
    <2>3. PICK p, m, q, b, r, o, d : p = pcs /\ m = mac /\ q = parse /\ b = bookSlot
                                       /\ r = rd /\ o = ofiIn /\ d = dma
      OBVIOUS
    <2>4. /\ SlotOK(p, 8)' /\ SlotOK(m, 4)' /\ SlotOK(q, 2)'
          /\ SlotOK(b, 1)' /\ SlotOK(r, 1)' /\ SlotOK(o, 0)' /\ SlotOK(d, 2)'
      BY <1>4, <2>2, <2>3
    <2>5. /\ pcs' = p /\ mac' = m /\ parse' = q /\ bookSlot' = b /\ rd' = r /\ ofiIn' = o
          /\ dma' = d
      BY <1>1, <2>3
    <2>6. QED
      BY <2>1, <2>4, <2>5 DEF SlotOK
  <1>6. PipeTypeOK'
    BY <1>1, <1>5 DEF PipeTypeOK
  <1>7. QED
    BY <1>3, <1>6

\* A posedge keeps the invariant.
LEMMA PosedgeInv == BramLatency = 1 /\ PipeInv /\ Posedge => PipeInv'
  <1> SUFFICES ASSUME BramLatency = 1, PipeInv, Posedge PROVE PipeInv'
    OBVIOUS
  <1>1. PICK F \in [Ids -> Int] : Timed(F)
    BY DEF PipeInv, Posedge
  <1>2. Typed /\ PipeTypeOK /\ dmaEngine.ring = <<>> /\ edge = "pos" /\ Ids' = Ids
    BY DEF PipeInv, Posedge, AtPosedge, Ids, Count
  <1>3. Typed' /\ PipeTypeOK'
    BY <1>1, <1>2, PosedgeTypes
  <1>4. LatencyLaw'
    BY <1>1, <1>2, PosedgeLatency
  <1>5. ~collision'
    BY <1>1, <1>2, RamMoves DEF Posedge
  <1>6. dmaEngine'.ring = <<>>
    BY <1>2, HostRingDrained DEF Posedge
  <1>7. ~error' => \E G \in [Ids -> Int] : Timed(G)'
    BY <1>1, <1>2, PosedgeTimed
  <1>8. QED
    BY <1>2, <1>3, <1>4, <1>5, <1>6, <1>7 DEF PipeInv

\* So does a negedge, which never raises an error.
LEMMA NegedgeInv == BramLatency = 1 /\ PipeInv /\ Negedge => PipeInv'
  <1> SUFFICES ASSUME BramLatency = 1, PipeInv, Negedge PROVE PipeInv'
    OBVIOUS
  <1>1. PICK F \in [Ids -> Int] : Timed(F)
    BY DEF PipeInv, Negedge
  <1>2. Typed /\ PipeTypeOK /\ dmaEngine.ring = <<>> /\ LatencyLaw /\ ~collision
    BY DEF PipeInv
  <1>3. Typed' /\ PipeTypeOK'
    BY <1>1, <1>2, NegedgeTypes
  <1>4. UNCHANGED <<stream, latency, completed, dmaEngine, collision>>
    BY <1>1, <1>2, NegedgeMoves
  <1>5. LatencyLaw' /\ Ids' = Ids
    BY <1>2, <1>4 DEF LatencyLaw, WireStart, Message, Ids, Count
  <1>6. Timed(F)'
    BY <1>1, <1>2, NegedgeTimed
  <1>7. QED
    BY <1>1, <1>2, <1>3, <1>4, <1>5, <1>6 DEF PipeInv

\* After an error only the clock, the RAM and the OFI unit move.
LEMMA AfterErrorInv ==
  BramLatency = 1 /\ PipeInv /\ (PosedgeAfterError \/ NegedgeAfterError) => PipeInv'
  <1> SUFFICES ASSUME BramLatency = 1, PipeInv, PosedgeAfterError \/ NegedgeAfterError
               PROVE  PipeInv'
    OBVIOUS
  <1>1. Typed /\ PipeTypeOK /\ dmaEngine.ring = <<>> /\ LatencyLaw /\ ~collision
    BY DEF PipeInv
  <1>2. /\ UNCHANGED <<stream, slotVars, ringVars, latency, nextMsg, completed, error, ipgValid,
                       dmaEngine>>
        /\ error
    BY DEF PosedgeAfterError, NegedgeAfterError, messageVars, countVars, macVars
  <1>3. cycle' \in {cycle, cycle + 1} /\ edge' \in {"pos", "neg"}
    BY DEF PosedgeAfterError, NegedgeAfterError, AtPosedge, AtNegedge
  <1>4. ~collision'
    <2>1. CASE PosedgeAfterError
      <3>1. collision' = Collides(NoRequest, NoRequest)
        BY <2>1, OneStage DEF PosedgeAfterError
      <3>2. QED
        BY <3>1 DEF Collides, NoRequest
    <2>2. CASE NegedgeAfterError
      BY <1>1, <2>2 DEF NegedgeAfterError, bramVars
    <2>3. QED
      BY <2>1, <2>2
  <1>5. \A k \in OfiStage : ofiPipe'[k].valid \in BOOLEAN
    <2>1. CASE PosedgeAfterError
      <3>1. ofiPipe' = [i \in OfiStage |-> IF i = 0 THEN Bubble ELSE ofiPipe[i - 1]]
        BY <2>1 DEF PosedgeAfterError, OfiIdle, Shifted
      <3>2. \A k \in OfiStage : k = 0 \/ k - 1 \in OfiStage
        BY DEF OfiStage, PipelineStages
      <3>3. Bubble.valid \in BOOLEAN
        BY DEF Bubble
      <3>4. \A k \in OfiStage : ofiPipe[k].valid \in BOOLEAN
        BY <1>1 DEF Typed
      <3> SUFFICES ASSUME NEW k \in OfiStage PROVE ofiPipe'[k].valid \in BOOLEAN
        OBVIOUS
      <3>5. ofiPipe'[k] = IF k = 0 THEN Bubble ELSE ofiPipe[k - 1]
        BY <3>1
      <3>6. QED
        BY <3>2, <3>3, <3>4, <3>5
    <2>2. CASE NegedgeAfterError
      BY <1>1, <2>2 DEF NegedgeAfterError, ofiVars, Typed
    <2>3. QED
      BY <2>1, <2>2
  <1>6. Typed' /\ PipeTypeOK'
    BY <1>1, <1>2, <1>3, <1>5, TypesKept
  <1>7. LatencyLaw'
    BY <1>1, <1>2 DEF LatencyLaw, WireStart, Message, Ids, Count
  <1>8. QED
    BY <1>1, <1>2, <1>4, <1>6, <1>7 DEF PipeInv

\* A step that changes nothing.
LEMMA StutterInv == PipeInv /\ UNCHANGED pipeVars => PipeInv'
  <1> SUFFICES ASSUME PipeInv, UNCHANGED pipeVars PROVE PipeInv'
    OBVIOUS
  <1>1. /\ UNCHANGED <<stream, pcs, mac, parse, bookSlot, rd, ofiIn, dma, bramRing, ofiRing, dmaQ>>
        /\ UNCHANGED <<latency, nextMsg, completed, error, dmaEngine, ipgValid, cycle, edge>>
        /\ UNCHANGED <<pending, collision, ofiPipe>>
    BY DEF pipeVars, slotVars, ringVars, messageVars, countVars, bramVars, ofiVars, macVars, clockVars
  <1>2. Typed /\ PipeTypeOK /\ dmaEngine.ring = <<>> /\ LatencyLaw /\ ~collision
    BY DEF PipeInv
  <1>3. Typed' /\ PipeTypeOK'
    <2>1. /\ UNCHANGED <<stream, slotVars, ringVars, latency, nextMsg, completed, error, ipgValid>>
          /\ cycle' \in {cycle, cycle + 1} /\ edge' \in {"pos", "neg"}
          /\ \A k \in OfiStage : ofiPipe'[k].valid \in BOOLEAN
      BY <1>1, <1>2 DEF slotVars, ringVars, Typed
    <2>2. QED
      BY <1>2, <2>1, TypesKept
  <1>4. LatencyLaw' /\ Ids' = Ids
    BY <1>1, <1>2 DEF LatencyLaw, WireStart, Message, Ids, Count
  <1>5. ~error => \E F \in [Ids -> Int] : Timed(F)'
    <2> SUFFICES ASSUME ~error PROVE \E F \in [Ids -> Int] : Timed(F)'
      OBVIOUS
    <2>1. PICK F \in [Ids -> Int] : Timed(F)
      BY DEF PipeInv
    <2>2. /\ InOrder /\ PostedTimes(F) /\ BackEndTimes(F) /\ UnitsMatch(F) /\ FrontEndTimes(F)
      BY <2>1 DEF Timed
    <2>3. /\ Now' = Now /\ PastDma' = PastDma /\ PastQueue' = PastQueue /\ PastOfi' = PastOfi
          /\ PastRegister' = PastRegister /\ PastRam' = PastRam /\ PastRead' = PastRead
          /\ PastBook' = PastBook /\ PastParse' = PastParse /\ PastMac' = PastMac
      BY <1>1 DEF Now, Has, Free, PastDma, PastQueue, PastOfi, PastRegister, PastRam, PastRead,
                  PastBook, PastParse, PastMac
    <2>4. /\ \A i : (Fits(i)' <=> Fits(i)) /\ Blocks(i)' = Blocks(i) /\ Arrival(i)' = Arrival(i)
          /\ Count' = Count
      BY <1>1 DEF Message, Fits, Blocks, Arrival, Count
    <2>5. InOrder'
      BY <1>1, <2>2, <2>3 DEF InOrder, AtMost, Has, Free
    <2>6. PostedTimes(F)' /\ BackEndTimes(F)' /\ UnitsMatch(F)'
      BY <1>1, <2>2, <2>3, <2>4 DEF PostedTimes, BackEndTimes, UnitsMatch, Free
    <2>7. FrontEndTimes(F)'
      BY <1>1, <2>2, <2>3, <2>4 DEF FrontEndTimes, Free, OnTime, Start
    <2>8. QED
      BY <2>5, <2>6, <2>7 DEF Timed
  <1>6. QED
    BY <1>1, <1>2, <1>3, <1>4, <1>5 DEF PipeInv

------------------------------------------------------------------------------
(***************************************************************************)
(* What follows from the invariant.                                        *)
(***************************************************************************)
\* The invariant holds in every state of the pipeline with the one-stage RAM.
THEOREM PipelineInvariant == BramLatency = 1 => (PipeSpec => []PipeInv)
  <1> SUFFICES ASSUME BramLatency = 1 PROVE PipeSpec => []PipeInv
    OBVIOUS
  <1>1. PipeInv /\ [PipeNext]_pipeVars => PipeInv'
    BY PosedgeInv, NegedgeInv, AfterErrorInv, StutterInv DEF PipeNext
  <1>2. QED
    BY <1>1, InitInv, PTL DEF PipeSpec

\* Every slot and ring holds messages that have been taken off the wire, with
\* no more work left than its stage takes, and the rings stay within their
\* capacities.
THEOREM PipelineTypes == BramLatency = 1 => (PipeSpec => []PipeTypeOK)
  <1>1. PipeInv => PipeTypeOK
    BY DEF PipeInv
  <1>2. QED
    BY <1>1, PipelineInvariant, PTL

\* Behind the wire a message takes the same number of cycles whatever is in
\* front of it (tick, stage_*, post_decision).
THEOREM LatencyIsQueueingPlusConstant == BramLatency = 1 => (PipeSpec => []LatencyLaw)
  <1>1. PipeInv => LatencyLaw
    BY DEF PipeInv
  <1>2. QED
    BY <1>1, PipelineInvariant, PTL

\* No fail() that is not about the content of a message is ever reached.
THEOREM ResourcesAlwaysSuffice == BramLatency = 1 => (PipeSpec => []ResourcesSuffice)
  <1> SUFFICES ASSUME BramLatency = 1 PROVE PipeSpec => []ResourcesSuffice
    OBVIOUS
  <1>1. PipeInv => ResourcesSuffice
    <2> SUFFICES ASSUME PipeInv PROVE ResourcesSuffice
      OBVIOUS
    <2>1. ~collision
      BY DEF PipeInv
    <2> SUFFICES ASSUME ~error
                 PROVE  /\ edge = "pos" => ~ResourceFault
                        /\ edge = "neg" =>
                             /\ pending[BramLatency - 1].b.read => ~ReadBackFails
                             /\ ofiPipe[PipelineStages - 1].valid => ~CollectFails
      BY <2>1 DEF ResourcesSuffice
    <2>2. PICK F \in [Ids -> Int] : Timed(F)
      BY DEF PipeInv
    <2>3. Typed /\ PipeTypeOK /\ dmaEngine.ring = <<>>
      BY DEF PipeInv
    <2>4. edge = "pos" => ~ResourceFault
      BY <2>2, <2>3, NoResourceFault
    <2>5. ASSUME edge = "neg"
          PROVE  /\ pending[0].b.read => ~ReadBackFails
                 /\ ofiPipe[2].valid => ~CollectFails
      <3>1. BackEndTimes(F) /\ UnitsMatch(F)
        BY <2>2 DEF Timed
      <3>2. dmaQ = <<>> /\ Free(ofiIn)
        BY <2>5, <3>1 DEF BackEndTimes
      <3>3. Len(dmaQ) # DmaQueueDepth
        BY <3>2, PipelineAssumption
      <3>4. ofiPipe[2].valid => ofiRing # <<>>
        BY <2>5, <3>1 DEF UnitsMatch
      <3>5. pending[0].b.read => bramRing # <<>>
        BY <2>5, <3>1 DEF UnitsMatch
      <3>6. QED
        BY <3>2, <3>3, <3>4, <3>5 DEF ReadBackFails, CollectFails
    <2>6. BramLatency - 1 = 0 /\ PipelineStages - 1 = 2
      BY DEF PipelineStages
    <2>7. QED
      BY <2>4, <2>5, <2>6
  <1>2. QED
    BY <1>1, PipelineInvariant, PTL

\* The messages a to b - 1, one behind the other.
Run(a, b) == [k \in 1 .. b - a |-> a + k - 1]

\* A run is a sequence with one element per message.
LEMMA RunFacts ==
  ASSUME NEW a \in Nat, NEW b \in Nat, a <= b
  PROVE  /\ Run(a, b) \in Seq(Nat) /\ Len(Run(a, b)) = b - a
         /\ \A k \in 1 .. b - a : Run(a, b)[k] = a + k - 1
  BY DEF Run

\* The next message lengthens a run.
LEMMA RunGrows ==
  ASSUME NEW a \in Nat, NEW b \in Nat, a <= b
  PROVE  Run(a, b) \o <<b>> = Run(a, b + 1) /\ Run(a, b) \o <<>> = Run(a, b)
  <1> DEFINE s == Run(a, b)
             t == <<b>>
             u == Run(a, b + 1)
  <1>1. s \in Seq(Nat) /\ Len(s) = b - a /\ \A k \in 1 .. b - a : s[k] = a + k - 1
    BY RunFacts
  <1>2. t \in Seq(Nat) /\ Len(t) = 1 /\ t[1] = b
    OBVIOUS
  <1>3. u \in Seq(Nat) /\ Len(u) = b - a + 1 /\ \A k \in 1 .. b - a + 1 : u[k] = a + k - 1
    <2>1. b + 1 \in Nat /\ a <= b + 1 /\ b + 1 - a = b - a + 1
      OBVIOUS
    <2>2. QED
      BY <2>1, RunFacts
  <1> HIDE DEF s, t, u
  <1>4. /\ s \o t \in Seq(Nat) /\ Len(s \o t) = Len(s) + Len(t)
        /\ \A k \in 1 .. Len(s) + Len(t) : (s \o t)[k] = IF k <= Len(s) THEN s[k] ELSE t[k - Len(s)]
    BY <1>1, <1>2, ConcatProperties
  <1>5. \A k \in 1 .. b - a + 1 : (s \o t)[k] = a + k - 1
    <2> TAKE k \in 1 .. b - a + 1
    <2>1. CASE k <= b - a
      <3>1. k \in 1 .. b - a /\ k \in 1 .. Len(s) + Len(t) /\ k <= Len(s)
        BY <1>1, <1>2, <2>1
      <3>2. QED
        BY <1>1, <1>4, <3>1
    <2>2. CASE ~(k <= b - a)
      <3>1. /\ k - Len(s) = 1 /\ a + k - 1 = b /\ k \in 1 .. Len(s) + Len(t)
            /\ ~(k <= Len(s))
        BY <1>1, <1>2, <2>2
      <3>2. QED
        BY <1>2, <1>4, <3>1
    <2>3. QED
      BY <2>1, <2>2
  <1>6. s \o t = u
    <2>1. Len(s \o t) = b - a + 1 /\ Len(s \o t) = Len(u)
      BY <1>1, <1>2, <1>3, <1>4
    <2>2. \A k \in 1 .. Len(s \o t) : (s \o t)[k] = u[k]
      BY <1>3, <1>5, <2>1
    <2>3. QED
      BY <1>3, <1>4, <2>1, <2>2, SeqEqual
  <1>7. s \o <<>> = s
    BY <1>1, ConcatEmptySeq
  <1>8. QED
    BY <1>6, <1>7 DEF s, t, u

\* A ring that holds at most the next message.
LEMMA RunGrowsByRing ==
  ASSUME NEW a \in Nat, NEW b \in Nat, a <= b, NEW r, AtMost(r, b),
         NEW c, c = b + Len(r)
  PROVE  Run(a, b) \o r = Run(a, c) /\ a <= c
  <1>1. CASE r = <<>>
    <2>1. c = b
      BY <1>1
    <2>2. QED
      BY <1>1, <2>1, RunGrows
  <1>2. CASE r = <<b>>
    <2>1. c = b + 1 /\ a <= b + 1
      BY <1>2
    <2>2. QED
      BY <1>2, <2>1, RunGrows
  <1>3. QED
    BY <1>1, <1>2 DEF AtMost

\* A slot that holds at most the next message.
LEMMA RunGrowsBySlot ==
  ASSUME NEW a \in Nat, NEW b \in Nat, a <= b, NEW x, ~Free(x) => x.msg = b,
         NEW c, c = b + Has(x)
  PROVE  Run(a, b) \o Held(x) = Run(a, c) /\ a <= c
  <1>1. CASE Free(x)
    <2>1. c = b /\ Held(x) = <<>>
      BY <1>1 DEF Has, Held
    <2>2. QED
      BY <2>1, RunGrows
  <1>2. CASE ~Free(x)
    <2>1. c = b + 1 /\ Held(x) = <<b>> /\ a <= b + 1
      BY <1>2 DEF Has, Held
    <2>2. QED
      BY <2>1, RunGrows
  <1>3. QED
    BY <1>1, <1>2

\* No message is lost, duplicated or overtaken between the wire and the host.
THEOREM PipelineInOrder == BramLatency = 1 => (PipeSpec => []InFlightInOrder)
  <1> SUFFICES ASSUME BramLatency = 1 PROVE PipeSpec => []InFlightInOrder
    OBVIOUS
  <1>1. PipeInv => InFlightInOrder
    <2> SUFFICES ASSUME PipeInv, ~error PROVE InFlightInOrder
      BY DEF InFlightInOrder, OfiRingMatchesPipe
    <2>1. PICK F \in [Ids -> Int] : Timed(F)
      BY DEF PipeInv
    <2>2. Typed /\ PipeTypeOK /\ InOrder /\ BackEndTimes(F) /\ UnitsMatch(F)
      BY <2>1 DEF PipeInv, Timed
    <2>3. /\ completed \in Nat /\ PastDma \in Nat /\ PastQueue \in Nat /\ PastOfi \in Nat
          /\ PastRegister \in Nat /\ PastRam \in Nat /\ PastRead \in Nat /\ PastBook \in Nat
          /\ PastParse \in Nat /\ PastMac \in Nat /\ nextMsg \in Nat
      BY <2>2, Chain
    <2>4. OfiRingMatchesPipe
      <3> SUFFICES ASSUME edge = "pos"
                   PROVE  Len(ofiRing) = (IF ofiPipe[0].valid THEN 1 ELSE 0)
                                           + (IF ofiPipe[1].valid THEN 1 ELSE 0)
        BY DEF OfiRingMatchesPipe
      <3>1. Now \in Int
        BY <2>2 DEF Now, Typed
      <3>2. \A k \in 0 .. 1 : ofiPipe[k].valid <=> ofiRing # <<>> /\ F[PastQueue] = Now - 7 - k
        BY <2>2 DEF UnitsMatch
      <3>3. /\ ofiPipe[0].valid <=> ofiRing # <<>> /\ F[PastQueue] = Now - 7
            /\ ofiPipe[1].valid <=> ofiRing # <<>> /\ F[PastQueue] = Now - 8
        BY <3>1, <3>2
      <3>4. CASE ofiRing = <<>>
        BY <3>3, <3>4
      <3>5. CASE ofiRing # <<>>
        <4>1. Len(ofiRing) = 1
          BY <2>2, <3>5 DEF InOrder, AtMost
        <4>2. F[PastQueue] \in Now - 8 .. Now - 7
          BY <2>2, <3>5 DEF BackEndTimes
        <4>3. F[PastQueue] = Now - 7 \/ F[PastQueue] = Now - 8
          BY <3>1, <4>2
        <4>4. Now - 7 # Now - 8
          BY <3>1
        <4>5. QED
          BY <3>3, <3>5, <4>1, <4>3, <4>4
      <3>6. QED
        BY <3>4, <3>5
    <2>7. /\ ~Free(dma) => dma.msg = completed
          /\ AtMost(dmaQ, PastDma) /\ AtMost(ofiRing, PastQueue)
          /\ ~Free(ofiIn) => ofiIn.msg = PastOfi
          /\ AtMost(bramRing, PastRegister)
          /\ ~Free(rd) => rd.msg = PastRam
          /\ ~Free(bookSlot) => bookSlot.msg = PastRead
          /\ ~Free(parse) => parse.msg = PastBook
          /\ ~Free(mac) => mac.msg = PastParse
          /\ ~Free(pcs) => pcs.msg = PastMac
          /\ nextMsg = PastMac + Has(pcs)
      BY <2>2 DEF InOrder
    <2>8. Held(dma) = Run(completed, PastDma) /\ completed <= PastDma
      <3>1. Run(completed, completed) = <<>> /\ completed <= completed
        BY <2>3 DEF Run
      <3>2. Run(completed, completed) \o Held(dma) = Run(completed, PastDma) /\ completed <= PastDma
        BY <2>3, <2>7, <3>1, RunGrowsBySlot DEF PastDma
      <3>3. Held(dma) \in Seq(Nat)
        <4>1. <<completed>> \in Seq(Nat) /\ <<>> \in Seq(Nat)
          BY <2>3
        <4>2. QED
          BY <2>7, <4>1 DEF Held
      <3>4. <<>> \o Held(dma) = Held(dma)
        BY <3>3, ConcatEmptySeq
      <3>5. QED
        BY <3>1, <3>2, <3>4
    <2>9. Run(completed, PastDma) \o dmaQ = Run(completed, PastQueue) /\ completed <= PastQueue
      <3>1. PastQueue = PastDma + Len(dmaQ)
        BY <2>7 DEF PastQueue
      <3>2. completed <= PastDma /\ (AtMost(dmaQ, PastDma))
        BY <2>7, <2>8
      <3>3. completed \in Nat /\ PastDma \in Nat
        BY <2>3
      <3>4. QED
        BY <3>1, <3>2, <3>3, RunGrowsByRing
    <2>10. Run(completed, PastQueue) \o ofiRing = Run(completed, PastOfi) /\ completed <= PastOfi
      <3>1. PastOfi = PastQueue + Len(ofiRing)
        BY <2>7 DEF PastOfi
      <3>2. completed <= PastQueue /\ (AtMost(ofiRing, PastQueue))
        BY <2>7, <2>9
      <3>3. completed \in Nat /\ PastQueue \in Nat
        BY <2>3
      <3>4. QED
        BY <3>1, <3>2, <3>3, RunGrowsByRing
    <2>11. Run(completed, PastOfi) \o Held(ofiIn) = Run(completed, PastRegister) /\ completed <= PastRegister
      <3>1. PastRegister = PastOfi + Has(ofiIn)
        BY <2>7 DEF PastRegister
      <3>2. completed <= PastOfi /\ (~Free(ofiIn) => ofiIn.msg = PastOfi)
        BY <2>7, <2>10
      <3>3. completed \in Nat /\ PastOfi \in Nat
        BY <2>3
      <3>4. QED
        BY <3>1, <3>2, <3>3, RunGrowsBySlot
    <2>12. Run(completed, PastRegister) \o bramRing = Run(completed, PastRam) /\ completed <= PastRam
      <3>1. PastRam = PastRegister + Len(bramRing)
        BY <2>7 DEF PastRam
      <3>2. completed <= PastRegister /\ (AtMost(bramRing, PastRegister))
        BY <2>7, <2>11
      <3>3. completed \in Nat /\ PastRegister \in Nat
        BY <2>3
      <3>4. QED
        BY <3>1, <3>2, <3>3, RunGrowsByRing
    <2>13. Run(completed, PastRam) \o Held(rd) = Run(completed, PastRead) /\ completed <= PastRead
      <3>1. PastRead = PastRam + Has(rd)
        BY <2>7 DEF PastRead
      <3>2. completed <= PastRam /\ (~Free(rd) => rd.msg = PastRam)
        BY <2>7, <2>12
      <3>3. completed \in Nat /\ PastRam \in Nat
        BY <2>3
      <3>4. QED
        BY <3>1, <3>2, <3>3, RunGrowsBySlot
    <2>14. Run(completed, PastRead) \o Held(bookSlot) = Run(completed, PastBook) /\ completed <= PastBook
      <3>1. PastBook = PastRead + Has(bookSlot)
        BY <2>7 DEF PastBook
      <3>2. completed <= PastRead /\ (~Free(bookSlot) => bookSlot.msg = PastRead)
        BY <2>7, <2>13
      <3>3. completed \in Nat /\ PastRead \in Nat
        BY <2>3
      <3>4. QED
        BY <3>1, <3>2, <3>3, RunGrowsBySlot
    <2>15. Run(completed, PastBook) \o Held(parse) = Run(completed, PastParse) /\ completed <= PastParse
      <3>1. PastParse = PastBook + Has(parse)
        BY <2>7 DEF PastParse
      <3>2. completed <= PastBook /\ (~Free(parse) => parse.msg = PastBook)
        BY <2>7, <2>14
      <3>3. completed \in Nat /\ PastBook \in Nat
        BY <2>3
      <3>4. QED
        BY <3>1, <3>2, <3>3, RunGrowsBySlot
    <2>16. Run(completed, PastParse) \o Held(mac) = Run(completed, PastMac) /\ completed <= PastMac
      <3>1. PastMac = PastParse + Has(mac)
        BY <2>7 DEF PastMac
      <3>2. completed <= PastParse /\ (~Free(mac) => mac.msg = PastParse)
        BY <2>7, <2>15
      <3>3. completed \in Nat /\ PastParse \in Nat
        BY <2>3
      <3>4. QED
        BY <3>1, <3>2, <3>3, RunGrowsBySlot
    <2>17. Run(completed, PastMac) \o Held(pcs) = Run(completed, nextMsg) /\ completed <= nextMsg
      <3>1. nextMsg = PastMac + Has(pcs)
        BY <2>7 DEF InOrder
      <3>2. completed <= PastMac /\ (~Free(pcs) => pcs.msg = PastMac)
        BY <2>7, <2>16
      <3>3. completed \in Nat /\ PastMac \in Nat
        BY <2>3
      <3>4. QED
        BY <3>1, <3>2, <3>3, RunGrowsBySlot
    <2>18. Held(dma) \o dmaQ \o ofiRing \o Held(ofiIn) \o bramRing \o Held(rd)
             \o Held(bookSlot) \o Held(parse) \o Held(mac) \o Held(pcs)
             = Run(completed, nextMsg)
      BY <2>8, <2>9, <2>10, <2>11, <2>12, <2>13, <2>14, <2>15, <2>16, <2>17
    <2>19. QED
      BY <2>4, <2>18 DEF InFlightInOrder, Run
  <1>2. QED
    BY <1>1, PipelineInvariant, PTL

\* After an error no step of the engine changes what can be observed.
THEOREM ErrorFreezesThePipeline == PipeSpec => FrozenAfterError
  <1>1. ASSUME [PipeNext]_pipeVars, error
        PROVE  UNCHANGED <<slotVars, ringVars, messageVars, countVars, error,
                           entries, book, memory, dmaEngine>>
    <2>1. CASE UNCHANGED pipeVars
      BY <2>1 DEF pipeVars, bramVars
    <2>2. CASE PipeNext
      <3>1. PosedgeAfterError \/ NegedgeAfterError
        BY <1>1, <2>2 DEF PipeNext, Posedge, Negedge
      <3>2. QED
        BY <3>1 DEF PosedgeAfterError, NegedgeAfterError, BramPosedge, bramVars
    <2>3. QED
      BY <1>1, <2>1, <2>2
  <1>2. [PipeNext]_pipeVars =>
           [error => UNCHANGED <<slotVars, ringVars, messageVars, countVars, error,
                                 entries, book, memory, dmaEngine>>]_pipeVars
    BY <1>1
  <1>3. QED
    BY <1>2, PTL DEF PipeSpec, FrozenAfterError
==============================================================================
