--------------------------------- MODULE Pcs ---------------------------------
(***************************************************************************)
(* Crc32 and Deserializer66b of include/modules/phy_pcs.hpp as functions   *)
(* of their arguments.  A word of any width is the set of the positions of *)
(* its 1 bits, so that exclusive or is the symmetric difference.           *)
(***************************************************************************)
EXTENDS Integers, SequencesExt, FiniteSetsExt

Smaller(a, b) == IF a < b THEN a ELSE b

\* The byte of word w whose lowest bit is bit p of w, and the inverse.
ByteOf(w, p) == {b - p : b \in w \cap p .. p + 7}
Placed(byte, p) == {b + p : b \in byte}

------------------------------------------------------------------------------
(***************************************************************************)
(* Crc32::compute, least significant bit first.                            *)
(***************************************************************************)
\* Mutant: the polynomial with its bits in the other order, 0x04C11DB7.
PolynomialUnreflected == {0, 1, 2, 4, 5, 7, 8, 10, 11, 12, 16, 22, 23, 26}

Polynomial == {5, 8, 9, 15, 19, 20, 21, 23, 24, 26, 27, 29, 30, 31}   \* 0xEDB88320

ShiftRight(w) == {b - 1 : b \in w \ {0}}

\* Mutant: the polynomial is masked with the low bit instead of with all ones
\* when the low bit is set; bit 0 of the polynomial is 0.
CrcBitUnmasked(crc) ==
  IF 0 \in crc THEN SymDiff(ShiftRight(crc), Polynomial \cap {0}) ELSE ShiftRight(crc)

CrcBit(crc) ==
  IF 0 \in crc THEN SymDiff(ShiftRight(crc), Polynomial) ELSE ShiftRight(crc)

CrcByte(crc, byte) ==
  FoldLeft(LAMBDA c, bit : CrcBit(c), SymDiff(crc, byte), <<0, 1, 2, 3, 4, 5, 6, 7>>)

Crc32(data) == (0 .. 31) \ FoldLeft(CrcByte, 0 .. 31, data)

------------------------------------------------------------------------------
(***************************************************************************)
(* Deserializer66b::encode: the payload, its CRC with the most significant *)
(* byte first, and zeros up to a whole number of blocks.  Bits 56 to 63 of *)
(* a block are its marker, the number 1.                                   *)
(***************************************************************************)
BytesPerBlock == 7
CrcBytes == 4
Marker == {0}

\* The number of blocks, or 0 when there are more than the caller has room for.
BlockCount(length, capacity) ==
  LET count == (length + CrcBytes + BytesPerBlock - 1) \div BytesPerBlock IN
  IF count > capacity THEN 0 ELSE count

Frame(payload) ==
  payload \o [k \in 1 .. CrcBytes |-> ByteOf(Crc32(payload), 8 * (CrcBytes - k))]

Encode(payload, capacity) ==
  LET frame == Frame(payload)
      byte(i) == IF i \in DOMAIN frame THEN frame[i] ELSE {} IN
  [k \in 1 .. BlockCount(Len(payload), capacity) |->
     Placed(Marker, 56) \cup
       UNION {Placed(byte(BytesPerBlock * (k - 1) + j + 1), 8 * (6 - j)) : j \in 0 .. 6}]

(***************************************************************************)
(* Deserializer66b::decode into room bytes.  A block without the marker is *)
(* skipped.  An expected length of 0 stands for "all but the CRC of what   *)
(* was written".                                                           *)
(***************************************************************************)
Written(blocks, room) ==
  LET marked == SelectSeq(blocks, LAMBDA b : ByteOf(b, 56) = Marker)
      bytes == [i \in 1 .. BytesPerBlock * Len(marked) |->
                  ByteOf(marked[(i - 1) \div BytesPerBlock + 1],
                         8 * (6 - ((i - 1) % BytesPerBlock)))] IN
  SubSeq(bytes, 1, Smaller(room, Len(bytes)))

\* The CRC that follows the first length bytes.
CrcAfter(bytes, length) ==
  UNION {Placed(bytes[length + k], 8 * (CrcBytes - k)) : k \in 1 .. CrcBytes}

NoPayload == [lock |-> FALSE, valid |-> FALSE, payload |-> <<>>]

Decode66b(blocks, room, expected) ==
  LET written == Written(blocks, room)
      length == IF expected # 0 THEN expected
                ELSE IF Len(written) >= CrcBytes THEN Len(written) - CrcBytes ELSE 0
      payload == SubSeq(written, 1, length) IN
  IF blocks = <<>> THEN NoPayload
  ELSE IF length + CrcBytes > Len(written) \/ length > room
    THEN [NoPayload EXCEPT !.lock = TRUE]
  ELSE [lock |-> TRUE, payload |-> payload,
        valid |-> Crc32(payload) = CrcAfter(written, length)]

\* Does decode get a payload of this length back, given its length?  This is
\* all the pipeline needs to know of the two.
Recoverable(length, capacity, room) ==
  /\ BlockCount(length, capacity) > 0
  /\ length + CrcBytes <= Smaller(BytesPerBlock * BlockCount(length, capacity), room)
==============================================================================
