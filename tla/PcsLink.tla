------------------------------- MODULE PcsLink -------------------------------
(***************************************************************************)
(* A payload encoded into blocks, a wire that may invert some bits, and a  *)
(* receiver that decodes them, with the payload's length as the pipeline   *)
(* does or without it, the default of decode.                              *)
(***************************************************************************)
EXTENDS Pcs

CONSTANTS Payloads,
          Capacity, Room, \* blocks of encode and bytes of decode; 8 and 48 in the code
          MaxFlips        \* bound on the inverted bits

ASSUME LinkAssumption == Capacity \in Nat \ {0} /\ Room \in Nat /\ MaxFlips \in Nat

VARIABLES sent, blocks,
          flips,          \* the bits inverted: block and position
          expected,       \* the length the receiver passes to decode
          received,       \* has decode been called?
          result          \* PcsResult and the payload buffer

linkVars == <<sent, blocks, flips, expected, received, result>>

LinkInit ==
  /\ sent \in Payloads
  /\ blocks = Encode(sent, Capacity)
  /\ flips = {} /\ expected = 0 /\ received = FALSE /\ result = NoPayload

Noise ==
  /\ ~received /\ Cardinality(flips) < MaxFlips
  /\ \E k \in DOMAIN blocks, bit \in 0 .. 63 :
       /\ <<k, bit>> \notin flips
       /\ flips' = flips \cup {<<k, bit>>}
       /\ blocks' = [blocks EXCEPT ![k] = SymDiff(@, {bit})]
  /\ UNCHANGED <<sent, expected, received, result>>

Receive ==
  /\ ~received /\ received' = TRUE
  /\ expected' \in {0, Len(sent)}
  /\ result' = Decode66b(blocks, Room, expected')
  /\ UNCHANGED <<sent, blocks, flips>>

LinkNext == Noise \/ Receive

LinkSpec == LinkInit /\ [][LinkNext]_linkVars

------------------------------------------------------------------------------
(***************************************************************************)
(* CRC-32 by its mathematical definition: the complement of the remainder  *)
(* of a polynomial over GF(2), a polynomial being the set of its exponents.*)
(* The dividend is the message, lowest bit of each byte first, times x^32, *)
(* with the first 32 coefficients inverted.                                *)
(***************************************************************************)
Generator == {32, 26, 23, 22, 16, 12, 11, 10, 8, 7, 5, 4, 2, 1, 0}

Dividend(data) ==
  LET n == 8 * Len(data) IN
  SymDiff(UNION {{n + 32 - 8 * i + 7 - b : b \in data[i]} : i \in DOMAIN data},
          n .. n + 31)

Remainder(dividend, degree) ==
  LET cancel(rest, k) ==                  \* the term of degree - k goes
        LET multiple == {e + degree - k - 32 : e \in Generator} IN
        {e \in 0 .. degree - k : (e \in rest) # (degree - k \in rest /\ e \in multiple)} IN
  FoldLeft(cancel, dividend, [k \in 1 .. degree - 32 |-> k])

\* The shift register of Crc32::compute calculates CRC-32 of every payload put on the wire.
CrcIsRemainder ==
  ~received /\ flips = {} /\ blocks # <<>> =>
    LET r == Remainder(Dividend(sent), 8 * Len(sent) + 32) IN
    Crc32(sent) = {k \in 0 .. 31 : 31 - k \notin r}

\* Over a clean wire decode gives the payload back exactly when both buffers
\* are large enough, the abstraction the pipeline model uses; without the
\* length it does so only for a payload that fills its blocks to the last
\* byte, because padding is taken for the end of the CRC.
CleanWireDecodes ==
  received /\ flips = {} =>
    (result.valid <=>
       IF expected # 0 THEN Recoverable(Len(sent), Capacity, Room)
         ELSE /\ blocks # <<>>
              /\ Len(sent) + CrcBytes = Smaller(BytesPerBlock * Len(blocks), Room))

\* What decode accepts is what was sent, in content and in length, although
\* up to MaxFlips bits of payload, CRC, padding or markers were inverted: the
\* CRC catches a changed byte and a block without its marker leaves too few
\* bytes for the expected length.  A clean wire loses nothing that fits.
AcceptedIsSent == CleanWireDecodes /\ (result.valid => result.payload = sent)
==============================================================================
