----------------------------- MODULE MCAlgorithms ----------------------------
(***************************************************************************)
(* The units that compute, model checked on their own: the OFI unit and    *)
(* the micro-price table, the PCS with its CRC, the parser's loop and the  *)
(* latency statistics.  They share no state, so a behaviour drives one of  *)
(* them, chosen at its start.                                              *)
(***************************************************************************)
EXTENDS OfiBench, MicroPriceLut, PcsLink, ItchParser, LatencyStats

CONSTANTS Lengths,      \* lengths of the payloads
          MaxWhole      \* whole messages in a buffer

VARIABLE unit           \* the unit this behaviour drives

(***************************************************************************)
(* Inputs.                                                                 *)
(***************************************************************************)

\* Every argument inside the micro-price table and several on each side of it.
MCImbalances == -20 .. 20
MCSpreads == 0 .. 10

\* A payload of each length around the block, capacity and buffer limits.
Bytes == <<{1, 3, 5}, {}, 0 .. 7, {7}, {0}, {2, 6}, {}, {0, 4, 5, 7}, {1}, {3, 6}, 0 .. 3>>
MCPayloads == {SubSeq(Bytes, 1, n) : n \in Lengths}

\* Whole messages of three types and then nothing, a message cut after its
\* first byte or one byte short, or a type the parser does not know.  Every
\* field of every message is set, those its type does not carry included.
Of(type, reference, bytes) ==
  [type |-> type, reference |-> reference, newReference |-> reference, bid |-> TRUE,
   price |-> 1, shares |-> 1, size |-> bytes]
WholeParts == UNION {[1 .. n -> {"A", "D", "U"}] : n \in 0 .. MaxWhole}
Ends == {<<>>, <<Of("A", 0, 1)>>, <<Of("D", 0, 18)>>, <<Of("U", 0, 34)>>, <<Of("?", 0, 12)>>}
MCBuffers ==
  {[k \in DOMAIN types |-> Of(types[k], k, LengthFor(types[k]))] \o end :
     types \in WholeParts, end \in Ends} \ {<<>>}

(***************************************************************************)
(* One unit at a time.  While another is driven the wire is empty and the  *)
(* parser has the shortest of buffers.                                     *)
(***************************************************************************)
Units == {"ofi", "lut", "pcs", "parser", "statistics"}

unitVars == <<unit, benchVars, lutVars, linkVars, parserVars, samples>>

UnitsInit ==
  /\ unit \in Units
  /\ BenchInit /\ LutInit /\ LinkInit /\ ParserInit /\ StatsInit
  /\ unit # "pcs" => blocks = <<>>
  /\ unit # "parser" => buffer = <<Of("?", 0, 12)>>

DriveOfi ==
  unit = "ofi" /\ BenchNext /\ UNCHANGED <<unit, lutVars, linkVars, parserVars, samples>>
DriveLut ==
  unit = "lut" /\ Ask /\ UNCHANGED <<unit, benchVars, linkVars, parserVars, samples>>
DrivePcs ==
  unit = "pcs" /\ LinkNext /\ UNCHANGED <<unit, benchVars, lutVars, parserVars, samples>>
DriveParser ==
  unit = "parser" /\ ParserNext /\ UNCHANGED <<unit, benchVars, lutVars, linkVars, samples>>
DriveStatistics ==
  unit = "statistics" /\ StatsNext /\ UNCHANGED <<unit, benchVars, lutVars, linkVars, parserVars>>

UnitsNext == DriveOfi \/ DriveLut \/ DrivePcs \/ DriveParser \/ DriveStatistics

UnitsSpec == UnitsInit /\ [][UnitsNext]_unitVars /\ ParserFairness
==============================================================================
