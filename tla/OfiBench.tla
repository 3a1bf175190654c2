------------------------------ MODULE OfiBench -------------------------------
(***************************************************************************)
(* The OFI unit alone: each cycle a quote or a bubble enters at the        *)
(* posedge and the output is sampled after the negedge.                    *)
(***************************************************************************)
EXTENDS OfiDsp

CONSTANTS Prices, Quantities

ASSUME QuoteAssumption == Prices \subseteq 0 .. IntMax /\ Quantities \subseteq Int

VARIABLES edge,    \* the next clock edge
          quoted,  \* the last quote that entered, EmptyQuote before the first
          due      \* due[k]: the output owed to what entered k cycles ago

benchVars == <<ofiVars, edge, quoted, due>>

Quotes == {Quote(bp, bq, ap, aq) :
             bp \in Prices, ap \in Prices, bq \in Quantities, aq \in Quantities}

BenchInit ==
  /\ OfiInit /\ edge = "pos" /\ quoted = EmptyQuote
  /\ due = [k \in 1 .. 3 |-> Bubble]

Owe(s) == due' = [k \in 1 .. 3 |-> IF k = 1 THEN s ELSE due[k - 1]]

QuoteEnters(q) ==
  /\ edge = "pos" /\ edge' = "neg"
  /\ OfiPosedge(q)
  /\ Owe(Value(saturate(ContOfi(q, quoted))))
  /\ quoted' = q

BubbleEnters ==
  /\ edge = "pos" /\ edge' = "neg"
  /\ OfiIdle
  /\ Owe(Bubble)
  /\ UNCHANGED quoted

NegedgeStep ==
  /\ edge = "neg" /\ edge' = "pos"
  /\ OfiNegedge
  /\ UNCHANGED <<quoted, due>>

ResetStep ==
  /\ edge = "pos" /\ OfiReset
  /\ quoted' = EmptyQuote /\ due' = [k \in 1 .. 3 |-> Bubble]
  /\ UNCHANGED edge

BenchNext ==
  \/ \E q \in Quotes : QuoteEnters(q)
  \/ BubbleEnters
  \/ NegedgeStep
  \/ ResetStep

BenchSpec == BenchInit /\ [][BenchNext]_benchVars

\* Three cycles after a quote entered, and only then, the output carries the
\* saturated order-flow imbalance between it and the quote that entered
\* before it, however many bubbles lie between the two (ofi_dsp.hpp 42-49).
OutputIsContOfi == edge = "pos" => output = due[3]
==============================================================================
