------------------------------- MODULE OfiDsp --------------------------------
(***************************************************************************)
(* OfiDsp of include/modules/ofi_dsp.hpp: the three-stage order-flow-      *)
(* imbalance pipeline.  A quote is the best bid and ask of the book, price *)
(* and quantity; arithmetic is exact in int64 and saturated to int32.      *)
(***************************************************************************)
EXTENDS BookQuotes

VARIABLES previous,      \* previous_: the last quote that entered
          validPrevious, \* valid_previous_
          ofiPipe,       \* pipeline_
          output         \* output_

ofiVars == <<previous, validPrevious, ofiPipe, output>>

PipelineStages == 3
OfiStage == 0 .. PipelineStages - 1

Bubble == [valid |-> FALSE, value |-> 0]
Value(v) == [valid |-> TRUE, value |-> v]

OfiInit ==
  /\ previous = Quote(0, 0, 0, 0)
  /\ validPrevious = FALSE
  /\ ofiPipe = [i \in OfiStage |-> Bubble]
  /\ output = Bubble

\* side_bid and side_ask, given the previous quote p and whether there is one.
side_bid(q, p, have) ==
  IF ~have \/ q.bidPrice > p.bidPrice THEN q.bidQty
  ELSE IF q.bidPrice = p.bidPrice THEN q.bidQty - p.bidQty
  ELSE -p.bidQty

side_ask(q, p, have) ==
  IF ~have \/ q.askPrice < p.askPrice THEN -q.askQty
  ELSE IF q.askPrice = p.askPrice THEN p.askQty - q.askQty
  ELSE p.askQty

\* The pipeline after one posedge that lets s into stage 0.
Shifted(s) == [i \in OfiStage |-> IF i = 0 THEN s ELSE ofiPipe[i - 1]]

\* posedge(quote)
OfiPosedge(q) ==
  /\ ofiPipe' = Shifted(Value(saturate(side_bid(q, previous, validPrevious)
                                        + side_ask(q, previous, validPrevious))))
  /\ previous' = q
  /\ validPrevious' = TRUE
  /\ UNCHANGED output

\* Mutant: an idle cycle also forgets the quote before it.
OfiIdleForgets ==
  /\ ofiPipe' = Shifted(Bubble)
  /\ validPrevious' = FALSE
  /\ UNCHANGED <<previous, output>>

\* posedge_idle()
OfiIdle ==
  /\ ofiPipe' = Shifted(Bubble)
  /\ UNCHANGED <<previous, validPrevious, output>>

\* negedge()
OfiNegedge ==
  /\ output' = ofiPipe[PipelineStages - 1]
  /\ UNCHANGED <<previous, validPrevious, ofiPipe>>

\* reset()
OfiReset ==
  /\ previous' = Quote(0, 0, 0, 0)
  /\ validPrevious' = FALSE
  /\ ofiPipe' = [i \in OfiStage |-> Bubble]
  /\ output' = Bubble
==============================================================================
