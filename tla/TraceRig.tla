------------------------------ MODULE TraceRig -------------------------------
(***************************************************************************)
(* The demo driver, main.cpp: it registers the pipeline's two callbacks    *)
(* and, after them, the logger's, and steps the engine until the pipeline  *)
(* is done or the cycle limit is reached.  Of the pipeline only what the   *)
(* logger and the loop look at is kept, with arbitrary values: wire_busy() *)
(* changes on the posedge, last_ofi() on the negedge, done() on both.      *)
(***************************************************************************)
EXTENDS DiscreteEngine, VcdLogger, Functions

CONSTANT CycleLimit      \* cycle_limit; 100000 in the code

ASSUME RigAssumption == CycleLimit \in Nat

\* Values of the OFI unit, int32 in the code.
OfiValues == -(2 ^ (Width - 1)) .. 2 ^ (Width - 1) - 1

VARIABLES
  main,                  \* where main stands: registering, running or at its end
  wireBusy, lastOfi, done,         \* the pipeline
  shown                  \* history: wire_busy and last_ofi at the end of each cycle

pipelineVars == <<wireBusy, lastOfi, done>>
rigVars == <<engineVars, vcdVars, main, pipelineVars, shown>>

RigInit ==
  /\ EngineInit /\ VcdInit
  /\ main = "register pipeline posedge"
  /\ wireBusy = FALSE /\ lastOfi = 0 /\ done = FALSE
  /\ shown = <<>>

\* The three registrations; a refused one ends main.
Then(ok, next) == main' = IF ok THEN next ELSE "failed"

RegisterPipelinePosedge ==
  /\ main = "register pipeline posedge"
  /\ on_posedge("pipeline") /\ Then(PosedgeOk("pipeline"), "register pipeline negedge")
  /\ UNCHANGED <<vcdVars, pipelineVars, shown>>

\* Mutant: the logger is registered before the pipeline's negedge.
RegisterNegedgesSwapped ==
  /\ \/ /\ main = "register pipeline negedge"
        /\ on_negedge("logger") /\ Then(NegedgeOk("logger"), "register logger")
     \/ /\ main = "register logger"
        /\ on_negedge("pipeline") /\ Then(NegedgeOk("pipeline"), "run")
  /\ UNCHANGED <<vcdVars, pipelineVars, shown>>

RegisterNegedges ==
  /\ \/ /\ main = "register pipeline negedge"
        /\ on_negedge("pipeline") /\ Then(NegedgeOk("pipeline"), "register logger")
     \/ /\ main = "register logger"
        /\ on_negedge("logger") /\ Then(NegedgeOk("logger"), "run")
  /\ UNCHANGED <<vcdVars, pipelineVars, shown>>

\* while (!done() && cycle() < cycle_limit) step();
LoopStep ==
  /\ main = "run" /\ ~done /\ cycle < CycleLimit
  /\ BeginStep
  /\ UNCHANGED <<vcdVars, main, pipelineVars, shown>>

LoopEnd ==
  /\ main = "run" /\ ~stepping /\ (done \/ cycle >= CycleLimit)
  /\ main' = "ended"
  /\ UNCHANGED <<engineVars, vcdVars, pipelineVars, shown>>

PipelinePosedge ==
  /\ Call("pos", "pipeline")
  /\ wireBusy' \in BOOLEAN /\ done' \in BOOLEAN
  /\ UNCHANGED <<vcdVars, main, lastOfi, shown>>

PipelineNegedge ==
  /\ Call("neg", "pipeline")
  /\ lastOfi' \in OfiValues /\ done' \in {done, TRUE}
  /\ UNCHANGED <<vcdVars, main, wireBusy, shown>>

LoggerNegedge ==
  /\ Call("neg", "logger")
  /\ LogCycle(cycle, wireBusy, lastOfi)
  /\ UNCHANGED <<main, pipelineVars, shown>>

StepEnds ==
  /\ EndStep
  /\ shown' = Append(shown, [tick |-> wireBusy, ofi |-> lastOfi])
  /\ UNCHANGED <<vcdVars, main, pipelineVars>>

RigNext ==
  \/ RegisterPipelinePosedge \/ RegisterNegedges \/ LoopStep \/ LoopEnd
  \/ PipelinePosedge \/ PipelineNegedge \/ LoggerNegedge \/ StepEnds

RigSpec == RigInit /\ [][RigNext]_rigVars

------------------------------------------------------------------------------
(***************************************************************************)
(* Reading the file: the value of a signal at a time is the last one       *)
(* written under a time stamp not later than it.                           *)
(***************************************************************************)
Stamps == SelectSeq(trace, LAMBDA l : l.signal = "time")
StampOf(k) ==
  LET before == SelectSeq(SubSeq(trace, 1, k), LAMBDA l : l.signal = "time") IN
  before[Len(before)].value
ValueAt(signal, t) ==
  LET written == {k \in DOMAIN trace : trace[k].signal = signal /\ StampOf(k) <= t} IN
  trace[CHOOSE k \in written : \A j \in written : j <= k].value

\* The number a reader sees in a vector of two's complement.
Signed(bits) ==
  LET value[n \in 0 .. Width - 1] ==
        IF n = 0 THEN 0 ELSE value[n - 1] + bits[n - 1] * 2 ^ (n - 1) IN
  value[Width - 1] - bits[Width - 1] * 2 ^ (Width - 1)

\* Time in the trace only moves forward, without a repeated stamp, from the
\* #0 of the header on (the assertion of test_vcd_logger.cpp).
StampsIncrease ==
  \A k \in 1 .. Len(Stamps) - 1 : Stamps[k].value < Stamps[k + 1].value

\* The trace shows, for each cycle run so far, a rising edge at its start and
\* a falling one half a cycle later, and between them the state in which the
\* pipeline left that cycle, not the one before its negedge; and its time
\* stamps increase, so that it can be read this way.
TraceShowsCycle ==
  /\ StampsIncrease
  /\ open /\ ~stepping => \A c \in 0 .. Len(shown) - 1 :
       LET t == c * UnitsPerCycle IN
       /\ ValueAt("clk", t) = 1 /\ ValueAt("clk", t + UnitsPerHalfCycle) = 0
       /\ ValueAt("tick", t) = shown[c + 1].tick
       /\ Signed(ValueAt("ofi", t)) = shown[c + 1].ofi

\* What the pipeline sees is the clock its model is built on: a posedge and
\* then a negedge in each cycle, cycle after cycle, although the engine also
\* calls another client.
Waiting(edge) == [edge |-> edge, callback |-> "pipeline"] \in Range(todo)
Clock == INSTANCE EngineClock WITH
  cycle <- IF stepping /\ ~Waiting("neg") THEN cycle + 1 ELSE cycle,
  edge <- IF stepping /\ ~Waiting("pos") /\ Waiting("neg") THEN "neg" ELSE "pos"
PipelineClock == Clock!ClockSpec
==============================================================================
