----------------------------- MODULE EngineClock -----------------------------
(***************************************************************************)
(* The clock a module sees when DiscreteEngine::step                       *)
(* (include/core/discrete_engine.hpp) runs its callbacks: a posedge and    *)
(* then a negedge with the same cycle number, and only then the next       *)
(* cycle.                                                                  *)
(***************************************************************************)
EXTENDS Integers

VARIABLES cycle,         \* cycle_
          edge           \* the edge whose callbacks run next

clockVars == <<cycle, edge>>

ClockInit == cycle = 0 /\ edge = "pos"

AtPosedge == edge = "pos" /\ edge' = "neg" /\ UNCHANGED cycle

AtNegedge == edge = "neg" /\ edge' = "pos" /\ cycle' = cycle + 1

\* The clock on its own, as the engine has to provide it.
ClockSpec == ClockInit /\ [][AtPosedge \/ AtNegedge]_clockVars
==============================================================================
