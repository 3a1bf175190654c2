--------------------------- MODULE DiscreteEngine ----------------------------
(***************************************************************************)
(* DiscreteEngine of include/core/discrete_engine.hpp: two fixed arrays of *)
(* callbacks and a cycle counter.  A step runs the posedge callbacks and   *)
(* then the negedge callbacks, each in the order of registration; every    *)
(* callback is a step of its own here, for its client to act in.           *)
(***************************************************************************)
EXTENDS Integers, Sequences

CONSTANTS MaxCallbacks,  \* max_callbacks; 16 in the code
          Null           \* the null callback

ASSUME EngineAssumption == MaxCallbacks \in Nat \ {0}

VARIABLES posedge, negedge,        \* posedge_, negedge_
          count, negedgeCount,     \* count_, negedge_count_
          cycle,                   \* cycle_
          stepping, todo           \* step() under way and the calls it has left

callbackVars == <<posedge, negedge, count, negedgeCount>>
stepVars == <<cycle, stepping, todo>>
engineVars == <<callbackVars, stepVars>>

EngineInit ==
  /\ posedge = [i \in 1 .. MaxCallbacks |-> Null] /\ count = 0
  /\ negedge = [i \in 1 .. MaxCallbacks |-> Null] /\ negedgeCount = 0
  /\ cycle = 0 /\ stepping = FALSE /\ todo = <<>>

\* on_posedge and on_negedge return whether the callback was registered.
PosedgeOk(c) == c # Null /\ count < MaxCallbacks
NegedgeOk(c) == c # Null /\ negedgeCount < MaxCallbacks

on_posedge(c) ==
  /\ ~stepping
  /\ IF PosedgeOk(c)
       THEN posedge' = [posedge EXCEPT ![count + 1] = c] /\ count' = count + 1
       ELSE UNCHANGED <<posedge, count>>
  /\ UNCHANGED <<negedge, negedgeCount, stepVars>>

\* Mutant: the slot is chosen by the counter of the other edge.
OnNegedgeOtherCounter(c) ==
  /\ ~stepping
  /\ IF NegedgeOk(c)
       THEN negedge' = [negedge EXCEPT ![count + 1] = c] /\ negedgeCount' = negedgeCount + 1
       ELSE UNCHANGED <<negedge, negedgeCount>>
  /\ UNCHANGED <<posedge, count, stepVars>>

on_negedge(c) ==
  /\ ~stepping
  /\ IF NegedgeOk(c)
       THEN negedge' = [negedge EXCEPT ![negedgeCount + 1] = c] /\ negedgeCount' = negedgeCount + 1
       ELSE UNCHANGED <<negedge, negedgeCount>>
  /\ UNCHANGED <<posedge, count, stepVars>>

reset == ~stepping /\ cycle' = 0 /\ UNCHANGED <<callbackVars, stepping, todo>>

Calls(edge, callbacks, n) == [i \in 1 .. n |-> [edge |-> edge, callback |-> callbacks[i]]]

\* Mutant: the two loops of step() change places.
BeginStepNegedgeFirst ==
  /\ ~stepping /\ stepping' = TRUE
  /\ todo' = Calls("neg", negedge, negedgeCount) \o Calls("pos", posedge, count)
  /\ UNCHANGED <<callbackVars, cycle>>

BeginStep ==
  /\ ~stepping /\ stepping' = TRUE
  /\ todo' = Calls("pos", posedge, count) \o Calls("neg", negedge, negedgeCount)
  /\ UNCHANGED <<callbackVars, cycle>>

\* The next callback is run, with the number of the cycle.
Call(edge, c) ==
  /\ todo # <<>> /\ Head(todo) = [edge |-> edge, callback |-> c]
  /\ todo' = Tail(todo)
  /\ UNCHANGED <<callbackVars, cycle, stepping>>

EndStep ==
  /\ stepping /\ todo = <<>>
  /\ stepping' = FALSE /\ cycle' = cycle + 1
  /\ UNCHANGED <<callbackVars, todo>>
==============================================================================
