------------------------------- MODULE MCUnits -------------------------------
(***************************************************************************)
(* The units that store things, model checked on their own: the ring, the  *)
(* order table, the quote RAM and the engine's callback arrays.  They      *)
(* share no state, so a behaviour drives one of them, chosen at its start, *)
(* and leaves the others as they were made.                                *)
(***************************************************************************)
EXTENDS RingBuffer, OrderTableBench, BramBench, EngineBench

VARIABLE unit           \* the unit this behaviour drives

Units == {"ring", "order table", "quote RAM", "engine"}

unitVars == <<unit, ringVars, tableVars, benchVars, clientVars>>

UnitsInit ==
  /\ unit \in Units
  /\ RingInit /\ TableBenchInit /\ BenchInit /\ ClientsInit

DriveRing ==
  unit = "ring" /\ RingNext /\ UNCHANGED <<unit, tableVars, benchVars, clientVars>>
DriveTable ==
  unit = "order table" /\ TableNext /\ UNCHANGED <<unit, ringVars, benchVars, clientVars>>
DriveRam ==
  unit = "quote RAM" /\ BenchNext /\ UNCHANGED <<unit, ringVars, tableVars, clientVars>>
DriveEngine ==
  unit = "engine" /\ ClientsNext /\ UNCHANGED <<unit, ringVars, tableVars, benchVars>>

UnitsNext == DriveRing \/ DriveTable \/ DriveRam \/ DriveEngine

UnitsSpec == UnitsInit /\ [][UnitsNext]_unitVars
==============================================================================
