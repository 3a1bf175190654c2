----------------------------- MODULE EngineBench -----------------------------
(***************************************************************************)
(* The engine with clients that register at any time between two steps,    *)
(* several times if they like, also with a null callback or when there is  *)
(* no slot left, and a caller that resets the cycle counter.               *)
(***************************************************************************)
EXTENDS DiscreteEngine

CONSTANTS Clients,
          MaxSteps       \* bound on the steps of a behaviour

ASSUME ClientAssumption == Null \notin Clients

VARIABLES steps,         \* history: steps completed
          accepted,      \* history: registrations the engine said it took
          calls, owed     \* history: calls made, and calls the steps owe

Edges == {"pos", "neg"}
Callbacks == Clients \cup {Null}
clientVars == <<engineVars, steps, accepted, calls, owed>>

NoCalls == [e \in Edges |-> [c \in Callbacks |-> 0]]

ClientsInit == EngineInit /\ steps = 0 /\ accepted = NoCalls /\ calls = NoCalls /\ owed = NoCalls

\* One client more, where the call returned true.
Record(edge, c, ok) ==
  accepted' = IF ok THEN [accepted EXCEPT ![edge][c] = @ + 1] ELSE accepted

Register(c) ==
  /\ \/ on_posedge(c) /\ Record("pos", c, PosedgeOk(c))
     \/ on_negedge(c) /\ Record("neg", c, NegedgeOk(c))
  /\ UNCHANGED <<steps, calls, owed>>

Step ==
  /\ steps < MaxSteps /\ BeginStep
  /\ owed' = [e \in Edges |-> [c \in Callbacks |-> owed[e][c] + accepted[e][c]]]
  /\ UNCHANGED <<steps, accepted, calls>>

RunCallback(e, c) ==
  /\ Call(e, c)
  /\ calls' = [calls EXCEPT ![e][c] = @ + 1]
  /\ UNCHANGED <<steps, accepted, owed>>

StepDone == EndStep /\ steps' = steps + 1 /\ UNCHANGED <<accepted, calls, owed>>

ResetCycle == reset /\ UNCHANGED <<steps, accepted, calls, owed>>

ClientsNext ==
  \/ \E c \in Callbacks : Register(c)
  \/ \E e \in Edges, c \in Callbacks : RunCallback(e, c)
  \/ Step \/ StepDone \/ ResetCycle

ClientsSpec == ClientsInit /\ [][ClientsNext]_clientVars

------------------------------------------------------------------------------
\* Every registration for which on_posedge or on_negedge returned true runs
\* exactly once in every later step, a refused one never runs and no empty
\* slot is ever called, whatever the order in which the two arrays fill up
\* and whenever the cycle counter is reset.
AcceptedCallbacksRun == ~stepping => calls = owed
==============================================================================
