----------------------------- MODULE BramBench -------------------------------
(***************************************************************************)
(* The quote RAM alone, driven the way the engine drives it: one posedge   *)
(* with any pair of requests, then one negedge, for ever, with a reset     *)
(* between cycles.  A history of the answers each request pair is due lets *)
(* the Latency parameter be stated as a property.                          *)
(***************************************************************************)
EXTENDS DualPortBram

CONSTANT Words          \* values that may be written; Blank is one of them

VARIABLES edge,         \* the next clock edge: "pos" or "neg"
          mirror,       \* memory after every write issued so far
          due           \* due[k]: the answers to the pair issued k cycles ago

benchVars == <<bramVars, edge, mirror, due>>

\* Addresses up to BramDepth, one beyond the memory, so that requests the
\* code ignores are issued as well.
Requests ==
  {NoRequest} \cup {ReadRequest(w) : w \in 0 .. BramDepth}
    \cup {[WriteRequest(w, d) EXCEPT !.read = r] :
             w \in 0 .. BramDepth, d \in Words, r \in BOOLEAN}

NothingDue == [k \in 1 .. BramLatency |-> <<NoResponse, NoResponse>>]

BenchInit ==
  BramInit /\ edge = "pos" /\ mirror = memory /\ due = NothingDue

PosedgeStep(a, b) ==
  /\ edge = "pos" /\ edge' = "neg"
  /\ BramPosedge(a, b)
  /\ mirror' = Written(Written(mirror, a), b)
  /\ due' = [k \in 1 .. BramLatency |->
               IF k = 1 THEN <<Answer(mirror', a), Answer(mirror', b)>>
                        ELSE due[k - 1]]

NegedgeStep ==
  /\ edge = "neg" /\ edge' = "pos"
  /\ BramNegedge
  /\ UNCHANGED <<mirror, due>>

ResetStep ==
  /\ edge = "pos" /\ BramReset
  /\ mirror' = memory' /\ due' = NothingDue
  /\ UNCHANGED edge

BenchNext ==
  \/ \E a, b \in Requests : PosedgeStep(a, b)
  \/ NegedgeStep
  \/ ResetStep

BenchSpec == BenchInit /\ [][BenchNext]_benchVars

\* A pair issued at the posedge of cycle t is answered at the negedge of
\* cycle t + Latency - 1, and at no other: each read returns the last value
\* any port wrote to its address up to and including its own cycle, and a
\* cycle whose pair has no read answers nothing (bram_memory.hpp, posedge and
\* negedge; the README's quote RAM row derives its cycles from Latency).
AnswersAfterLatency ==
  edge = "pos" => <<responseA, responseB>> = due[BramLatency]
==============================================================================
