---------------------------- MODULE DualPortBram -----------------------------
(***************************************************************************)
(* DualPortBram<T, Depth, Latency> of include/modules/bram_memory.hpp, in  *)
(* the build without assertions (Release): the two assert()s of posedge do *)
(* not stop the program, a colliding pair is only flagged and a request    *)
(* outside the memory is ignored by negedge.                               *)
(***************************************************************************)
EXTENDS Integers

CONSTANTS BramDepth,    \* Depth: number of words
          BramLatency,  \* Latency: stages of the request pipeline
          Blank         \* T{}

ASSUME BramAssumption ==
  BramDepth \in Nat \ {0} /\ BramLatency \in Nat \ {0}

VARIABLES memory,       \* memory_
          pending,      \* pending_: the request pairs in the pipeline
          responseA,    \* response_a_
          responseB,    \* response_b_
          collision     \* collision_

bramVars == <<memory, pending, responseA, responseB, collision>>

Address == 0 .. BramDepth - 1
Stage == 0 .. BramLatency - 1

ReadRequest(addr) ==
  [read |-> TRUE, write |-> FALSE, address |-> addr, data |-> Blank]
WriteRequest(addr, value) ==
  [read |-> FALSE, write |-> TRUE, address |-> addr, data |-> value]
NoRequest == [read |-> FALSE, write |-> FALSE, address |-> 0, data |-> Blank]
NoResponse == [valid |-> FALSE, data |-> Blank]

BramInit ==
  /\ memory = [w \in Address |-> Blank]
  /\ pending = [i \in Stage |-> [a |-> NoRequest, b |-> NoRequest]]
  /\ responseA = NoResponse /\ responseB = NoResponse
  /\ collision = FALSE

\* Mutant: any write next to an idle or busy port at the same address.
CollidesWithIdle(a, b) == a.address = b.address /\ (a.write \/ b.write)

Collides(a, b) ==
  /\ a.address = b.address
  /\ (a.write /\ b.write) \/ (a.write /\ b.read) \/ (b.write /\ a.read)

\* posedge(a, b).  The copy loop runs in place and upwards: stage i takes
\* what stage i - 1 holds after this call has already overwritten it.
BramPosedge(a, b) ==
  LET copied[i \in Stage] == IF i = 0 THEN [a |-> a, b |-> b] ELSE copied[i - 1]
  IN
  /\ collision' = Collides(a, b)
  /\ pending' = copied
  /\ UNCHANGED <<memory, responseA, responseB>>

\* What one port's write does to a memory, and one port's read returns.
Written(mem, req) ==
  IF req.write /\ req.address \in Address
    THEN [mem EXCEPT ![req.address] = req.data] ELSE mem
Answer(mem, req) ==
  IF req.read /\ req.address \in Address
    THEN [valid |-> TRUE, data |-> mem[req.address]] ELSE NoResponse

\* Mutant: the read ports sample the memory before the writes land.
BramNegedgeReadFirst ==
  LET request == pending[BramLatency - 1] IN
  /\ memory' = Written(Written(memory, request.a), request.b)
  /\ responseA' = Answer(memory, request.a)
  /\ responseB' = Answer(memory, request.b)
  /\ UNCHANGED <<pending, collision>>

\* negedge(): port A writes, then port B, then both ports read.
BramNegedge ==
  LET request == pending[BramLatency - 1]
      written == Written(Written(memory, request.a), request.b) IN
  /\ memory' = written
  /\ responseA' = Answer(written, request.a)
  /\ responseB' = Answer(written, request.b)
  /\ UNCHANGED <<pending, collision>>

\* reset()
BramReset ==
  /\ memory' = [w \in Address |-> Blank]
  /\ pending' = [i \in Stage |-> [a |-> NoRequest, b |-> NoRequest]]
  /\ responseA' = NoResponse /\ responseB' = NoResponse
  /\ collision' = FALSE
==============================================================================
