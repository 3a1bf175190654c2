----------------------------- MODULE BoundedFifo -----------------------------
(***************************************************************************)
(* What RingBuffer<T, Count> (include/core/aligned_slab.hpp) promises its  *)
(* users: a first-in first-out queue of at most Count values.  A push into *)
(* a full queue and a pop from an empty one are refused, and a refused     *)
(* call changes nothing.  The pipeline model uses its three rings through  *)
(* this specification; RingBuffer.tla is shown to implement it.            *)
(***************************************************************************)
EXTENDS Naturals, Sequences

CONSTANTS Count,    \* capacity of the ring
          Values    \* the values that may be stored

VARIABLES queue,    \* the values in the queue, oldest first
          result    \* what the last call returned

fifoVars == <<queue, result>>

\* Results of push and pop; pop's out-parameter is written only on success.
Pushed(ok) == <<"push", ok>>
Popped(v) == <<"pop", TRUE, v>>
Refused == <<"pop", FALSE>>
NoCall == <<"none">>

Results == {NoCall, Refused, Pushed(TRUE), Pushed(FALSE)}
             \cup {Popped(v) : v \in Values}

FifoInit == queue = <<>> /\ result = NoCall

Push(v) ==
  /\ queue' = IF Len(queue) = Count THEN queue ELSE Append(queue, v)
  /\ result' = Pushed(Len(queue) # Count)

Pop ==
  IF queue = <<>>
    THEN queue' = queue /\ result' = Refused
    ELSE queue' = Tail(queue) /\ result' = Popped(Head(queue))

FifoNext == Pop \/ \E v \in Values : Push(v)

FifoSpec == FifoInit /\ [][FifoNext]_fifoVars
==============================================================================
